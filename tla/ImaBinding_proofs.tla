------------------------- MODULE ImaBinding_proofs -------------------------
(* Theorems about ImaBinding, for any number of configurations, calls,       *)
(* faults, stops and acts of the user.                                       *)
EXTENDS ImaBinding, FiniteSetTheorems, SequenceTheorems, TLAPS

-----------------------------------------------------------------------------
(* Types *)

Targets == [Scenes -> Ids \cup {Official}]

\* The steps without an argument.
PlainDos ==
  {"undo", "journal", "row", "select", "write", "await", "keep", "commit", "clear", "fail", "failed", "rejournal",
   "prefer", "awaitbefore", "writebefore", "settle", "remap", "native", "forget", "decide"}
StepSet ==
  [do : PlainDos] \cup [do : {"create"}, input : Inputs] \cup [do : {"modify"}, id : Ids, input : Inputs]
    \cup [do : {"set"}, scene : Scenes, id : Ids \cup {Official}] \cup [do : {"delete"}, id : Ids]
    \cup [do : {"awaittargets"}, to : Targets] \cup [do : {"aim"}, at : Selections]

Ops ==
  [call : {"switch", "restore"}, want : Inputs \cup {None}, cp : Checkpoints \cup {None}, bound : Inputs \cup {None},
   before : Selections, start : [account : Accounts, saved : Checkpoints \cup {None}], row : Records,
   safe : BOOLEAN, fallback : BOOLEAN, instead : Seq(StepSet), todo : Seq(StepSet)]

-----------------------------------------------------------------------------
(* The plan of an operation *)

Steps(t) == {t[j] : j \in 1 .. Len(t)}
Dos(t) == {s.do : s \in Steps(t)}
Has(t, dos) == \E d \in dos : d \in Dos(t)
Only(t, dos) == Dos(t) \subseteq dos

\* Steps that are in one plan come in this order.
Rank ==
  [rejournal |-> 0, undo |-> 1, modify |-> 2, create |-> 2, remap |-> 3, aim |-> 3, prefer |-> 4, set |-> 5,
   delete |-> 6, awaitbefore |-> 7, native |-> 8, awaittargets |-> 9, writebefore |-> 10, settle |-> 11, forget |-> 11,
   journal |-> 12, decide |-> 12, row |-> 13, select |-> 14, write |-> 15, await |-> 16, keep |-> 17, commit |-> 18,
   clear |-> 19, fail |-> 20, failed |-> 21]
Precedes(a, b) == Rank[a] < Rank[b] \/ (a = b /\ a \in {"set", "awaittargets"})
Sorted(t) == \A j \in 1 .. Len(t), i \in 1 .. Len(t) : i < j => Precedes(t[i].do, t[j].do)

\* What is done once the journal is written, by a switch and by a restore, ...
SwitchDos == {"row", "select", "write", "await"}
SafeDos == SwitchDos \cup {"create", "set", "native", "awaittargets", "writebefore", "keep", "commit", "clear"}
\* ... and what takes the place of a step that is undone.
RecoveryDos ==
  {"modify", "create", "remap", "prefer", "set", "delete", "awaitbefore", "native", "awaittargets", "writebefore", "settle"}
Changing == {"undo", "modify", "create", "remap", "prefer", "set", "delete", "native"}

\* What is left to do agrees with itself, ...
Shape(o) ==
  /\ Has(o.todo, {"journal"}) => Has(o.todo, {"row"})
  /\ Has(o.todo, {"fail", "failed"}) => ~Has(o.todo, SwitchDos \cup {"journal", "keep", "commit", "clear", "decide"})
  /\ Has(o.todo, {"decide"}) => ~Has(o.todo, SwitchDos \cup {"journal", "keep", "commit", "clear"})
  /\ Has(o.todo, {"undo"}) => ~Has(o.todo, RecoveryDos \cup {"aim", "forget"})
  /\ o.call = "switch" => o.want \in Inputs /\ ~Has(o.todo, {"decide", "aim", "forget"})
  /\ o.call = "restore" => ~Has(o.todo, SwitchDos \cup {"journal"})

\* ... with how far the operation is ...
Stage(o) ==
  /\ o.safe => Only(o.todo, SafeDos)
  /\ ~o.safe /\ Has(o.todo, SwitchDos \cup {"keep", "clear"}) => Has(o.todo, {"journal"})
  /\ o.fallback => ~o.safe /\ o.call = "restore" /\ \E at \in Selections : o.instead = Finishing(at)
  /\ o.safe /\ o.call = "switch" /\ ~Has(o.todo, {"row", "create"}) => o.row # None
  /\ ~Has(o.todo, {"undo", "create"}) /\ Has(o.todo, {"remap"}) => o.row # None

\* ... and with the checkpoint.
Record(o) ==
  /\ o.cp = None => ~o.safe /\ ~o.fallback /\ o.call = "restore" /\ Only(o.todo, {"commit", "fail", "failed"})
  /\ o.safe /\ o.todo # <<>> => o.cp.pending # None
  /\ Has(o.todo, Changing \cup {"rejournal"}) => o.cp.pending # None
  /\ Has(o.todo, {"modify", "remap"}) => o.cp.pending.previous # None
  /\ o.call = "restore" /\ Has(o.todo, {"keep"}) => o.cp.managed # None

\* What a row is made of.
Made(o, s) ==
  LET p == o.cp.pending IN
  /\ s.do = "create" => IF o.safe THEN o.call = "switch" /\ s.input = o.want
                        ELSE p.previous # None /\ s.input = p.previous.input
  /\ s.do = "modify" => s.id = p.previous.id /\ s.input = p.previous.input

Planned(o) ==
  Sorted(o.todo) /\ Shape(o) /\ Stage(o) /\ Record(o) /\ \A s \in Steps(o.todo) : Made(o, s)

-----------------------------------------------------------------------------
(* The invariant, of an account a, local preferences f, a checkpoint sv, the *)
(* selection n of before the first switch, and an operation o.               *)

Running(o) == o.call # "none"

RowsOf(a) == DOMAIN a.rows
SelectableIn(a) == RowsOf(a) \cup {Official}

\* ima has one row of each configuration.
Distinct(a) == \A i \in RowsOf(a), j \in RowsOf(a) : a.rows[i] = a.rows[j] => i = j

Typed(a, f, sv, n, o) ==
  /\ a \in Accounts /\ f \in [Scenes -> Ids \cup {Official, None}]
  /\ sv \in Checkpoints \cup {None} /\ n \in Selections \cup {None}
  /\ o \in Ops \cup {Idle}
  /\ Distinct(a)

(* Whose rows are whose *)

Owned(a, r) == r # None /\ r.own => r.id \in a.ours
RecordsOwned(a, cp) ==
  /\ Owned(a, cp.managed)
  /\ cp.pending # None => Owned(a, cp.pending.previous) /\ Owned(a, cp.pending.created)

\* What was not there when the journal p was written, and is not ours.
Foreign(a, p) == RowsOf(a) \ (p.ids \cup a.ours)

JournalOK(a, p) ==
  /\ \A i \in p.ids : i < a.next
  /\ p.previous # None => p.previous.id \in p.ids
  /\ p.created # None => p.created.own /\ p.created.selected /\ p.created.id \notin p.ids
  /\ \A i \in Foreign(a, p) : a.rows[i] # p.add /\ (p.previous # None => a.rows[i] # p.previous.input)

SamePending(p, q) == p.before = q.before /\ p.previous = q.previous /\ p.ids = q.ids /\ p.add = q.add

OpOwned(a, sv, o) ==
  /\ Planned(o)
  /\ Owned(a, o.row)
  /\ o.cp # None =>
       /\ sv # None /\ RecordsOwned(a, o.cp)
       /\ o.cp.pending = None <=> sv.pending = None
       /\ o.cp.pending # None =>
            /\ SamePending(o.cp.pending, sv.pending) /\ JournalOK(a, o.cp.pending)
            /\ o.safe => Foreign(a, o.cp.pending) = {}
  /\ \A s \in Steps(o.todo) : s.do = "delete" => s.id \in a.ours

OwnOK(a, sv, o) ==
  /\ \A i \in RowsOf(a) : i < a.next
  /\ sv # None => RecordsOwned(a, sv) /\ (sv.pending # None => JournalOK(a, sv.pending))
  /\ Running(o) => OpOwned(a, sv, o)

\* The account an operation began with.
Started(o) == o.start.account

-----------------------------------------------------------------------------
(* Steps in sequences *)

LEMMA HeadTail ==
  ASSUME NEW t \in Seq(StepSet), t # <<>>
  PROVE  /\ Head(t) \in StepSet /\ Tail(t) \in Seq(StepSet)
         /\ Steps(t) = {Head(t)} \cup Steps(Tail(t))
         /\ Dos(t) = {Head(t).do} \cup Dos(Tail(t))
<1>1. /\ Len(t) \in Nat /\ Len(t) >= 1 /\ Head(t) = t[1] /\ Tail(t) \in Seq(StepSet)
      /\ Len(Tail(t)) = Len(t) - 1 /\ \A j \in 1 .. Len(t) - 1 : Tail(t)[j] = t[j + 1]
  OBVIOUS
<1>2. \A j \in 1 .. Len(t) : t[j] \in {Head(t)} \cup Steps(Tail(t))
  <2> TAKE j \in 1 .. Len(t)
  <2>1. CASE j = 1
    BY <2>1, <1>1
  <2>2. CASE j # 1
    <3>1. j - 1 \in 1 .. Len(Tail(t)) /\ Tail(t)[j - 1] = t[j]
      BY <2>2, <1>1
    <3> QED BY <3>1 DEF Steps
  <2> QED BY <2>1, <2>2
<1>3. \A j \in 1 .. Len(Tail(t)) : Tail(t)[j] \in Steps(t)
  <2> TAKE j \in 1 .. Len(Tail(t))
  <2>1. j + 1 \in 1 .. Len(t) /\ Tail(t)[j] = t[j + 1]
    BY <1>1
  <2> QED BY <2>1 DEF Steps
<1>4. Head(t) \in Steps(t)
  <2>1. 1 \in 1 .. Len(t) /\ Head(t) = t[1]
    BY <1>1
  <2> QED BY <2>1 DEF Steps
<1>5. Steps(t) = {Head(t)} \cup Steps(Tail(t))
  BY <1>2, <1>3, <1>4 DEF Steps
<1>6. Head(t) \in StepSet
  BY <1>1
<1> QED BY <1>1, <1>5, <1>6 DEF Dos

LEMMA Joined ==
  ASSUME NEW s \in Seq(StepSet), NEW t \in Seq(StepSet)
  PROVE  /\ s \o t \in Seq(StepSet)
         /\ Steps(s \o t) = Steps(s) \cup Steps(t)
         /\ Dos(s \o t) = Dos(s) \cup Dos(t)
<1>1. /\ s \o t \in Seq(StepSet) /\ Len(s) \in Nat /\ Len(t) \in Nat /\ Len(s \o t) = Len(s) + Len(t)
      /\ \A j \in 1 .. Len(s) : (s \o t)[j] = s[j]
      /\ \A j \in 1 .. Len(t) : (s \o t)[j + Len(s)] = t[j]
  OBVIOUS
<1>2. \A j \in 1 .. Len(s \o t) : (s \o t)[j] \in Steps(s) \cup Steps(t)
  <2> TAKE j \in 1 .. Len(s \o t)
  <2>1. CASE j \in 1 .. Len(s)
    BY <2>1, <1>1 DEF Steps
  <2>2. CASE j \notin 1 .. Len(s)
    <3>1. j - Len(s) \in 1 .. Len(t) /\ (s \o t)[j] = t[j - Len(s)]
      BY <2>2, <1>1
    <3> QED BY <3>1 DEF Steps
  <2> QED BY <2>1, <2>2
<1>3. \A j \in 1 .. Len(s) : s[j] \in Steps(s \o t)
  <2> TAKE j \in 1 .. Len(s)
  <2>1. j \in 1 .. Len(s \o t) /\ (s \o t)[j] = s[j]
    BY <1>1
  <2> QED BY <2>1 DEF Steps
<1>4. \A j \in 1 .. Len(t) : t[j] \in Steps(s \o t)
  <2> TAKE j \in 1 .. Len(t)
  <2>1. j + Len(s) \in 1 .. Len(s \o t) /\ (s \o t)[j + Len(s)] = t[j]
    BY <1>1
  <2> QED BY <2>1 DEF Steps
<1>5. Steps(s \o t) = Steps(s) \cup Steps(t)
  BY <1>2, <1>3, <1>4 DEF Steps
<1> QED BY <1>1, <1>5 DEF Dos

LEMMA SortedTail ==
  ASSUME NEW t \in Seq(StepSet), t # <<>>, Sorted(t)
  PROVE  Sorted(Tail(t)) /\ \A d \in Dos(Tail(t)) : Precedes(Head(t).do, d)
<1>1. /\ Len(t) \in Nat /\ Len(t) >= 1 /\ Head(t) = t[1] /\ Tail(t) \in Seq(StepSet)
      /\ Len(Tail(t)) = Len(t) - 1 /\ \A j \in 1 .. Len(t) - 1 : Tail(t)[j] = t[j + 1]
  OBVIOUS
<1>2. \A j \in 1 .. Len(Tail(t)) : j + 1 \in 1 .. Len(t) /\ 1 \in 1 .. Len(t) /\ 1 < j + 1 /\ Tail(t)[j] = t[j + 1]
  BY <1>1
<1>3. \A j \in 1 .. Len(Tail(t)) : Precedes(Head(t).do, Tail(t)[j].do)
  BY <1>1, <1>2 DEF Sorted
<1>4. \A j \in 1 .. Len(Tail(t)), i \in 1 .. Len(Tail(t)) : i < j => i + 1 < j + 1
  BY <1>1
<1>5. Sorted(Tail(t))
  BY <1>2, <1>4 DEF Sorted
<1> QED BY <1>3, <1>5 DEF Dos, Steps

LEMMA SortedJoined ==
  ASSUME NEW s \in Seq(StepSet), NEW t \in Seq(StepSet), Sorted(s), Sorted(t),
         \A a \in Dos(s), b \in Dos(t) : Precedes(a, b)
  PROVE  Sorted(s \o t)
<1> DEFINE r == s \o t
<1>1. /\ Len(s) \in Nat /\ Len(t) \in Nat /\ Len(r) = Len(s) + Len(t)
      /\ \A j \in 1 .. Len(s) : r[j] = s[j]
      /\ \A j \in 1 .. Len(t) : r[j + Len(s)] = t[j]
  OBVIOUS
<1> SUFFICES ASSUME NEW j \in 1 .. Len(r), NEW i \in 1 .. Len(r), i < j
             PROVE  Precedes(r[i].do, r[j].do)
  BY DEF Sorted
<1> HIDE DEF r
<1>2. CASE j \in 1 .. Len(s)
  <2>1. i \in 1 .. Len(s)
    BY <1>1, <1>2
  <2> QED BY <1>1, <1>2, <2>1 DEF Sorted
<1>3. CASE j \notin 1 .. Len(s) /\ i \notin 1 .. Len(s)
  <2>1. /\ j - Len(s) \in 1 .. Len(t) /\ i - Len(s) \in 1 .. Len(t) /\ i - Len(s) < j - Len(s)
        /\ r[j] = t[j - Len(s)] /\ r[i] = t[i - Len(s)]
    BY <1>1, <1>3
  <2> QED BY <2>1 DEF Sorted
<1>4. CASE j \notin 1 .. Len(s) /\ i \in 1 .. Len(s)
  <2>1. j - Len(s) \in 1 .. Len(t) /\ r[j] = t[j - Len(s)] /\ r[i] = s[i]
    BY <1>1, <1>4
  <2>2. r[i].do \in Dos(s) /\ r[j].do \in Dos(t)
    BY <1>4, <2>1 DEF Dos, Steps
  <2> QED BY <2>2
<1> QED BY <1>2, <1>3, <1>4

LEMMA NoSteps ==
  /\ <<>> \in Seq(StepSet) /\ Steps(<<>>) = {} /\ Dos(<<>>) = {} /\ Sorted(<<>>)
BY DEF Steps, Dos, Sorted

LEMMA OneStep ==
  ASSUME NEW a \in StepSet
  PROVE  <<a>> \in Seq(StepSet) /\ Steps(<<a>>) = {a} /\ Dos(<<a>>) = {a.do} /\ Sorted(<<a>>)
<1>1. <<a>> \in Seq(StepSet) /\ Len(<<a>>) = 1 /\ <<a>>[1] = a
  OBVIOUS
<1>2. Steps(<<a>>) = {a}
  BY <1>1 DEF Steps
<1>3. Sorted(<<a>>)
  BY <1>1 DEF Sorted
<1> QED BY <1>1, <1>2, <1>3 DEF Dos

\* a before s.
LEMMA FirstStep ==
  ASSUME NEW a \in StepSet, NEW s \in Seq(StepSet), Sorted(s), \A d \in Dos(s) : Precedes(a.do, d)
  PROVE  /\ <<a>> \o s \in Seq(StepSet) /\ Steps(<<a>> \o s) = {a} \cup Steps(s)
         /\ Dos(<<a>> \o s) = {a.do} \cup Dos(s) /\ Sorted(<<a>> \o s)
<1>1. \A c \in Dos(<<a>>), d \in Dos(s) : Precedes(c, d)
  BY OneStep
<1>2. <<a>> \in Seq(StepSet) /\ Sorted(<<a>>) /\ Steps(<<a>>) = {a} /\ Dos(<<a>>) = {a.do}
  BY OneStep
<1>3. Sorted(<<a>> \o s)
  BY <1>1, <1>2, SortedJoined
<1>4. <<a>> \o s \in Seq(StepSet) /\ Steps(<<a>> \o s) = Steps(<<a>>) \cup Steps(s)
      /\ Dos(<<a>> \o s) = Dos(<<a>>) \cup Dos(s)
  BY <1>2, Joined
<1> QED BY <1>2, <1>3, <1>4

LEMMA PlainStep ==
  ASSUME NEW d \in PlainDos
  PROVE  Do(d) \in StepSet /\ Do(d).do = d
BY DEF Do, StepSet

LEMMA StepIs ==
  ASSUME NEW s \in StepSet
  PROVE  /\ s.do = "create" => s.input \in Inputs
         /\ s.do = "modify" => s.id \in Ids /\ s.input \in Inputs
         /\ s.do = "set" => s.scene \in Scenes /\ s.id \in Ids \cup {Official}
         /\ s.do = "delete" => s.id \in Ids
         /\ s.do = "awaittargets" => s.to \in Targets
         /\ s.do = "aim" => s.at \in Selections
         /\ s.do \in PlainDos \cup {"create", "modify", "set", "delete", "awaittargets", "aim"}
BY DEF StepSet, PlainDos
-----------------------------------------------------------------------------
(* The plans *)

\* A plan of steps without arguments.
Plain(t, dos) == t \in Seq(StepSet) /\ Sorted(t) /\ Dos(t) = dos /\ Steps(t) = {Do(d) : d \in dos}

\* The steps of t are those that f names, in their order.
Lists(t, n, f, dos) ==
  /\ n \in Nat /\ f \in [1 .. n -> PlainDos] /\ t \in Seq(StepSet) /\ Len(t) = n
  /\ \A j \in 1 .. n : t[j] = Do(f[j])
  /\ \A j \in 1 .. n, i \in 1 .. n : i < j => Precedes(f[i], f[j])
  /\ \A j \in 1 .. n : f[j] \in dos
  /\ \A d \in dos : \E j \in 1 .. n : f[j] = d

LEMMA PlainPlan ==
  ASSUME NEW t, NEW n, NEW f, NEW dos, Lists(t, n, f, dos)
  PROVE  Plain(t, dos)
<1> USE DEF Lists
<1>1. \A j \in 1 .. n : t[j].do = f[j]
  BY PlainStep
<1>2. Sorted(t)
  BY <1>1 DEF Sorted
<1>3. Steps(t) = {Do(d) : d \in dos}
  BY DEF Steps
<1>4. dos \subseteq PlainDos
  OBVIOUS
<1>5. Dos(t) = dos
  BY <1>3, <1>4, PlainStep DEF Dos
<1> QED BY <1>2, <1>3, <1>5 DEF Plain

RestPlan == <<Do("prefer"), Do("awaitbefore"), Do("writebefore"), Do("settle")>>
NativePlan == <<Do("native"), Do("writebefore"), Do("settle")>>
ForwardPlan == <<Do("journal"), Do("row"), Do("select"), Do("write"), Do("await"), Do("keep"), Do("commit"), Do("clear")>>
ReturnPlan == <<Do("native"), Do("writebefore"), Do("keep"), Do("commit"), Do("clear")>>
RollbackPlan == <<Do("rejournal")>> \o Recovery \o <<Do("fail")>>
FinishPlan == <<Do("native"), Do("writebefore"), Do("forget"), Do("decide")>>

LEMMA RestPlanIs == Plain(RestPlan, {"prefer", "awaitbefore", "writebefore", "settle"})
<1> DEFINE f == <<"prefer", "awaitbefore", "writebefore", "settle">>
<1>1. f \in [1 .. 4 -> PlainDos]
  BY DEF PlainDos
<1>2. RestPlan \in Seq(StepSet) /\ Len(RestPlan) = 4
  BY PlainStep DEF RestPlan, PlainDos
<1>3. \A j \in 1 .. 4 : RestPlan[j] = Do(f[j])
  BY DEF RestPlan
<1>4. \A j \in 1 .. 4, i \in 1 .. 4 : i < j => Precedes(f[i], f[j])
  BY DEF Precedes, Rank
<1>5. f[1] = "prefer" /\ f[2] = "awaitbefore" /\ f[3] = "writebefore" /\ f[4] = "settle"
  OBVIOUS
<1> HIDE DEF f
<1>6. /\ \A j \in 1 .. 4 : f[j] \in {"prefer", "awaitbefore", "writebefore", "settle"}
      /\ \A d \in {"prefer", "awaitbefore", "writebefore", "settle"} : \E j \in 1 .. 4 : f[j] = d
  BY <1>5
<1> DEFINE n == 4 S == {"prefer", "awaitbefore", "writebefore", "settle"}
<1>7. Lists(RestPlan, n, f, S)
  BY <1>1, <1>2, <1>3, <1>4, <1>6 DEF Lists
<1> HIDE DEF n, S
<1>8. Plain(RestPlan, S)
  BY <1>7, PlainPlan, Zenon
<1> QED BY <1>8 DEF S

LEMMA NativePlanIs == Plain(NativePlan, {"native", "writebefore", "settle"})
<1> DEFINE f == <<"native", "writebefore", "settle">>
<1>1. f \in [1 .. 3 -> PlainDos]
  BY DEF PlainDos
<1>2. NativePlan \in Seq(StepSet) /\ Len(NativePlan) = 3
  BY PlainStep DEF NativePlan, PlainDos
<1>3. \A j \in 1 .. 3 : NativePlan[j] = Do(f[j])
  BY DEF NativePlan
<1>4. \A j \in 1 .. 3, i \in 1 .. 3 : i < j => Precedes(f[i], f[j])
  BY DEF Precedes, Rank
<1>5. f[1] = "native" /\ f[2] = "writebefore" /\ f[3] = "settle"
  OBVIOUS
<1> HIDE DEF f
<1>6. /\ \A j \in 1 .. 3 : f[j] \in {"native", "writebefore", "settle"}
      /\ \A d \in {"native", "writebefore", "settle"} : \E j \in 1 .. 3 : f[j] = d
  BY <1>5
<1> DEFINE n == 3 S == {"native", "writebefore", "settle"}
<1>7. Lists(NativePlan, n, f, S)
  BY <1>1, <1>2, <1>3, <1>4, <1>6 DEF Lists
<1> HIDE DEF n, S
<1>8. Plain(NativePlan, S)
  BY <1>7, PlainPlan, Zenon
<1> QED BY <1>8 DEF S

LEMMA ForwardPlanIs == Plain(ForwardPlan, {"journal", "row", "select", "write", "await", "keep", "commit", "clear"})
<1> DEFINE f == <<"journal", "row", "select", "write", "await", "keep", "commit", "clear">>
<1>1. f \in [1 .. 8 -> PlainDos]
  BY DEF PlainDos
<1>2. ForwardPlan \in Seq(StepSet) /\ Len(ForwardPlan) = 8
  BY PlainStep DEF ForwardPlan, PlainDos
<1>3. \A j \in 1 .. 8 : ForwardPlan[j] = Do(f[j])
  BY DEF ForwardPlan
<1>4. \A j \in 1 .. 8, i \in 1 .. 8 : i < j => Precedes(f[i], f[j])
  BY DEF Precedes, Rank
<1>5. f[1] = "journal" /\ f[2] = "row" /\ f[3] = "select" /\ f[4] = "write" /\ f[5] = "await" /\ f[6] = "keep" /\ f[7] = "commit" /\ f[8] = "clear"
  OBVIOUS
<1> HIDE DEF f
<1>6. /\ \A j \in 1 .. 8 : f[j] \in {"journal", "row", "select", "write", "await", "keep", "commit", "clear"}
      /\ \A d \in {"journal", "row", "select", "write", "await", "keep", "commit", "clear"} : \E j \in 1 .. 8 : f[j] = d
  BY <1>5
<1> DEFINE n == 8 S == {"journal", "row", "select", "write", "await", "keep", "commit", "clear"}
<1>7. Lists(ForwardPlan, n, f, S)
  BY <1>1, <1>2, <1>3, <1>4, <1>6 DEF Lists
<1> HIDE DEF n, S
<1>8. Plain(ForwardPlan, S)
  BY <1>7, PlainPlan, Zenon
<1> QED BY <1>8 DEF S

LEMMA ReturnPlanIs == Plain(ReturnPlan, {"native", "writebefore", "keep", "commit", "clear"})
<1> DEFINE f == <<"native", "writebefore", "keep", "commit", "clear">>
<1>1. f \in [1 .. 5 -> PlainDos]
  BY DEF PlainDos
<1>2. ReturnPlan \in Seq(StepSet) /\ Len(ReturnPlan) = 5
  BY PlainStep DEF ReturnPlan, PlainDos
<1>3. \A j \in 1 .. 5 : ReturnPlan[j] = Do(f[j])
  BY DEF ReturnPlan
<1>4. \A j \in 1 .. 5, i \in 1 .. 5 : i < j => Precedes(f[i], f[j])
  BY DEF Precedes, Rank
<1>5. f[1] = "native" /\ f[2] = "writebefore" /\ f[3] = "keep" /\ f[4] = "commit" /\ f[5] = "clear"
  OBVIOUS
<1> HIDE DEF f
<1>6. /\ \A j \in 1 .. 5 : f[j] \in {"native", "writebefore", "keep", "commit", "clear"}
      /\ \A d \in {"native", "writebefore", "keep", "commit", "clear"} : \E j \in 1 .. 5 : f[j] = d
  BY <1>5
<1> DEFINE n == 5 S == {"native", "writebefore", "keep", "commit", "clear"}
<1>7. Lists(ReturnPlan, n, f, S)
  BY <1>1, <1>2, <1>3, <1>4, <1>6 DEF Lists
<1> HIDE DEF n, S
<1>8. Plain(ReturnPlan, S)
  BY <1>7, PlainPlan, Zenon
<1> QED BY <1>8 DEF S

LEMMA RollbackPlanIs == Plain(RollbackPlan, {"rejournal", "undo", "fail"})
<1> DEFINE a == Do("rejournal") b == Do("undo") c == Do("fail")
<1>1. a \in StepSet /\ a.do = "rejournal" /\ b \in StepSet /\ b.do = "undo" /\ c \in StepSet /\ c.do = "fail"
  BY PlainStep DEF PlainDos
<1>2. RollbackPlan = (<<a>> \o <<b>>) \o <<c>>
  BY DEF RollbackPlan, Recovery
<1>3. Precedes("rejournal", "undo") /\ Precedes("rejournal", "fail") /\ Precedes("undo", "fail")
  BY DEF Precedes, Rank
<1> HIDE DEF a, b, c
<1>4. /\ <<b>> \in Seq(StepSet) /\ Steps(<<b>>) = {b} /\ Dos(<<b>>) = {"undo"} /\ Sorted(<<b>>)
      /\ <<c>> \in Seq(StepSet) /\ Steps(<<c>>) = {c} /\ Dos(<<c>>) = {"fail"} /\ Sorted(<<c>>)
  BY <1>1, OneStep
<1> DEFINE s == <<a>> \o <<b>>
<1>5. s \in Seq(StepSet) /\ Steps(s) = {a, b} /\ Dos(s) = {"rejournal", "undo"} /\ Sorted(s)
  <2>1. \A d \in Dos(<<b>>) : Precedes(a.do, d)
    BY <1>1, <1>3, <1>4
  <2> QED BY <1>1, <1>4, <2>1, FirstStep
<1> HIDE DEF s
<1>6. \A x \in Dos(s), y \in Dos(<<c>>) : Precedes(x, y)
  BY <1>3, <1>4, <1>5
<1>7. /\ s \o <<c>> \in Seq(StepSet) /\ Steps(s \o <<c>>) = {a, b, c} /\ Dos(s \o <<c>>) = {"rejournal", "undo", "fail"}
      /\ Sorted(s \o <<c>>)
  <2>1. Sorted(s \o <<c>>)
    BY <1>4, <1>5, <1>6, SortedJoined
  <2> QED BY <1>4, <1>5, <2>1, Joined
<1>8. {Do(d) : d \in {"rejournal", "undo", "fail"}} = {a, b, c}
  BY DEF a, b, c
<1> QED BY <1>2, <1>7, <1>8 DEF Plain, s

LEMMA FinishPlanIs == Plain(FinishPlan, {"native", "writebefore", "forget", "decide"})
<1> DEFINE f == <<"native", "writebefore", "forget", "decide">>
<1>1. f \in [1 .. 4 -> PlainDos]
  BY DEF PlainDos
<1>2. FinishPlan \in Seq(StepSet) /\ Len(FinishPlan) = 4
  BY PlainStep DEF FinishPlan, PlainDos
<1>3. \A j \in 1 .. 4 : FinishPlan[j] = Do(f[j])
  BY DEF FinishPlan
<1>4. \A j \in 1 .. 4, i \in 1 .. 4 : i < j => Precedes(f[i], f[j])
  BY DEF Precedes, Rank
<1>5. f[1] = "native" /\ f[2] = "writebefore" /\ f[3] = "forget" /\ f[4] = "decide"
  OBVIOUS
<1> HIDE DEF f
<1>6. /\ \A j \in 1 .. 4 : f[j] \in {"native", "writebefore", "forget", "decide"}
      /\ \A d \in {"native", "writebefore", "forget", "decide"} : \E j \in 1 .. 4 : f[j] = d
  BY <1>5
<1> DEFINE n == 4 S == {"native", "writebefore", "forget", "decide"}
<1>7. Lists(FinishPlan, n, f, S)
  BY <1>1, <1>2, <1>3, <1>4, <1>6 DEF Lists
<1> HIDE DEF n, S
<1>8. Plain(FinishPlan, S)
  BY <1>7, PlainPlan, Zenon
<1> QED BY <1>8 DEF S

-----------------------------------------------------------------------------
(* Changes of the account *)

IsSet(a, b, s, id) ==
  /\ b \in Accounts /\ b.rows = a.rows /\ b.next = a.next /\ b.ours = a.ours
  /\ b.pref = [a.pref EXCEPT ![s] = id]
IsAdded(a, b, input, ours) ==
  /\ b \in Accounts /\ RowsOf(b) = RowsOf(a) \cup {a.next}
  /\ \A i \in RowsOf(b) : b.rows[i] = IF i = a.next THEN input ELSE a.rows[i]
  /\ b.next = a.next + 1 /\ b.pref = a.pref /\ b.ours = a.ours \cup ours
IsModified(a, b, id, input, ours) ==
  /\ b \in Accounts /\ id \in RowsOf(a) /\ RowsOf(b) = RowsOf(a)
  /\ \A i \in RowsOf(a) : b.rows[i] = IF i = id THEN input ELSE a.rows[i]
  /\ b.next = a.next /\ b.pref = a.pref /\ b.ours = a.ours \cup ours
IsDeleted(a, b, id) ==
  /\ b \in Accounts /\ RowsOf(b) = RowsOf(a) \ {id}
  /\ \A i \in RowsOf(b) : b.rows[i] = a.rows[i]
  /\ b.next = a.next /\ b.ours = a.ours
  /\ \A s \in Scenes : b.pref[s] = a.pref[s] \/ (a.pref[s] = id /\ b.pref[s] = Empty)

LEMMA AccountIs ==
  ASSUME NEW a \in Accounts
  PROVE  /\ RowsOf(a) \subseteq Ids /\ a.rows \in [RowsOf(a) -> Inputs]
         /\ a.pref \in [Scenes -> Preferences] /\ a.next \in Nat /\ a.ours \subseteq Ids
<1>1. PICK S \in SUBSET Ids : a.rows \in [S -> Inputs]
  BY DEF Accounts
<1>2. DOMAIN a.rows = S
  BY <1>1
<1> QED BY <1>1, <1>2 DEF Accounts, RowsOf

LEMMA SetIs ==
  ASSUME NEW a \in Accounts, NEW s \in Scenes, NEW id \in Preferences
  PROVE  IsSet(a, [a EXCEPT !.pref[s] = id], s, id)
<1> DEFINE p == [a.pref EXCEPT ![s] = id]
           b == [a EXCEPT !.pref = p]
<1>1. p \in [Scenes -> Preferences]
  BY AccountIs
<1>2. b.rows = a.rows /\ b.next = a.next /\ b.ours = a.ours /\ b.pref = p
  BY DEF Accounts
<1>3. b \in Accounts
  BY <1>1 DEF Accounts
<1> QED BY <1>2, <1>3 DEF IsSet

LEMMA AddedIs ==
  ASSUME NEW a \in Accounts, NEW input \in Inputs, NEW ours \in SUBSET Ids, a.next \in Ids
  PROVE  IsAdded(a, [a EXCEPT !.next = @ + 1, !.rows = [i \in DOMAIN @ \cup {a.next} |->
                                                          IF i = a.next THEN input ELSE @[i]],
                              !.ours = @ \cup ours], input, ours)
<1> DEFINE S == RowsOf(a) \cup {a.next}
           r == [i \in DOMAIN a.rows \cup {a.next} |-> IF i = a.next THEN input ELSE a.rows[i]]
           b == [a EXCEPT !.next = a.next + 1, !.rows = r, !.ours = a.ours \cup ours]
<1>1. /\ S \in SUBSET Ids /\ r \in [S -> Inputs]
      /\ \A i \in S : r[i] = IF i = a.next THEN input ELSE a.rows[i]
  BY AccountIs DEF RowsOf
<1>2. a.next + 1 \in Nat /\ a.ours \cup ours \in SUBSET Ids
  BY AccountIs
<1>3. DOMAIN r = S
  BY <1>1
<1>4. b \in Accounts
  <2> HIDE DEF r
  <2> QED BY <1>1, <1>2 DEF Accounts
<1>5. b.rows = r /\ b.pref = a.pref /\ b.next = a.next + 1 /\ b.ours = a.ours \cup ours
  <2> HIDE DEF r
  <2> QED BY DEF Accounts
<1>6. IsAdded(a, b, input, ours)
  <2> HIDE DEF r, b
  <2> QED BY <1>1, <1>3, <1>4, <1>5 DEF IsAdded, RowsOf
<1> QED BY <1>6

LEMMA ModifiedIs ==
  ASSUME NEW a \in Accounts, NEW id \in RowsOf(a), NEW input \in Inputs, NEW ours \in SUBSET Ids
  PROVE  IsModified(a, [a EXCEPT !.rows[id] = input, !.ours = @ \cup ours], id, input, ours)
<1> DEFINE r == [a.rows EXCEPT ![id] = input]
           b == [a EXCEPT !.rows = r, !.ours = a.ours \cup ours]
<1>1. /\ r \in [RowsOf(a) -> Inputs] /\ RowsOf(a) \in SUBSET Ids /\ DOMAIN r = RowsOf(a)
      /\ \A i \in RowsOf(a) : r[i] = IF i = id THEN input ELSE a.rows[i]
  BY AccountIs
<1>2. a.ours \cup ours \in SUBSET Ids
  BY AccountIs
<1>4. b \in Accounts
  <2> HIDE DEF r
  <2> QED BY <1>1, <1>2 DEF Accounts
<1>5. b.rows = r /\ b.pref = a.pref /\ b.next = a.next /\ b.ours = a.ours \cup ours
  <2> HIDE DEF r
  <2> QED BY DEF Accounts
<1>6. IsModified(a, b, id, input, ours)
  <2> HIDE DEF r, b
  <2> QED BY <1>1, <1>4, <1>5 DEF IsModified, RowsOf
<1>7. b = [a EXCEPT !.rows[id] = input, !.ours = @ \cup ours]
  BY DEF Accounts
<1> QED BY <1>6, <1>7

LEMMA DeletedIs ==
  ASSUME NEW a \in Accounts, NEW id, NEW pref \in [Scenes -> Preferences],
         \A s \in Scenes : pref[s] = a.pref[s] \/ (a.pref[s] = id /\ pref[s] = Empty)
  PROVE  IsDeleted(a, [a EXCEPT !.rows = [i \in DOMAIN @ \ {id} |-> @[i]], !.pref = pref], id)
<1> DEFINE S == RowsOf(a) \ {id}
           r == [i \in DOMAIN a.rows \ {id} |-> a.rows[i]]
           b == [a EXCEPT !.rows = r, !.pref = pref]
<1>1. S \in SUBSET Ids /\ r \in [S -> Inputs] /\ \A i \in S : r[i] = a.rows[i]
  BY AccountIs DEF RowsOf
<1>3. DOMAIN r = S
  BY <1>1
<1>4. b \in Accounts
  <2> HIDE DEF r
  <2> QED BY <1>1 DEF Accounts
<1>5. b.rows = r /\ b.pref = pref /\ b.next = a.next /\ b.ours = a.ours
  <2> HIDE DEF r
  <2> QED BY DEF Accounts
<1>6. IsDeleted(a, b, id)
  <2> HIDE DEF r, b
  <2> QED BY <1>1, <1>3, <1>4, <1>5 DEF IsDeleted, RowsOf
<1> QED BY <1>6

-----------------------------------------------------------------------------
(* Operations *)

LEMMA OpIs ==
  ASSUME NEW o \in Ops
  PROVE  /\ o.call \in {"switch", "restore"} /\ o.want \in Inputs \cup {None} /\ o.cp \in Checkpoints \cup {None}
         /\ o.before \in Selections /\ o.row \in Records /\ o.safe \in BOOLEAN /\ o.fallback \in BOOLEAN
         /\ o.instead \in Seq(StepSet) /\ o.todo \in Seq(StepSet)
         /\ Started(o) \in Accounts /\ o.start.saved \in Checkpoints \cup {None} /\ o.bound \in Inputs \cup {None}
BY DEF Ops, Started

LEMMA CheckpointIs ==
  ASSUME NEW cp \in Checkpoints
  PROVE  /\ cp # None /\ cp.base \in Selections /\ cp.managed \in Records /\ cp.pending \in Pendings \cup {None}
         /\ cp.pending # None => /\ cp.pending.before \in Selections /\ cp.pending.previous \in Records
                                 /\ cp.pending.ids \subseteq Ids /\ cp.pending.add \in Inputs \cup {None}
                                 /\ cp.pending.created \in Records
BY ImaAssumption DEF Checkpoints, Pendings

LEMMA RecordIs ==
  ASSUME NEW r \in Records, r # None
  PROVE  r.id \in Ids /\ r.input \in Inputs /\ r.own \in BOOLEAN /\ r.selected \in BOOLEAN
BY DEF Records, ManagedRows

LEMMA NotIdle ==
  ASSUME NEW o \in Ops \cup {Idle}, Running(o)
  PROVE  o \in Ops
BY DEF Running, Idle

LEMMA IsRunning ==
  ASSUME NEW o \in Ops
  PROVE  Running(o)
BY DEF Running, Ops
-----------------------------------------------------------------------------
(* Steps of an operation *)

LEMMA Ranks ==
  /\ Rank["rejournal"] = 0 /\ Rank["undo"] = 1 /\ Rank["modify"] = 2 /\ Rank["create"] = 2 /\ Rank["remap"] = 3
  /\ Rank["aim"] = 3 /\ Rank["prefer"] = 4 /\ Rank["set"] = 5 /\ Rank["delete"] = 6 /\ Rank["awaitbefore"] = 7
  /\ Rank["native"] = 8 /\ Rank["awaittargets"] = 9 /\ Rank["writebefore"] = 10 /\ Rank["settle"] = 11
  /\ Rank["forget"] = 11 /\ Rank["journal"] = 12 /\ Rank["decide"] = 12 /\ Rank["row"] = 13 /\ Rank["select"] = 14
  /\ Rank["write"] = 15 /\ Rank["await"] = 16 /\ Rank["keep"] = 17 /\ Rank["commit"] = 18 /\ Rank["clear"] = 19
  /\ Rank["fail"] = 20 /\ Rank["failed"] = 21
BY DEF Rank

\* The operation o is at the step h, ...
AtStep(o, h) == o \in Ops /\ Planned(o) /\ o.todo # <<>> /\ Head(o.todo).do = h
\* ... and q is the same operation later.
Same(o, q) ==
  q \in Ops /\ q.call = o.call /\ q.want = o.want /\ q.start = o.start /\ q.instead = o.instead

AllDos == PlainDos \cup {"create", "modify", "set", "delete", "awaittargets", "aim"}

\* What is known of the steps after the first one, h.
Rest(o, h, D, T) ==
  /\ D = Dos(Tail(o.todo)) /\ T = Steps(Tail(o.todo)) /\ D = {s.do : s \in T} /\ T \subseteq StepSet /\ D \subseteq AllDos
  /\ Dos(o.todo) = {h} \cup D /\ Steps(o.todo) = {Head(o.todo)} \cup T /\ Head(o.todo) \in StepSet
  /\ Sorted(Tail(o.todo)) /\ Tail(o.todo) \in Seq(StepSet) /\ (D = {} => Tail(o.todo) = <<>>)
  /\ \A d \in D : Rank[h] < Rank[d] \/ (d = h /\ h \in {"set", "awaittargets"})

LEMMA RestIs ==
  ASSUME NEW o, NEW h, AtStep(o, h)
  PROVE  Rest(o, h, Dos(Tail(o.todo)), Steps(Tail(o.todo)))
<1>1. o.todo \in Seq(StepSet) /\ Sorted(o.todo)
  BY OpIs DEF AtStep, Planned
<1>2. Steps(Tail(o.todo)) \subseteq Steps(o.todo)
  BY <1>1, HeadTail DEF AtStep
<1>3. Steps(o.todo) \subseteq StepSet
  BY <1>1 DEF Steps
<1>4. Dos(Tail(o.todo)) \subseteq AllDos
  BY <1>2, <1>3, StepIs DEF Dos, AllDos
<1>5. \A d \in Dos(Tail(o.todo)) : Precedes(h, d)
  BY <1>1, SortedTail DEF AtStep
<1>6. \A d \in Dos(Tail(o.todo)) : Rank[h] < Rank[d] \/ (d = h /\ h \in {"set", "awaittargets"})
  BY <1>5 DEF Precedes
<1>7. Dos(Tail(o.todo)) = {} => Tail(o.todo) = <<>>
  <2>1. Tail(o.todo) \in Seq(StepSet)
    BY <1>1, HeadTail DEF AtStep
  <2>2. Tail(o.todo) # <<>> => Len(Tail(o.todo)) >= 1 /\ 1 \in 1 .. Len(Tail(o.todo))
    BY <2>1
  <2>3. Tail(o.todo) # <<>> => Tail(o.todo)[1].do \in Dos(Tail(o.todo))
    BY <2>2 DEF Dos, Steps
  <2> QED BY <2>3
<1> QED BY <1>1, <1>2, <1>3, <1>4, <1>6, <1>7, HeadTail, SortedTail DEF AtStep, Rest, Dos

\* The steps s come in the place of the first one.
Replaced(o, q, s, E, X) ==
  /\ q.todo = s \o Tail(o.todo) /\ s \in Seq(StepSet) /\ Sorted(s) /\ E = Dos(s) /\ X = Steps(s)
  /\ \A e \in E, d \in Dos(Tail(o.todo)) : Precedes(e, d)

Remains(q, D, T) == Sorted(q.todo) /\ Dos(q.todo) = D /\ Steps(q.todo) = T /\ (D = {} => q.todo = <<>>)

LEMMA ReplacedIs ==
  ASSUME NEW o, NEW q, NEW h, NEW s, NEW E, NEW X, AtStep(o, h), Replaced(o, q, s, E, X)
  PROVE  Remains(q, E \cup Dos(Tail(o.todo)), X \cup Steps(Tail(o.todo)))
<1> DEFINE t == Tail(o.todo)
<1>1. t \in Seq(StepSet) /\ Sorted(t) /\ (Dos(t) = {} => t = <<>>)
  BY RestIs DEF Rest
<1> HIDE DEF t
<1>2. s \o t \in Seq(StepSet) /\ Steps(s \o t) = Steps(s) \cup Steps(t) /\ Dos(s \o t) = Dos(s) \cup Dos(t)
  BY <1>1, Joined DEF Replaced
<1>3. Sorted(s \o t)
  BY <1>1, SortedJoined DEF Replaced, t
<1>4. Dos(s) = {} => s = <<>>
  <2>1. s # <<>> => Len(s) >= 1 /\ 1 \in 1 .. Len(s)
    BY DEF Replaced
  <2> QED BY <2>1 DEF Dos, Steps
<1>5. s = <<>> /\ t = <<>> => s \o t = <<>>
  BY <1>1
<1> QED BY <1>1, <1>2, <1>3, <1>4, <1>5 DEF Replaced, Remains, t

LEMMA PoppedIs ==
  ASSUME NEW o, NEW q, NEW h, AtStep(o, h), q.todo = <<>> \o Tail(o.todo)
  PROVE  Remains(q, Dos(Tail(o.todo)), Steps(Tail(o.todo)))
<1>1. Replaced(o, q, <<>>, {}, {})
  BY NoSteps DEF Replaced
<1> QED BY <1>1, ReplacedIs

\* What does not come after a step h any more.
LEMMA Later ==
  ASSUME NEW o, NEW h, AtStep(o, h), NEW d \in Dos(Tail(o.todo))
  PROVE  /\ d \in AllDos
         /\ h = "rejournal" => d \notin {"rejournal"}
         /\ h = "undo" => d \notin {"rejournal", "undo"}
         /\ h = "modify" => d \notin {"rejournal", "undo", "modify", "create"}
         /\ h = "create" => d \notin {"rejournal", "undo", "modify", "create"}
         /\ h = "remap" => d \notin {"rejournal", "undo", "modify", "create", "remap", "aim"}
         /\ h = "aim" => d \notin {"rejournal", "undo", "modify", "create", "remap", "aim"}
         /\ h = "prefer" => d \notin {"rejournal", "undo", "modify", "create", "remap", "aim", "prefer"}
         /\ h = "set" => d \notin {"rejournal", "undo", "modify", "create", "remap", "aim", "prefer"}
         /\ h = "delete" => d \notin {"rejournal", "undo", "modify", "create", "remap", "aim", "prefer", "set",
                                "delete"}
         /\ h = "awaitbefore" => d \notin {"rejournal", "undo", "modify", "create", "remap", "aim", "prefer", "set",
                                     "delete", "awaitbefore"}
         /\ h = "native" => d \notin {"rejournal", "undo", "modify", "create", "remap", "aim", "prefer", "set",
                                "delete", "awaitbefore", "native"}
         /\ h = "awaittargets" => d \notin {"rejournal", "undo", "modify", "create", "remap", "aim", "prefer", "set",
                                      "delete", "awaitbefore", "native"}
         /\ h = "writebefore" => d \notin {"rejournal", "undo", "modify", "create", "remap", "aim", "prefer", "set",
                                     "delete", "awaitbefore", "native", "awaittargets", "writebefore"}
         /\ h = "settle" => d \notin {"rejournal", "undo", "modify", "create", "remap", "aim", "prefer", "set",
                                "delete", "awaitbefore", "native", "awaittargets", "writebefore", "settle",
                                "forget"}
         /\ h = "forget" => d \notin {"rejournal", "undo", "modify", "create", "remap", "aim", "prefer", "set",
                                "delete", "awaitbefore", "native", "awaittargets", "writebefore", "settle",
                                "forget"}
         /\ h = "journal" => d \notin {"rejournal", "undo", "modify", "create", "remap", "aim", "prefer", "set",
                                 "delete", "awaitbefore", "native", "awaittargets", "writebefore", "settle",
                                 "forget", "journal", "decide"}
         /\ h = "decide" => d \notin {"rejournal", "undo", "modify", "create", "remap", "aim", "prefer", "set",
                                "delete", "awaitbefore", "native", "awaittargets", "writebefore", "settle",
                                "forget", "journal", "decide"}
         /\ h = "row" => d \notin {"rejournal", "undo", "modify", "create", "remap", "aim", "prefer", "set",
                             "delete", "awaitbefore", "native", "awaittargets", "writebefore", "settle",
                             "forget", "journal", "decide", "row"}
         /\ h = "select" => d \notin {"rejournal", "undo", "modify", "create", "remap", "aim", "prefer", "set",
                                "delete", "awaitbefore", "native", "awaittargets", "writebefore", "settle",
                                "forget", "journal", "decide", "row", "select"}
         /\ h = "write" => d \notin {"rejournal", "undo", "modify", "create", "remap", "aim", "prefer", "set",
                               "delete", "awaitbefore", "native", "awaittargets", "writebefore", "settle",
                               "forget", "journal", "decide", "row", "select", "write"}
         /\ h = "await" => d \notin {"rejournal", "undo", "modify", "create", "remap", "aim", "prefer", "set",
                               "delete", "awaitbefore", "native", "awaittargets", "writebefore", "settle",
                               "forget", "journal", "decide", "row", "select", "write", "await"}
         /\ h = "keep" => d \notin {"rejournal", "undo", "modify", "create", "remap", "aim", "prefer", "set",
                              "delete", "awaitbefore", "native", "awaittargets", "writebefore", "settle",
                              "forget", "journal", "decide", "row", "select", "write", "await", "keep"}
         /\ h = "commit" => d \notin {"rejournal", "undo", "modify", "create", "remap", "aim", "prefer", "set",
                                "delete", "awaitbefore", "native", "awaittargets", "writebefore", "settle",
                                "forget", "journal", "decide", "row", "select", "write", "await", "keep",
                                "commit"}
         /\ h = "clear" => d \notin {"rejournal", "undo", "modify", "create", "remap", "aim", "prefer", "set",
                               "delete", "awaitbefore", "native", "awaittargets", "writebefore", "settle",
                               "forget", "journal", "decide", "row", "select", "write", "await", "keep",
                               "commit", "clear"}
<1>1. d \in AllDos /\ (Rank[h] < Rank[d] \/ (d = h /\ h \in {"set", "awaittargets"}))
  BY RestIs DEF Rest
<1>2. h = "rejournal" => d \notin {"rejournal"}
  BY <1>1, Ranks
<1>3. h = "undo" => d \notin {"rejournal", "undo"}
  BY <1>1, Ranks
<1>4. h = "modify" => d \notin {"rejournal", "undo", "modify", "create"}
  BY <1>1, Ranks
<1>5. h = "create" => d \notin {"rejournal", "undo", "modify", "create"}
  BY <1>1, Ranks
<1>6. h = "remap" => d \notin {"rejournal", "undo", "modify", "create", "remap", "aim"}
  BY <1>1, Ranks
<1>7. h = "aim" => d \notin {"rejournal", "undo", "modify", "create", "remap", "aim"}
  BY <1>1, Ranks
<1>8. h = "prefer" => d \notin {"rejournal", "undo", "modify", "create", "remap", "aim", "prefer"}
  BY <1>1, Ranks
<1>9. h = "set" => d \notin {"rejournal", "undo", "modify", "create", "remap", "aim", "prefer"}
  BY <1>1, Ranks
<1>10. h = "delete" => d \notin {"rejournal", "undo", "modify", "create", "remap", "aim", "prefer", "set", "delete"}
  BY <1>1, Ranks
<1>11. h = "awaitbefore" => d \notin {"rejournal", "undo", "modify", "create", "remap", "aim", "prefer", "set",
                             "delete", "awaitbefore"}
  BY <1>1, Ranks
<1>12. h = "native" => d \notin {"rejournal", "undo", "modify", "create", "remap", "aim", "prefer", "set", "delete",
                        "awaitbefore", "native"}
  BY <1>1, Ranks
<1>13. h = "awaittargets" => d \notin {"rejournal", "undo", "modify", "create", "remap", "aim", "prefer", "set",
                              "delete", "awaitbefore", "native"}
  BY <1>1, Ranks
<1>14. h = "writebefore" => d \notin {"rejournal", "undo", "modify", "create", "remap", "aim", "prefer", "set",
                             "delete", "awaitbefore", "native", "awaittargets", "writebefore"}
  BY <1>1, Ranks
<1>15. h = "settle" => d \notin {"rejournal", "undo", "modify", "create", "remap", "aim", "prefer", "set", "delete",
                        "awaitbefore", "native", "awaittargets", "writebefore", "settle", "forget"}
  BY <1>1, Ranks
<1>16. h = "forget" => d \notin {"rejournal", "undo", "modify", "create", "remap", "aim", "prefer", "set", "delete",
                        "awaitbefore", "native", "awaittargets", "writebefore", "settle", "forget"}
  BY <1>1, Ranks
<1>17. h = "journal" => d \notin {"rejournal", "undo", "modify", "create", "remap", "aim", "prefer", "set", "delete",
                         "awaitbefore", "native", "awaittargets", "writebefore", "settle", "forget", "journal",
                         "decide"}
  BY <1>1, Ranks
<1>18. h = "decide" => d \notin {"rejournal", "undo", "modify", "create", "remap", "aim", "prefer", "set", "delete",
                        "awaitbefore", "native", "awaittargets", "writebefore", "settle", "forget", "journal",
                        "decide"}
  BY <1>1, Ranks
<1>19. h = "row" => d \notin {"rejournal", "undo", "modify", "create", "remap", "aim", "prefer", "set", "delete",
                     "awaitbefore", "native", "awaittargets", "writebefore", "settle", "forget", "journal",
                     "decide", "row"}
  BY <1>1, Ranks
<1>20. h = "select" => d \notin {"rejournal", "undo", "modify", "create", "remap", "aim", "prefer", "set", "delete",
                        "awaitbefore", "native", "awaittargets", "writebefore", "settle", "forget", "journal",
                        "decide", "row", "select"}
  BY <1>1, Ranks
<1>21. h = "write" => d \notin {"rejournal", "undo", "modify", "create", "remap", "aim", "prefer", "set", "delete",
                       "awaitbefore", "native", "awaittargets", "writebefore", "settle", "forget", "journal",
                       "decide", "row", "select", "write"}
  BY <1>1, Ranks
<1>22. h = "await" => d \notin {"rejournal", "undo", "modify", "create", "remap", "aim", "prefer", "set", "delete",
                       "awaitbefore", "native", "awaittargets", "writebefore", "settle", "forget", "journal",
                       "decide", "row", "select", "write", "await"}
  BY <1>1, Ranks
<1>23. h = "keep" => d \notin {"rejournal", "undo", "modify", "create", "remap", "aim", "prefer", "set", "delete",
                      "awaitbefore", "native", "awaittargets", "writebefore", "settle", "forget", "journal",
                      "decide", "row", "select", "write", "await", "keep"}
  BY <1>1, Ranks
<1>24. h = "commit" => d \notin {"rejournal", "undo", "modify", "create", "remap", "aim", "prefer", "set", "delete",
                        "awaitbefore", "native", "awaittargets", "writebefore", "settle", "forget", "journal",
                        "decide", "row", "select", "write", "await", "keep", "commit"}
  BY <1>1, Ranks
<1>25. h = "clear" => d \notin {"rejournal", "undo", "modify", "create", "remap", "aim", "prefer", "set", "delete",
                       "awaitbefore", "native", "awaittargets", "writebefore", "settle", "forget", "journal",
                       "decide", "row", "select", "write", "await", "keep", "commit", "clear"}
  BY <1>1, Ranks
<1> QED BY <1>1, <1>2, <1>3, <1>4, <1>5, <1>6, <1>7, <1>8, <1>9, <1>10, <1>11, <1>12, <1>13, <1>14, <1>15, <1>16, <1>17, <1>18, <1>19, <1>20, <1>21, <1>22, <1>23, <1>24, <1>25

-----------------------------------------------------------------------------
(* The plan goes on *)

\* The operation keeps what it knows, but for what is named in the lemmas.
SameFlags(o, q) == q.safe = o.safe /\ (q.fallback => o.fallback)
SamePlans(o, q) ==
  /\ q.cp = None <=> o.cp = None
  /\ o.cp # None => /\ q.cp.pending = None <=> o.cp.pending = None
                    /\ o.cp.pending # None => q.cp.pending.previous = o.cp.pending.previous

\* A step is done.
LEMMA PopsPlanned ==
  ASSUME NEW o, NEW q, NEW h, AtStep(o, h), Same(o, q), q.todo = <<>> \o Tail(o.todo),
         SameFlags(o, q), SamePlans(o, q), h # "journal",
         q.row # None \/ (q.row = o.row /\ h \notin {"row", "create", "undo"}),
         o.cp # None => h = "keep" \/ q.cp.managed = o.cp.managed
  PROVE  Planned(q)
<1> DEFINE D == Dos(Tail(o.todo)) T == Steps(Tail(o.todo))
<1>1. Rest(o, h, D, T) /\ Remains(q, D, T)
  BY RestIs, PoppedIs
<1>2. \A d \in D : d \in AllDos
  BY Later
<1>3. /\ \A d \in D : h = "row" => d # "journal"
      /\ \A d \in D : h = "keep" => d # "keep"
  BY Later
<1> HIDE DEF D, T
<1>4. /\ Dos(o.todo) = {h} \cup D /\ Dos(q.todo) = D /\ Steps(q.todo) = T /\ T \subseteq Steps(o.todo)
      /\ (\A s \in T : s.do \in D) /\ Sorted(q.todo) /\ (D = {} => Tail(o.todo) = <<>>)
  BY <1>1 DEF Rest, Remains
<1>5. Shape(o) /\ Stage(o) /\ Record(o) /\ \A s \in Steps(o.todo) : Made(o, s)
  BY DEF AtStep, Planned
<1>6. Shape(q)
  BY <1>3, <1>2, <1>4, <1>5 DEF Shape, SwitchDos, RecoveryDos, Has, Only, Same
<1>7. Stage(q)
  BY <1>3, <1>2, <1>4, <1>5 DEF Stage, Shape, SwitchDos, SafeDos, AllDos, PlainDos, Has, Only, Same, SameFlags
<1>8. Record(q)
  BY <1>3, <1>2, <1>4, <1>5 DEF Record, Stage, Shape, SwitchDos, SafeDos, Changing, Has, Only, Same, SameFlags, SamePlans
<1>9. \A s \in Steps(q.todo) : Made(q, s)
  BY <1>3, <1>2, <1>4, <1>5 DEF Made, Record, Changing, Has, Same, SameFlags, SamePlans
<1> QED BY <1>4, <1>6, <1>7, <1>8, <1>9 DEF Planned

\* The journal is written.
LEMMA JournalPops ==
  ASSUME NEW o, NEW q, AtStep(o, "journal"), Same(o, q), q.todo = <<>> \o Tail(o.todo),
         q.cp # None, q.cp.pending # None, q.safe, q.row = o.row, q.fallback = o.fallback
  PROVE  Planned(q)
<1> DEFINE D == Dos(Tail(o.todo)) T == Steps(Tail(o.todo))
<1>1. Rest(o, "journal", D, T) /\ Remains(q, D, T)
  BY RestIs, PoppedIs
<1>2. \A d \in D : d \in AllDos
  BY Later
<1>3. \A d \in D : d \notin {"rejournal", "undo", "modify", "create", "remap", "aim", "prefer", "set", "delete",
                               "awaitbefore", "native", "awaittargets", "writebefore", "settle", "forget", "journal", "decide"}
  BY Later
<1> HIDE DEF D, T
<1>4. /\ Dos(o.todo) = {"journal"} \cup D /\ Dos(q.todo) = D /\ Steps(q.todo) = T /\ T \subseteq Steps(o.todo)
      /\ (\A s \in T : s.do \in D) /\ Sorted(q.todo) /\ (D = {} => Tail(o.todo) = <<>>)
  BY <1>1 DEF Rest, Remains
<1>5. Shape(o) /\ Stage(o) /\ Record(o) /\ \A s \in Steps(o.todo) : Made(o, s)
  BY DEF AtStep, Planned
<1>6. Shape(q)
  BY <1>3, <1>2, <1>4, <1>5 DEF Shape, SwitchDos, RecoveryDos, Has, Only, Same
<1>7. Stage(q)
  BY <1>3, <1>2, <1>4, <1>5 DEF Stage, Shape, SwitchDos, SafeDos, AllDos, PlainDos, Has, Only, Same
<1>8. Record(q)
  BY <1>3, <1>2, <1>4, <1>5 DEF Record, Stage, Shape, SwitchDos, SafeDos, Changing, Has, Only, Same
<1>9. \A s \in Steps(q.todo) : Made(q, s)
  BY <1>3, <1>2, <1>4, <1>5 DEF Made, Record, Changing, Has, Same
<1> QED BY <1>4, <1>6, <1>7, <1>8, <1>9 DEF Planned

\* Nothing is pending any more.
LEMMA Clears ==
  ASSUME NEW o, NEW q, NEW h, AtStep(o, h), Same(o, q), q.todo = <<>> \o Tail(o.todo),
         SameFlags(o, q), h \in {"clear", "settle", "forget"}, q.cp # None, q.cp.pending = None, q.row = o.row
  PROVE  Planned(q)
<1> DEFINE D == Dos(Tail(o.todo)) T == Steps(Tail(o.todo))
<1>1. Rest(o, h, D, T) /\ Remains(q, D, T)
  BY RestIs, PoppedIs
<1>2. \A d \in D : d \in AllDos
  BY Later
<1>3. \A d \in D : d \notin {"rejournal", "undo", "modify", "create", "remap", "aim", "prefer", "set", "delete",
                               "awaitbefore", "native", "awaittargets", "writebefore", "settle", "forget"}
  BY Later
<1>4. h = "clear" => \A d \in D : d \in {"fail", "failed"}
  BY Later DEF AllDos, PlainDos
<1> HIDE DEF D, T
<1>5. /\ Dos(o.todo) = {h} \cup D /\ Dos(q.todo) = D /\ Steps(q.todo) = T /\ T \subseteq Steps(o.todo)
      /\ (\A s \in T : s.do \in D) /\ Sorted(q.todo) /\ (D = {} => Tail(o.todo) = <<>>)
  BY <1>1 DEF Rest, Remains
<1>6. Shape(o) /\ Stage(o) /\ Record(o) /\ \A s \in Steps(o.todo) : Made(o, s)
  BY DEF AtStep, Planned
<1>7. Shape(q)
  BY <1>3, <1>4, <1>2, <1>5, <1>6 DEF Shape, SwitchDos, RecoveryDos, Has, Only, Same
<1>8. Stage(q)
  BY <1>3, <1>4, <1>2, <1>5, <1>6 DEF Stage, Shape, SwitchDos, SafeDos, AllDos, PlainDos, Has, Only, Same, SameFlags
<1>9. Record(q)
  BY <1>3, <1>4, <1>2, <1>5, <1>6 DEF Record, Stage, Shape, SwitchDos, SafeDos, Changing, Has, Only, Same, SameFlags, AllDos
<1>10. \A s \in Steps(q.todo) : Made(q, s)
  BY <1>3, <1>4, <1>2, <1>5, <1>6 DEF Made, Record, Changing, Has, Same, SameFlags
<1> QED BY <1>5, <1>7, <1>8, <1>9, <1>10 DEF Planned

\* Preferences are to be set.
LEMMA Chooses ==
  ASSUME NEW o, NEW q, NEW h, NEW s, NEW E, NEW X, AtStep(o, h), Same(o, q), Replaced(o, q, s, E, X),
         SameFlags(o, q), q.cp = o.cp, q.row = o.row, h \in {"select", "prefer", "native"}, E \subseteq {"set", "awaittargets"}
  PROVE  Planned(q)
<1> DEFINE D == Dos(Tail(o.todo)) T == Steps(Tail(o.todo))
<1>1. Rest(o, h, D, T) /\ Remains(q, E \cup D, X \cup T)
  BY RestIs, ReplacedIs
<1>2. \A d \in D : d \in AllDos
  BY Later
<1>3. (h = "select" => \A d \in D : d # "journal") /\ (\A d \in D : d # "undo") /\ \A x \in X : x.do \in E
  <2>1. h = "select" => \A d \in D : d # "journal" /\ d # "undo"
    BY Later
  <2>2. h = "prefer" => \A d \in D : d # "undo"
    BY Later
  <2>3. h = "native" => \A d \in D : d # "undo"
    BY Later
  <2> QED BY <2>1, <2>2, <2>3 DEF Replaced, Dos
<1> HIDE DEF D, T
<1>4. /\ Dos(o.todo) = {h} \cup D /\ Dos(q.todo) = E \cup D /\ Steps(q.todo) = X \cup T /\ T \subseteq Steps(o.todo)
      /\ (\A x \in T : x.do \in D) /\ Sorted(q.todo) /\ (D = {} => Tail(o.todo) = <<>>)
  BY <1>1 DEF Rest, Remains
<1>5. Shape(o) /\ Stage(o) /\ Record(o) /\ \A x \in Steps(o.todo) : Made(o, x)
  BY DEF AtStep, Planned
<1>6. o.todo # <<>> /\ (h = "select" => o.safe) /\ o.cp # None /\ o.cp.pending # None
  <2>1. o.todo # <<>>
    BY DEF AtStep
  <2>2. h = "select" => o.safe
    <3> SUFFICES ASSUME h = "select", ~o.safe PROVE FALSE
      BY OpIs DEF AtStep
    <3>1. "select" \in Dos(o.todo) /\ "journal" \notin Dos(o.todo)
      BY <1>4, <1>3
    <3> QED BY <3>1, <1>5 DEF Stage, SwitchDos, Has
  <2>3. o.cp # None
    BY <1>4, <1>5 DEF Record, Only
  <2>4. h # "select" => o.cp.pending # None
    BY <1>4, <1>5 DEF Record, Changing, Has
  <2> QED BY <1>5, <2>1, <2>2, <2>3, <2>4 DEF Record
<1>7. Shape(q)
  BY <1>3, <1>6, <1>2, <1>4, <1>5 DEF Shape, SwitchDos, RecoveryDos, Has, Only, Same
<1>8. Stage(q)
  BY <1>3, <1>6, <1>2, <1>4, <1>5 DEF Stage, Shape, SwitchDos, SafeDos, AllDos, PlainDos, Has, Only, Same, SameFlags
<1>9. Record(q)
  BY <1>3, <1>6, <1>2, <1>4, <1>5 DEF Record, Stage, Shape, SwitchDos, SafeDos, Changing, Has, Only, Same, SameFlags
<1>10. \A x \in Steps(q.todo) : Made(q, x)
  BY <1>3, <1>6, <1>2, <1>4, <1>5 DEF Made, Record, Changing, Has, Same, SameFlags
<1> QED BY <1>4, <1>7, <1>8, <1>9, <1>10 DEF Planned

\* A row is to be made or found.
LEMMA Creates ==
  ASSUME NEW o, NEW q, NEW E, NEW X, AtStep(o, "row"), Same(o, q),
         Replaced(o, q, <<[do |-> "create", input |-> o.want]>>, E, X), E = {"create"},
         X = {[do |-> "create", input |-> o.want]}, SameFlags(o, q), q.cp = o.cp, q.row = o.row
  PROVE  Planned(q)
<1> DEFINE D == Dos(Tail(o.todo)) T == Steps(Tail(o.todo))
<1>1. Rest(o, "row", D, T) /\ Remains(q, E \cup D, X \cup T)
  BY RestIs, ReplacedIs
<1>2. \A d \in D : d \in AllDos
  BY Later
<1>3. \A d \in D : d \notin {"undo", "journal", "remap", "modify", "create"}
  BY Later
<1> HIDE DEF D, T
<1>4. /\ Dos(o.todo) = {"row"} \cup D /\ Dos(q.todo) = E \cup D /\ Steps(q.todo) = X \cup T /\ T \subseteq Steps(o.todo)
      /\ (\A s \in T : s.do \in D) /\ Sorted(q.todo)
  BY <1>1 DEF Rest, Remains
<1>5. Shape(o) /\ Stage(o) /\ Record(o) /\ \A s \in Steps(o.todo) : Made(o, s)
  BY DEF AtStep, Planned
<1>6. o.safe /\ o.call = "switch" /\ o.todo # <<>>
  <2>1. "row" \in Dos(o.todo) /\ "journal" \notin Dos(o.todo)
    BY <1>3, <1>4
  <2>2. o.call \in {"switch", "restore"} /\ o.safe \in BOOLEAN
    BY OpIs DEF AtStep
  <2> QED BY <2>1, <2>2, <1>5 DEF Stage, Shape, SwitchDos, Has, AtStep
<1>7. o.cp # None /\ o.cp.pending # None
  BY <1>5, <1>6 DEF Record
<1>8. Shape(q)
  BY <1>2, <1>3, <1>4, <1>5, <1>6 DEF Shape, SwitchDos, RecoveryDos, Has, Only, Same
<1>9. Stage(q)
  BY <1>2, <1>3, <1>4, <1>5, <1>6 DEF Stage, SwitchDos, SafeDos, Has, Only, Same, SameFlags
<1>10. Record(q)
  BY <1>2, <1>3, <1>4, <1>5, <1>6, <1>7 DEF Record, Changing, Has, Only, Same, SameFlags
<1>11. \A s \in Steps(q.todo) : Made(q, s)
  BY <1>3, <1>4, <1>6 DEF Made, Same, SameFlags
<1> QED BY <1>4, <1>8, <1>9, <1>10, <1>11 DEF Planned

\* recover_pending is about to undo what the record says, by the steps s.
LEMMA Undoes ==
  ASSUME NEW o, NEW q, NEW s, NEW E, NEW X, AtStep(o, "undo"), Same(o, q), Replaced(o, q, s, E, X),
         SameFlags(o, q), q.cp = o.cp, E \subseteq RecoveryDos, \A x \in X : Made(q, x),
         Has(s, {"modify", "remap"}) => o.cp.pending.previous # None,
         Has(s, {"remap"}) /\ ~Has(s, {"create"}) => q.row # None
  PROVE  Planned(q)
<1> DEFINE D == Dos(Tail(o.todo)) T == Steps(Tail(o.todo))
<1>1. Rest(o, "undo", D, T) /\ Remains(q, E \cup D, X \cup T)
  BY RestIs, ReplacedIs
<1>2. \A d \in D : d \in AllDos
  BY Later
<1>3. \A d \in D : d # "undo"
  BY Later
<1> HIDE DEF D, T
<1>4. /\ Dos(o.todo) = {"undo"} \cup D /\ Dos(q.todo) = E \cup D /\ Steps(q.todo) = X \cup T /\ T \subseteq Steps(o.todo)
      /\ (\A x \in T : x.do \in D) /\ Sorted(q.todo) /\ E = Dos(s)
  BY <1>1 DEF Rest, Remains, Replaced
<1>5. Shape(o) /\ Stage(o) /\ Record(o) /\ \A x \in Steps(o.todo) : Made(o, x)
  BY DEF AtStep, Planned
<1>6. "undo" \in Dos(o.todo)
  BY <1>4
<1>7. ~o.safe /\ o.cp # None /\ o.cp.pending # None
  BY <1>5, <1>6 DEF Stage, Record, SafeDos, SwitchDos, Changing, Only, Has
<1>8. \A d \in D : d \notin RecoveryDos \cup {"aim", "forget"}
  BY <1>4, <1>5, <1>6 DEF Shape, Has
<1>9. Shape(q)
  BY <1>3, <1>4, <1>5 DEF Shape, SwitchDos, RecoveryDos, Has, Only, Same
<1>10. Stage(q)
  BY <1>3, <1>4, <1>5, <1>7, <1>8 DEF Stage, SwitchDos, RecoveryDos, Has, Only, Same, SameFlags
<1>11. Record(q)
  BY <1>3, <1>4, <1>5, <1>7, <1>8 DEF Record, RecoveryDos, Changing, Has, Only, Same, SameFlags
<1>12. \A x \in Steps(q.todo) : Made(q, x)
  <2>1. \A x \in T : x.do \notin {"create", "modify"}
    BY <1>4, <1>8 DEF RecoveryDos
  <2> QED BY <2>1, <1>4 DEF Made
<1> QED BY <1>4, <1>9, <1>10, <1>11, <1>12 DEF Planned

\* Nothing follows the decision of a restore.
LEMMA DecidesLast ==
  ASSUME NEW o, AtStep(o, "decide")
  PROVE  Dos(Tail(o.todo)) = {} /\ Tail(o.todo) = <<>> /\ Steps(Tail(o.todo)) = {} /\ ~o.safe /\ o.call = "restore"
         /\ o.cp # None
<1> DEFINE D == Dos(Tail(o.todo)) T == Steps(Tail(o.todo))
<1>1. Rest(o, "decide", D, T)
  BY RestIs
<1>2. \A d \in D : d \in AllDos
  BY Later
<1>3. \A d \in D : d \notin {"rejournal", "undo", "modify", "create", "remap", "aim", "prefer", "set", "delete",
                      "awaitbefore", "native", "awaittargets", "writebefore", "settle", "forget", "journal", "decide"}
  BY Later
<1> HIDE DEF D, T
<1>4. Dos(o.todo) = {"decide"} \cup D /\ (D = {} => Tail(o.todo) = <<>>) /\ \A s \in T : s.do \in D
  BY <1>1 DEF Rest
<1>5. Shape(o) /\ Stage(o) /\ Record(o)
  BY DEF AtStep, Planned
<1>6. "decide" \in Dos(o.todo)
  BY <1>4
<1>7. \A d \in D : d \notin SwitchDos \cup {"journal", "keep", "commit", "clear", "fail", "failed"}
  BY <1>4, <1>5, <1>6 DEF Shape, Has
<1>8. D = {}
  BY <1>2, <1>3, <1>7 DEF AllDos, PlainDos, SwitchDos
<1>9. ~o.safe /\ o.cp # None
  BY <1>5, <1>6 DEF Stage, Record, SafeDos, SwitchDos, Only
<1>10. o.call = "restore"
  <2>1. o.call \in {"switch", "restore"}
    BY OpIs DEF AtStep
  <2> QED BY <2>1, <1>5, <1>6 DEF Shape, Has
<1> QED BY <1>4, <1>8, <1>9, <1>10 DEF D, T

\* A plan of its own takes the place of all that was to be done.
LEMMA Replans ==
  ASSUME NEW q, NEW S, q \in Ops, Plain(q.todo, S), Shape(q), Stage(q), Record(q), {"create", "modify"} \cap S = {}
  PROVE  Planned(q)
<1>1. \A s \in Steps(q.todo) : s.do \in S
  BY DEF Plain, Dos
<1>2. \A s \in Steps(q.todo) : Made(q, s)
  BY <1>1 DEF Made
<1> QED BY <1>2 DEF Planned, Plain

LEMMA DecidesToReturn ==
  ASSUME NEW o, NEW q, AtStep(o, "decide"), Same(o, q), q.todo = ReturnPlan, q.safe, ~q.fallback, q.cp # None, q.cp.pending # None,
         q.cp.managed # None
  PROVE  Planned(q)
<1> DEFINE S == {"native", "writebefore", "keep", "commit", "clear"}
<1>1. Plain(q.todo, S)
  BY ReturnPlanIs
<1>2. Dos(q.todo) = S
  BY <1>1 DEF Plain
<1>3. o.call = "restore"
  BY DecidesLast
<1>4. Shape(q)
  BY <1>2, <1>3 DEF Shape, Same, SwitchDos, RecoveryDos, Has
<1>5. Stage(q)
  BY <1>2, <1>3 DEF Stage, Same, SafeDos, SwitchDos, Has, Only
<1>6. Record(q)
  BY <1>2, <1>3 DEF Record, Same, Has, Only
<1> QED BY <1>1, <1>4, <1>5, <1>6, Replans DEF Same

\* Only the last step is left.
LEMMA Ends ==
  ASSUME NEW o, NEW q, NEW d \in {"commit", "fail", "failed"}, o \in Ops, Planned(o), Same(o, q), q.todo = <<Do(d)>>,
         ~q.safe, ~q.fallback, d = "commit" => o.call = "restore", q.cp = None => o.cp = None
  PROVE  Planned(q)
<1>1. Plain(q.todo, {d})
  <2>1. Do(d) \in StepSet /\ Do(d).do = d
    BY PlainStep DEF PlainDos
  <2> QED BY <2>1, OneStep DEF Plain
<1>2. Dos(q.todo) = {d}
  BY <1>1 DEF Plain
<1>3. Shape(o) /\ Stage(o) /\ Record(o)
  BY DEF Planned
<1>4. Shape(q)
  BY <1>2, <1>3 DEF Shape, Same, SwitchDos, RecoveryDos, Has
<1>5. Stage(q)
  BY <1>2 DEF Stage, SwitchDos, Has
<1>6. Record(q)
  BY <1>2, <1>3 DEF Record, Same, Changing, Has, Only
<1> QED BY <1>1, <1>4, <1>5, <1>6, Replans DEF Same

\* finish_or_rollback, for the operation o after a failed step.
Failing(o, q) ==
  /\ Same(o, q) /\ q.cp = o.cp /\ q.row = o.row /\ q.before = o.before /\ ~q.safe
  /\ \/ o.safe /\ q.todo = RollbackPlan /\ q.fallback = o.fallback
     \/ ~o.safe /\ o.fallback /\ o.cp.pending # None /\ q.todo = o.instead /\ ~q.fallback
     \/ ~o.safe /\ q.todo = <<Do("fail")>> /\ ~q.fallback

\* The steps of an interrupted restore that is finished from its journal.
LEMMA FinishingIs ==
  ASSUME NEW at \in Selections
  PROVE  LET t == Finishing(at) IN
         /\ t \in Seq(StepSet) /\ Sorted(t) /\ Dos(t) = {"aim", "native", "writebefore", "forget", "decide"}
         /\ \A s \in Steps(t) : (s.do = "aim" => s.at = at) /\ s.do \notin {"create", "modify", "delete", "awaittargets"}
<1> DEFINE a == [do |-> "aim", at |-> at]
           S == {"native", "writebefore", "forget", "decide"}
<1>1. a \in StepSet /\ a.do = "aim" /\ a.at = at
  BY DEF StepSet
<1>2. FinishPlan \in Seq(StepSet) /\ Sorted(FinishPlan) /\ Dos(FinishPlan) = S /\ Steps(FinishPlan) = {Do(d) : d \in S}
  BY FinishPlanIs DEF Plain
<1>3. \A d \in Dos(FinishPlan) : Precedes("aim", d)
  BY <1>2, Ranks DEF Precedes
<1>4. Finishing(at) = <<a>> \o FinishPlan
  BY DEF Finishing, FinishPlan
<1>5. /\ <<a>> \o FinishPlan \in Seq(StepSet) /\ Steps(<<a>> \o FinishPlan) = {a} \cup Steps(FinishPlan)
      /\ Dos(<<a>> \o FinishPlan) = {"aim"} \cup Dos(FinishPlan) /\ Sorted(<<a>> \o FinishPlan)
  <2> HIDE DEF a
  <2> QED BY <1>1, <1>2, <1>3, FirstStep
<1>6. \A d \in S : Do(d).do = d /\ d \notin {"aim", "create", "modify", "delete", "awaittargets"}
  BY DEF Do
<1>7. \A s \in Steps(Finishing(at)) : s = a \/ s.do \in S
  BY <1>2, <1>4, <1>5, <1>6
<1>8. \A s \in Steps(Finishing(at)) : (s.do = "aim" => s.at = at) /\ s.do \notin {"create", "modify", "delete", "awaittargets"}
  <2> HIDE DEF a
  <2> QED BY <1>1, <1>7
<1> QED BY <1>2, <1>4, <1>5, <1>8

LEMMA Finishes ==
  ASSUME NEW q, NEW at \in Selections, q \in Ops, q.todo = Finishing(at), q.call = "restore", ~q.safe,
         q.cp # None, q.cp.pending # None, q.fallback => q.instead = Finishing(at)
  PROVE  Planned(q)
<1>1. /\ Dos(q.todo) = {"aim", "native", "writebefore", "forget", "decide"} /\ Sorted(q.todo)
      /\ \A s \in Steps(q.todo) : s.do \notin {"create", "modify"}
  BY FinishingIs
<1>2. Shape(q)
  BY <1>1 DEF Shape, SwitchDos, RecoveryDos, Has
<1>3. Stage(q)
  BY <1>1 DEF Stage, SwitchDos, Has
<1>4. Record(q)
  BY <1>1 DEF Record, Has
<1> QED BY <1>1, <1>2, <1>3, <1>4 DEF Planned, Made

LEMMA FailsPlanned ==
  ASSUME NEW o, NEW q, o \in Ops, Planned(o), o.todo # <<>>, Failing(o, q)
  PROVE  Planned(q)
<1>1. Shape(o) /\ Stage(o) /\ Record(o)
  BY DEF Planned
<1>2. CASE o.safe /\ q.todo = RollbackPlan
  <2> DEFINE S == {"rejournal", "undo", "fail"}
  <2>1. Plain(q.todo, S)
    BY <1>2, RollbackPlanIs
  <2>2. Dos(q.todo) = S
    BY <2>1 DEF Plain
  <2>3. Shape(q)
    BY <2>2, <1>1 DEF Shape, Failing, Same, SwitchDos, RecoveryDos, Has
  <2>4. Stage(q)
    BY <2>2, <1>1, <1>2 DEF Stage, Failing, Same, SwitchDos, Has
  <2>5. Record(q)
    BY <2>2, <1>1, <1>2 DEF Record, Failing, Same, Has
  <2> QED BY <2>1, <2>3, <2>4, <2>5, Replans DEF Failing, Same
<1>3. CASE ~o.safe /\ o.fallback /\ o.cp.pending # None /\ q.todo = o.instead /\ ~q.fallback
  <2>1. PICK at \in Selections : o.instead = Finishing(at)
    BY <1>1, <1>3 DEF Stage
  <2>2. o.call = "restore" /\ o.cp # None
    BY <1>1, <1>3 DEF Stage, Record
  <2> QED BY <1>3, <2>1, <2>2, Finishes DEF Failing, Same
<1>4. CASE ~o.safe /\ q.todo = <<Do("fail")>> /\ ~q.fallback
  BY <1>4, Ends DEF Failing
<1> QED BY <1>2, <1>3, <1>4 DEF Failing

\* The plans of new operations.
LEMMA SwitchPlanned ==
  ASSUME NEW q, NEW s, q \in Ops, q.call = "switch", q.want \in Inputs, q.cp # None, ~q.safe, ~q.fallback,
         q.todo = s \o ForwardPlan, s = <<>> \/ (s = Recovery /\ q.cp.pending # None)
  PROVE  Planned(q)
<1> DEFINE S == {"journal", "row", "select", "write", "await", "keep", "commit", "clear"}
<1>1. ForwardPlan \in Seq(StepSet) /\ Sorted(ForwardPlan) /\ Dos(ForwardPlan) = S /\ Steps(ForwardPlan) = {Do(d) : d \in S}
  BY ForwardPlanIs DEF Plain
<1>2. /\ Sorted(q.todo) /\ Dos(q.todo) = Dos(s) \cup S /\ (s # <<>> => Dos(s) = {"undo"}) /\ (s = <<>> => Dos(s) = {})
      /\ \A x \in Steps(q.todo) : x.do \in {"undo"} \cup S
  <2> DEFINE u == Do("undo")
  <2>1. u \in StepSet /\ u.do = "undo"
    BY PlainStep DEF PlainDos
  <2>2. \A d \in Dos(ForwardPlan) : Precedes(u.do, d)
    BY <1>1, <2>1, Ranks DEF Precedes
  <2>3. CASE s = <<>>
    <3>1. q.todo = ForwardPlan
      BY <1>1, <2>3
    <3> QED BY <1>1, <2>3, <3>1, NoSteps DEF Dos
  <2>4. CASE s = Recovery
    <3>1. s = <<u>> /\ s # <<>>
      BY <2>4 DEF Recovery
    <3> HIDE DEF u
    <3>2. Dos(s) = {"undo"}
      BY <2>1, <3>1, OneStep
    <3>3. Dos(q.todo) = {"undo"} \cup S /\ Sorted(q.todo)
      BY <1>1, <2>1, <2>2, <3>1, FirstStep
    <3> QED BY <3>1, <3>2, <3>3 DEF Dos
  <2> QED BY <2>3, <2>4
<1>3. Shape(q)
  BY <1>2 DEF Shape, SwitchDos, RecoveryDos, Has
<1>4. Stage(q)
  BY <1>2 DEF Stage, SwitchDos, Has
<1>5. Record(q)
  BY <1>2 DEF Record, Changing, Has
<1>6. \A x \in Steps(q.todo) : Made(q, x)
  BY <1>2 DEF Made
<1> QED BY <1>2, <1>3, <1>4, <1>5, <1>6 DEF Planned

LEMMA RestorePlanned ==
  ASSUME NEW q, NEW s, q \in Ops, q.call = "restore", q.cp # None, ~q.safe,
         q.fallback => \E at \in Selections : q.instead = Finishing(at),
         q.todo = s \o <<Do("decide")>>, s = <<>> \/ (s = Recovery /\ q.cp.pending # None)
  PROVE  Planned(q)
<1> DEFINE c == Do("decide") u == Do("undo")
<1>1. c \in StepSet /\ c.do = "decide" /\ u \in StepSet /\ u.do = "undo"
  BY PlainStep DEF PlainDos
<1>2. /\ Sorted(q.todo) /\ Dos(q.todo) = Dos(s) \cup {"decide"} /\ (s # <<>> => Dos(s) = {"undo"}) /\ (s = <<>> => Dos(s) = {})
      /\ \A x \in Steps(q.todo) : x.do \in {"undo", "decide"}
  <2> HIDE DEF c, u
  <2>1. <<c>> \in Seq(StepSet) /\ Sorted(<<c>>) /\ Dos(<<c>>) = {"decide"}
    BY <1>1, OneStep
  <2>2. q.todo = s \o <<c>>
    BY DEF c
  <2>3. CASE s = <<>>
    <3>1. q.todo = <<c>>
      BY <2>1, <2>2, <2>3
    <3> QED BY <2>1, <2>3, <3>1, NoSteps DEF Dos
  <2>4. CASE s = Recovery
    <3>1. s = <<u>> /\ s # <<>>
      BY <2>4 DEF Recovery, u
    <3>2. Dos(s) = {"undo"}
      BY <1>1, <3>1, OneStep
    <3>3. \A d \in Dos(<<c>>) : Precedes(u.do, d)
      BY <1>1, <2>1, Ranks DEF Precedes
    <3>4. Dos(q.todo) = {"undo"} \cup {"decide"} /\ Sorted(q.todo)
      BY <1>1, <2>1, <2>2, <3>1, <3>3, FirstStep
    <3> QED BY <3>1, <3>2, <3>4 DEF Dos
  <2> QED BY <2>3, <2>4
<1>3. Shape(q)
  BY <1>2 DEF Shape, SwitchDos, RecoveryDos, Has
<1>4. Stage(q)
  BY <1>2 DEF Stage, SwitchDos, Has
<1>5. Record(q)
  BY <1>2 DEF Record, Changing, Has
<1>6. \A x \in Steps(q.todo) : Made(q, x)
  BY <1>2 DEF Made
<1> QED BY <1>2, <1>3, <1>4, <1>5, <1>6 DEF Planned
-----------------------------------------------------------------------------
(* What an action does to its operation *)

Frame(o, q, cp, before, row, safe, fallback) ==
  /\ Same(o, q) /\ q.cp = cp /\ q.before = before /\ q.row = row /\ q.safe = safe /\ q.fallback = fallback

LEMMA Assigns ==
  ASSUME NEW o \in Ops, NEW cp \in Checkpoints, NEW before \in Selections, NEW row \in Records, NEW safe \in BOOLEAN,
         NEW todo \in Seq(StepSet)
  PROVE  /\ Frame(o, [o EXCEPT !.cp = cp], cp, o.before, o.row, o.safe, o.fallback)
         /\ Frame(o, [o EXCEPT !.cp = cp, !.safe = TRUE], cp, o.before, o.row, TRUE, o.fallback)
         /\ Frame(o, [o EXCEPT !.row = row], o.cp, o.before, row, o.safe, o.fallback)
         /\ Frame(o, [o EXCEPT !.row = row, !.cp = cp], cp, o.before, row, o.safe, o.fallback)
         /\ Frame(o, [o EXCEPT !.before = before], o.cp, before, o.row, o.safe, o.fallback)
         /\ Frame(o, [o EXCEPT !.before = before, !.row = row], o.cp, before, row, o.safe, o.fallback)
         /\ Frame(o, [o EXCEPT !.before = before, !.fallback = FALSE], o.cp, before, o.row, o.safe, FALSE)
         /\ Frame(o, [o EXCEPT !.fallback = FALSE], o.cp, o.before, o.row, o.safe, FALSE)
         /\ Frame(o, [o EXCEPT !.cp = cp, !.safe = TRUE, !.before = before], cp, before, o.row, TRUE, o.fallback)
         /\ Frame(o, [o EXCEPT !.safe = FALSE, !.todo = todo], o.cp, o.before, o.row, FALSE, o.fallback)
         /\ Frame(o, [o EXCEPT !.fallback = FALSE, !.todo = todo], o.cp, o.before, o.row, o.safe, FALSE)
         /\ Frame(o, [o EXCEPT !.safe = FALSE, !.fallback = FALSE, !.todo = todo], o.cp, o.before, o.row, FALSE, FALSE)
         /\ Frame(o, [o EXCEPT !.todo = todo], o.cp, o.before, o.row, o.safe, o.fallback)
<1>1. Frame(o, [o EXCEPT !.cp = cp], cp, o.before, o.row, o.safe, o.fallback)
  BY DEF Ops, Frame, Same
<1>2. Frame(o, [o EXCEPT !.cp = cp, !.safe = TRUE], cp, o.before, o.row, TRUE, o.fallback)
  BY DEF Ops, Frame, Same
<1>3. Frame(o, [o EXCEPT !.row = row], o.cp, o.before, row, o.safe, o.fallback)
  BY DEF Ops, Frame, Same
<1>4. Frame(o, [o EXCEPT !.row = row, !.cp = cp], cp, o.before, row, o.safe, o.fallback)
  BY DEF Ops, Frame, Same
<1>5. Frame(o, [o EXCEPT !.before = before], o.cp, before, o.row, o.safe, o.fallback)
  BY DEF Ops, Frame, Same
<1>6. Frame(o, [o EXCEPT !.before = before, !.row = row], o.cp, before, row, o.safe, o.fallback)
  BY DEF Ops, Frame, Same
<1>7. Frame(o, [o EXCEPT !.before = before, !.fallback = FALSE], o.cp, before, o.row, o.safe, FALSE)
  BY DEF Ops, Frame, Same
<1>8. Frame(o, [o EXCEPT !.fallback = FALSE], o.cp, o.before, o.row, o.safe, FALSE)
  BY DEF Ops, Frame, Same
<1>9. Frame(o, [o EXCEPT !.cp = cp, !.safe = TRUE, !.before = before], cp, before, o.row, TRUE, o.fallback)
  BY DEF Ops, Frame, Same
<1>10. Frame(o, [o EXCEPT !.safe = FALSE, !.todo = todo], o.cp, o.before, o.row, FALSE, o.fallback)
  BY DEF Ops, Frame, Same
<1>11. Frame(o, [o EXCEPT !.fallback = FALSE, !.todo = todo], o.cp, o.before, o.row, o.safe, FALSE)
  BY DEF Ops, Frame, Same
<1>12. Frame(o, [o EXCEPT !.safe = FALSE, !.fallback = FALSE, !.todo = todo], o.cp, o.before, o.row, FALSE, FALSE)
  BY DEF Ops, Frame, Same
<1>13. Frame(o, [o EXCEPT !.todo = todo], o.cp, o.before, o.row, o.safe, o.fallback)
  BY DEF Ops, Frame, Same
<1> QED BY <1>1, <1>2, <1>3, <1>4, <1>5, <1>6, <1>7, <1>8, <1>9, <1>10, <1>11, <1>12, <1>13

LEMMA AssignsTodo ==
  ASSUME NEW o \in Ops, NEW todo \in Seq(StepSet)
  PROVE  /\ [o EXCEPT !.todo = todo].todo = todo
         /\ [o EXCEPT !.safe = FALSE, !.todo = todo].todo = todo
         /\ [o EXCEPT !.fallback = FALSE, !.todo = todo].todo = todo
         /\ [o EXCEPT !.safe = FALSE, !.fallback = FALSE, !.todo = todo].todo = todo
         /\ [o EXCEPT !.todo = o.todo] = o
BY DEF Ops

LEMMA KeepsTodo ==
  ASSUME NEW o \in Ops, NEW cp, NEW before, NEW row
  PROVE  /\ [o EXCEPT !.cp = cp].todo = o.todo
         /\ [o EXCEPT !.cp = cp, !.safe = TRUE].todo = o.todo
         /\ [o EXCEPT !.row = row].todo = o.todo
         /\ [o EXCEPT !.row = row, !.cp = cp].todo = o.todo
         /\ [o EXCEPT !.before = before].todo = o.todo
         /\ [o EXCEPT !.before = before, !.row = row].todo = o.todo
         /\ [o EXCEPT !.before = before, !.fallback = FALSE].todo = o.todo
         /\ [o EXCEPT !.fallback = FALSE].todo = o.todo
         /\ [o EXCEPT !.cp = cp, !.safe = TRUE, !.before = before].todo = o.todo
BY DEF Ops

\* The steps s take the place of the first one.
LEMMA GoesOn ==
  ASSUME NEW h, NEW u, NEW s \in Seq(StepSet), NEW cp, NEW before, NEW row, NEW safe, NEW fallback,
         AtStep(op, h), Frame(op, u, cp, before, row, safe, fallback), Goes(u, s)
  PROVE  Frame(op, op', cp, before, row, safe, fallback) /\ op'.todo = s \o Tail(op.todo)
<1> DEFINE t == s \o Tail(op.todo)
<1>1. op' = [u EXCEPT !.todo = t]
  BY DEF Goes
<1>2. t \in Seq(StepSet)
  <2>1. Tail(op.todo) \in Seq(StepSet)
    BY RestIs DEF Rest
  <2> QED BY <2>1
<1> HIDE DEF t
<1>3. u \in Ops
  BY DEF Frame, Same
<1>4. Frame(u, op', u.cp, u.before, u.row, u.safe, u.fallback) /\ op'.todo = t
  <2>1. \A todo \in Seq(StepSet) : Frame(u, [u EXCEPT !.todo = todo], u.cp, u.before, u.row, u.safe, u.fallback)
    <3> TAKE todo \in Seq(StepSet)
    <3> QED BY <1>3 DEF Ops, Frame, Same
  <2>2. [u EXCEPT !.todo = t].todo = t
    BY <1>2, <1>3, AssignsTodo
  <2> QED BY <1>1, <1>2, <2>1, <2>2
<1> QED BY <1>4 DEF Frame, Same, t

LEMMA StaysSame ==
  ASSUME NEW o \in Ops
  PROVE  Frame(o, o, o.cp, o.before, o.row, o.safe, o.fallback)
BY DEF Frame, Same

\* finish_or_rollback
LEMMA FailsIs ==
  ASSUME NEW o \in Ops, NEW answer, o.fallback => ~o.safe, Fails(o, answer), answer = "rejected" => o.cp.pending # None
  PROVE  Failing(o, op')
<1>1. RollbackPlan \in Seq(StepSet) /\ <<Do("fail")>> \in Seq(StepSet) /\ o.instead \in Seq(StepSet)
  <2>1. Do("fail") \in StepSet
    BY PlainStep DEF PlainDos
  <2> QED BY <2>1, RollbackPlanIs, OpIs DEF Plain
<1>2. <<Do("rejournal")>> \o Recovery \o <<Do("fail")>> = RollbackPlan
  BY DEF RollbackPlan
<1>3. o.safe \in BOOLEAN /\ o.fallback \in BOOLEAN
  BY OpIs
<1> DEFINE t1 == <<Do("rejournal")>> \o Recovery \o <<Do("fail")>>
           t2 == o.instead
           t3 == <<Do("fail")>>
<1>4. /\ o.safe => op' = [o EXCEPT !.safe = FALSE, !.todo = t1]
      /\ ~o.safe /\ (o.fallback /\ answer = "rejected") => op' = [o EXCEPT !.fallback = FALSE, !.todo = t2]
      /\ ~o.safe /\ ~(o.fallback /\ answer = "rejected") => op' = [o EXCEPT !.safe = FALSE, !.fallback = FALSE, !.todo = t3]
  <2> HIDE DEF t1, t2, t3
  <2>1. op' = CASE o.safe -> [o EXCEPT !.safe = FALSE, !.todo = t1]
                [] o.fallback /\ answer = "rejected" -> [o EXCEPT !.fallback = FALSE, !.todo = t2]
                [] OTHER -> [o EXCEPT !.safe = FALSE, !.fallback = FALSE, !.todo = t3]
    BY DEF Fails, t1, t2, t3
  <2> DEFINE x == [o EXCEPT !.safe = FALSE, !.todo = t1]
             y == [o EXCEPT !.fallback = FALSE, !.todo = t2]
             z == [o EXCEPT !.safe = FALSE, !.fallback = FALSE, !.todo = t3]
             F == o.fallback /\ answer = "rejected"
  <2> HIDE DEF x, y, z, F
  <2>2. op' = CASE o.safe -> x [] F -> y [] OTHER -> z
    BY <2>1 DEF x, y, z, F
  <2>3. (o.safe => op' = x) /\ (~o.safe /\ F => op' = y) /\ (~o.safe /\ ~F => op' = z)
    <3>1. F => ~o.safe
      BY DEF F
    <3> QED BY <2>2, <3>1
  <2> QED BY <2>3 DEF x, y, z, F
<1>5. t1 = RollbackPlan /\ t1 \in Seq(StepSet) /\ t2 \in Seq(StepSet) /\ t3 \in Seq(StepSet)
  BY <1>1, <1>2
<1>6. CASE o.safe
  <2> HIDE DEF t1
  <2>1. Frame(o, op', o.cp, o.before, o.row, FALSE, o.fallback) /\ op'.todo = t1
    <3>1. op' = [o EXCEPT !.safe = FALSE, !.todo = t1]
      BY <1>4, <1>6
    <3>2. op' \in Ops
      BY <1>5, <3>1 DEF Ops
    <3> QED BY <1>5, <3>1, <3>2 DEF Ops, Frame, Same
  <2> QED BY <1>5, <1>6, <2>1 DEF Failing, Frame
<1>7. CASE ~o.safe /\ o.fallback /\ answer = "rejected"
  <2> HIDE DEF t2
  <2>1. op' = [o EXCEPT !.fallback = FALSE, !.todo = t2]
    BY <1>4, <1>7
  <2>2. op' \in Ops
    BY <1>5, <2>1 DEF Ops
  <2>3. Frame(o, op', o.cp, o.before, o.row, o.safe, FALSE) /\ op'.todo = t2
    BY <1>5, <2>1, <2>2 DEF Ops, Frame, Same
  <2> QED BY <1>7, <2>3 DEF Failing, Frame, t2
<1>8. CASE ~o.safe /\ ~(o.fallback /\ answer = "rejected")
  <2> HIDE DEF t3
  <2>1. op' = [o EXCEPT !.safe = FALSE, !.fallback = FALSE, !.todo = t3]
    BY <1>4, <1>8
  <2>2. op' \in Ops
    BY <1>5, <2>1 DEF Ops
  <2>3. Frame(o, op', o.cp, o.before, o.row, FALSE, FALSE) /\ op'.todo = t3
    BY <1>5, <2>1, <2>2 DEF Ops, Frame, Same
  <2> QED BY <1>8, <2>3 DEF Failing, Frame, t3
<1> QED BY <1>3, <1>6, <1>7, <1>8

-----------------------------------------------------------------------------
(* What the actions read *)

Live ==
  /\ Typed(account, file, saved, native, op)
  /\ Running(op) => Planned(op)

LEMMA AtIs ==
  ASSUME Live, NEW h, At(h)
  PROVE  AtStep(op, h) /\ op \in Ops /\ Head(op.todo) \in StepSet
<1>1. Running(op)
  BY DEF At, Live, Typed, Idle, Running, Ops
<1>2. op \in Ops
  BY <1>1, NotIdle DEF Live, Typed
<1>3. AtStep(op, h)
  BY <1>1, <1>2 DEF AtStep, At, Live
<1> QED BY <1>2, <1>3, RestIs DEF Rest

\* The preferences and the local choice as they are read.
Read(a, f, sel) ==
  /\ sel \in Selections /\ sel.file = f
  /\ \A s \in Scenes : sel.pref[s] = IF a.pref[s] \in SelectableIn(a) THEN a.pref[s] ELSE Empty
\* The managed row m as it is now.
ReadRow(a, m, r) ==
  /\ r \in Records /\ (r = None <=> m = None \/ m.id \notin RowsOf(a))
  /\ r # None => r.id = m.id /\ r.own = m.own /\ r.selected = m.selected /\ r.input = a.rows[m.id]
\* The journal that is written into cp.
Written(a, f, cp, to, add) ==
  /\ to \in Checkpoints /\ to.base = cp.base /\ to.managed = cp.managed
  /\ to.pending \in Pendings /\ to.pending.ids = RowsOf(a) /\ to.pending.add = add /\ to.pending.created = None
  /\ Read(a, f, to.pending.before) /\ ReadRow(a, cp.managed, to.pending.previous)

LEMMA SelectionIs ==
  ASSUME Live
  PROVE  Read(account, file, Selection)
<1>1. account \in Accounts /\ file \in [Scenes -> Ids \cup {Official, None}]
  BY DEF Live, Typed
<1>2. account.pref \in [Scenes -> Preferences]
  BY <1>1, AccountIs
<1> DEFINE p == [s \in Scenes |-> Effective(s)]
<1>3. p \in [Scenes -> Preferences] /\ \A s \in Scenes : p[s] = IF account.pref[s] \in SelectableIn(account) THEN account.pref[s] ELSE Empty
  BY <1>2 DEF Effective, Selectable, SelectableIn, Rows, RowsOf, Preferences
<1>4. Selection = [pref |-> p, file |-> file]
  BY DEF Selection
<1> HIDE DEF p
<1> QED BY <1>1, <1>3, <1>4 DEF Read, Selections

LEMMA ExistingIs ==
  ASSUME Live, NEW cp \in Checkpoints
  PROVE  ReadRow(account, cp.managed, Existing(cp))
<1>1. cp.managed \in Records
  BY CheckpointIs
<1>2. CASE cp.managed = None \/ cp.managed.id \notin Rows(account)
  BY <1>2 DEF Existing, ReadRow, Rows, RowsOf, Records
<1>3. CASE ~(cp.managed = None \/ cp.managed.id \notin Rows(account))
  <2> DEFINE m == cp.managed x == account.rows[cp.managed.id]
  <2>1. m \in ManagedRows /\ m.id \in RowsOf(account) /\ m # None
    BY <1>1, <1>3 DEF Records, Rows, RowsOf
  <2>2. x \in Inputs
    <3>1. account.rows \in [RowsOf(account) -> Inputs]
      BY AccountIs DEF Live, Typed
    <3> QED BY <2>1, <3>1
  <2>3. Existing(cp) = [m EXCEPT !.input = x]
    BY <1>3 DEF Existing
  <2> HIDE DEF m, x
  <2>4. /\ [m EXCEPT !.input = x] \in ManagedRows /\ [m EXCEPT !.input = x].id = m.id /\ [m EXCEPT !.input = x].own = m.own
        /\ [m EXCEPT !.input = x].selected = m.selected /\ [m EXCEPT !.input = x].input = x
    BY <2>1, <2>2 DEF ManagedRows
  <2>5. Existing(cp) # None
    BY <2>3, <2>4, ImaAssumption
  <2> QED BY <2>1, <2>3, <2>4, <2>5 DEF ReadRow, Records, m, x
<1> QED BY <1>2, <1>3

LEMMA JournalledIs ==
  ASSUME Live, op \in Ops, op.cp # None, NEW add \in Inputs \cup {None}
  PROVE  Written(account, file, op.cp, Journalled(add), add)
<1>1. op.cp \in Checkpoints
  BY OpIs
<1> DEFINE p == [before |-> Selection, previous |-> Existing(op.cp), ids |-> Rows(account), add |-> add, created |-> None]
<1>2. /\ p \in Pendings /\ p.ids = RowsOf(account) /\ p.add = add /\ p.created = None
      /\ p.before = Selection /\ p.previous = Existing(op.cp)
  <2>1. Selection \in Selections
    BY SelectionIs DEF Read
  <2>2. Existing(op.cp) \in Records
    BY <1>1, ExistingIs DEF ReadRow
  <2>3. Rows(account) \in SUBSET Ids /\ Rows(account) = RowsOf(account)
    BY AccountIs DEF Live, Typed, Rows, RowsOf
  <2>4. None \in Records
    BY DEF Records
  <2> QED BY <2>1, <2>2, <2>3, <2>4 DEF Pendings
<1>3. Journalled(add) = [op.cp EXCEPT !.pending = p]
  BY DEF Journalled
<1> HIDE DEF p
<1>4. /\ Journalled(add) \in Checkpoints /\ Journalled(add).pending = p /\ Journalled(add).base = op.cp.base
      /\ Journalled(add).managed = op.cp.managed
  BY <1>1, <1>2, <1>3 DEF Checkpoints
<1>5. Read(account, file, Selection) /\ ReadRow(account, op.cp.managed, Existing(op.cp))
  BY <1>1, SelectionIs, ExistingIs
<1> QED BY <1>2, <1>4, <1>5 DEF Written

\* The requests that bring the preferences to what to names.
Sets(a, to, s) ==
  /\ s \in Seq(StepSet) /\ Sorted(s) /\ Dos(s) \subseteq {"set"}
  /\ \A x \in Steps(s) : x.do = "set" /\ x.scene \in Scenes /\ x.id = to[x.scene] /\ x.id # Empty
  /\ s = <<>> => \A i \in Scenes : to[i] = Empty \/ a.pref[i] = to[i]
  /\ Dos(s) = {} => s = <<>>

LEMMA ChoosingIs ==
  ASSUME NEW to \in [Scenes -> Preferences]
  PROVE  Sets(account, to, Choosing(to))
<1> DEFINE r(i) == [do |-> "set", scene |-> i, id |-> to[i]]
           set(i) == IF to[i] = Empty \/ account.pref[i] = to[i] THEN <<>> ELSE <<r(i)>>
           Want(i) == ~(to[i] = Empty \/ account.pref[i] = to[i])
<1>1. Choosing(to) = set(1) \o set(2)
  BY DEF Choosing
<1>2. \A i \in Scenes : r(i).do = "set" /\ r(i).scene = i /\ r(i).id = to[i]
  OBVIOUS
<1>3. \A i \in Scenes : Want(i) => r(i) \in StepSet
  BY DEF StepSet, Preferences
<1>4. \A i \in Scenes : (Want(i) => set(i) = <<r(i)>>) /\ (~Want(i) => set(i) = <<>>)
  OBVIOUS
<1> HIDE DEF r
<1>5. \A i \in Scenes : /\ set(i) \in Seq(StepSet) /\ Sorted(set(i)) /\ Dos(set(i)) \subseteq {"set"}
                        /\ \A x \in Steps(set(i)) : x = r(i) /\ Want(i)
                        /\ Dos(set(i)) = {} => ~Want(i)
  <2> TAKE i \in Scenes
  <2>1. CASE Want(i)
    <3>1. set(i) = <<r(i)>> /\ r(i) \in StepSet
      BY <2>1, <1>3, <1>4
    <3> HIDE DEF set
    <3> QED BY <2>1, <3>1, <1>2, OneStep
  <2>2. CASE ~Want(i)
    <3>1. set(i) = <<>>
      BY <2>2, <1>4
    <3> HIDE DEF set
    <3> QED BY <2>2, <3>1, NoSteps
  <2> QED BY <2>1, <2>2
<1>6. 1 \in Scenes /\ 2 \in Scenes /\ \A i \in Scenes : i = 1 \/ i = 2
  BY DEF Scenes
<1> HIDE DEF set
<1> DEFINE u == set(1) v == set(2)
<1>7. Precedes("set", "set")
  BY DEF Precedes
<1>8. \A a \in Dos(u), b \in Dos(v) : Precedes(a, b)
  BY <1>5, <1>6, <1>7
<1>9. u \in Seq(StepSet) /\ v \in Seq(StepSet) /\ Sorted(u) /\ Sorted(v)
  BY <1>5, <1>6
<1>10. Steps(u \o v) = Steps(u) \cup Steps(v) /\ Dos(u \o v) = Dos(u) \cup Dos(v) /\ u \o v \in Seq(StepSet)
  BY <1>9, Joined
<1>11. Sorted(u \o v)
  BY <1>8, <1>9, SortedJoined
<1>12. \A x \in Steps(u \o v) : \E i \in Scenes : x = r(i) /\ Want(i)
  BY <1>5, <1>6, <1>10
<1>13. Dos(u \o v) = {} => \A i \in Scenes : ~Want(i)
  BY <1>5, <1>6, <1>10
<1>14. Dos(u \o v) = {} => u \o v = <<>>
  <2>1. u \o v # <<>> => Len(u \o v) >= 1 /\ 1 \in 1 .. Len(u \o v)
    BY <1>10
  <2> HIDE DEF u, v
  <2> QED BY <2>1 DEF Dos, Steps
<1>15. u \o v = <<>> => Dos(u \o v) = {}
  BY NoSteps
<1> DEFINE c == u \o v
<1>16. c \in Seq(StepSet) /\ Sorted(c) /\ (Dos(c) = {} => c = <<>>)
  BY <1>10, <1>11, <1>14
<1>17. Dos(c) \subseteq {"set"}
  BY <1>5, <1>6, <1>10
<1>18. \A x \in Steps(c) : x.do = "set" /\ x.scene \in Scenes /\ x.id = to[x.scene] /\ x.id # Empty
  BY <1>2, <1>12
<1>19. c = <<>> => \A i \in Scenes : to[i] = Empty \/ account.pref[i] = to[i]
  BY <1>13, <1>15
<1>20. Choosing(to) = c
  BY <1>1
<1> HIDE DEF c
<1> QED BY <1>16, <1>17, <1>18, <1>19, <1>20 DEF Sets

-----------------------------------------------------------------------------
(* Requests *)

LEMMA AnsweredIs ==
  ASSUME NEW c, NEW answer, Answered(c, answer)
  PROVE  /\ answer = "ok" => Accepts(c) /\ account' \in Outcomes(c)
         /\ answer # "ok" => account' = account \/ (answer = "lost" /\ Accepts(c) /\ account' \in Outcomes(c))
BY DEF Answered, Fault

SetAt(a, b, c) == IsSet(a, b, c.scene, c.id) /\ c.id \in SelectableIn(a) /\ c.scene \in Scenes
ModifiedAt(a, b, c, ours) == IsModified(a, b, c.id, c.input, ours) /\ \A i \in RowsOf(a) : a.rows[i] # c.input

LEMMA SetRequest ==
  ASSUME account \in Accounts, NEW c, c.do = "set", c.scene \in Scenes, c.id \in Ids \cup {Official},
         Accepts(c), account' \in Outcomes(c)
  PROVE  SetAt(account, account', c)
<1>1. c.id \in SelectableIn(account)
  BY DEF Accepts, Selectable, SelectableIn, Rows, RowsOf
<1>2. account' = [account EXCEPT !.pref[c.scene] = c.id]
  BY DEF Outcomes
<1>3. IsSet(account, account', c.scene, c.id)
  BY <1>2, SetIs DEF Preferences
<1> QED BY <1>1, <1>3 DEF SetAt

LEMMA AddRequest ==
  ASSUME account \in Accounts, NEW input \in Inputs, NEW c, c.do = "add", c.input = input,
         Accepts(c), account' \in Outcomes(c)
  PROVE  /\ \A i \in RowsOf(account) : account.rows[i] # input
         /\ account.next \in Ids
         /\ ~Resting => IsAdded(account, account', input, {account.next})
         /\ Resting => IsAdded(account, account', input, ByHand(account.next, input))
<1>1. Matching(input) = {} /\ account.next \in Ids
  BY DEF Accepts
<1> DEFINE ours == IF Resting THEN ByHand(account.next, input) ELSE {account.next}
<1>2. ours \in SUBSET Ids
  BY <1>1 DEF ByHand
<1>3. account' = [account EXCEPT !.next = @ + 1, !.rows = [i \in DOMAIN @ \cup {account.next} |->
                                                          IF i = account.next THEN input ELSE @[i]],
                              !.ours = @ \cup ours]
  BY DEF Outcomes
<1> HIDE DEF ours
<1>4. IsAdded(account, account', input, ours)
  BY <1>1, <1>2, <1>3, AddedIs
<1> QED BY <1>1, <1>4 DEF Matching, Rows, RowsOf, ours

LEMMA ModifyRequest ==
  ASSUME account \in Accounts, NEW c, c.do = "modify", c.id \in Ids, c.input \in Inputs, Accepts(c), account' \in Outcomes(c)
  PROVE  /\ ~Resting => ModifiedAt(account, account', c, {})
         /\ Resting => ModifiedAt(account, account', c, ByHand(c.id, c.input))
<1>1. Matching(c.input) = {} /\ c.id \in RowsOf(account)
  BY DEF Accepts, Rows, RowsOf
<1> DEFINE ours == ByHand(c.id, c.input)
<1>2. ours \in SUBSET Ids /\ (~Resting => ours = {})
  BY DEF ByHand
<1>3. account' = [account EXCEPT !.rows[c.id] = c.input, !.ours = @ \cup ours]
  BY DEF Outcomes
<1> HIDE DEF ours
<1>4. IsModified(account, account', c.id, c.input, ours)
  BY <1>1, <1>2, <1>3, ModifiedIs
<1>5. ModifiedAt(account, account', c, ours)
  BY <1>1, <1>4 DEF ModifiedAt, Matching, Rows, RowsOf
<1> QED BY <1>2, <1>5 DEF ours

LEMMA DeleteRequest ==
  ASSUME account \in Accounts, NEW c, c.do = "delete", account' \in Outcomes(c)
  PROVE  IsDeleted(account, account', c.id)
<1>1. account.pref \in [Scenes -> Preferences]
  BY AccountIs
<1> DEFINE q == [s \in Scenes |-> IF account.pref[s] = c.id THEN Empty ELSE account.pref[s]]
<1>2. q \in [Scenes -> Preferences]
  BY <1>1 DEF Preferences
<1>3. PICK p \in {account.pref, q} : account' = [account EXCEPT !.rows = [i \in DOMAIN @ \ {c.id} |-> @[i]], !.pref = p]
  BY DEF Outcomes
<1>4. p \in [Scenes -> Preferences] /\ \A s \in Scenes : p[s] = account.pref[s] \/ (account.pref[s] = c.id /\ p[s] = Empty)
  BY <1>1, <1>2, <1>3
<1> QED BY <1>3, <1>4, DeletedIs

-----------------------------------------------------------------------------
(* The steps of an operation: what each leaves of it *)

Pops(o, q, h, cp, before, row, safe, fallback) ==
  AtStep(o, h) /\ Frame(o, q, cp, before, row, safe, fallback) /\ q.todo = <<>> \o Tail(o.todo)
Plainly(o, q, h) == Pops(o, q, h, o.cp, o.before, o.row, o.safe, o.fallback)
Fails1(o, q, h) == AtStep(o, h) /\ Failing(o, q)

JournalTo(a, f, o, q) ==
  /\ Pops(o, q, "journal", q.cp, o.before, o.row, TRUE, o.fallback)
  /\ Written(a, f, o.cp, q.cp, q.cp.pending.add)
  /\ q.cp.pending.add = IF q.cp.pending.previous = None THEN o.want ELSE None

RowTo(o, q) ==
  /\ Pops(o, q, "row", o.cp, o.before, q.row, o.safe, o.fallback)
  /\ LET p == o.cp.pending.previous IN
     p # None /\ q.row # None /\ q.row.id = p.id /\ q.row.own = p.own /\ q.row.selected

CreateTo(o, q) ==
  /\ AtStep(o, "row") /\ Frame(o, q, o.cp, o.before, o.row, o.safe, o.fallback)
  /\ q.todo = <<[do |-> "create", input |-> o.want]>> \o Tail(o.todo)

\* The row r of the input is found, and noted in cp if AT-Switch made it.
Notes(a, o, cp, r, input) ==
  /\ r \in Records /\ r # None /\ r.selected /\ r.id \in RowsOf(a) /\ a.rows[r.id] = input
  /\ r.own <=> r.id \notin o.cp.pending.ids
  /\ r.own => \A i \in RowsOf(a) \ o.cp.pending.ids : a.rows[i] = input => i = r.id
  /\ cp \in Checkpoints /\ cp.base = o.cp.base /\ cp.managed = o.cp.managed /\ cp.pending # None
  /\ SamePending(cp.pending, o.cp.pending) /\ cp.pending.created = IF r.own THEN r ELSE o.cp.pending.created

\* u is o with what was found noted.
Noting(a, o, u) ==
  AtStep(o, "create") /\ Frame(o, u, u.cp, o.before, o.row, o.safe, o.fallback) /\ u.todo = o.todo
  /\ \E r \in Records : Notes(a, o, u.cp, r, Head(o.todo).input)

FoundTo(a, o, q) ==
  /\ Pops(o, q, "create", q.cp, o.before, q.row, o.safe, o.fallback)
  /\ Notes(a, o, q.cp, q.row, Head(o.todo).input)

SetsTo(a, o, q, h, to) ==
  /\ AtStep(o, h) /\ Frame(o, q, o.cp, o.before, o.row, o.safe, o.fallback)
  /\ \E s \in Seq(StepSet) : Sets(a, to, s) /\ q.todo = s \o Tail(o.todo)

\* restore_native_preferences
Natives(a, o, to) ==
  /\ to \in Targets
  /\ \A s \in Scenes :
       IF o.before.pref[s] # Empty THEN to[s] = o.before.pref[s] ELSE to[s] \in SelectableIn(a)
NativeTo(a, o, q) ==
  /\ AtStep(o, "native") /\ Frame(o, q, o.cp, o.before, o.row, o.safe, o.fallback)
  /\ \E s \in Seq(StepSet), to \in Targets :
       Natives(a, o, to) /\ Sets(a, to, s) /\ q.todo = (s \o <<[do |-> "awaittargets", to |-> to]>>) \o Tail(o.todo)

\* commit_checkpoint
Keeping(o, cp) ==
  /\ cp \in Checkpoints /\ cp.base = o.cp.base /\ cp.pending = o.cp.pending /\ cp.managed \in Records
  /\ IF o.call = "switch" THEN cp.managed = o.row
     ELSE /\ cp.managed # None /\ cp.managed.id = o.cp.managed.id /\ cp.managed.own = o.cp.managed.own
          /\ ~cp.managed.selected
KeepTo(o, q) == Pops(o, q, "keep", q.cp, o.before, o.row, o.safe, o.fallback) /\ Keeping(o, q.cp)

\* Nothing is pending any more, and m is managed.
DoneTo(o, q, h, m) ==
  /\ Pops(o, q, h, q.cp, o.before, o.row, o.safe, o.fallback)
  /\ q.cp \in Checkpoints /\ q.cp.base = o.cp.base /\ q.cp.managed = m /\ q.cp.pending = None

LEMMA PopsIs ==
  ASSUME Live, NEW h, NEW u, NEW cp, NEW before, NEW row, NEW safe, NEW fallback,
         At(h), Frame(op, u, cp, before, row, safe, fallback), Goes(u, <<>>)
  PROVE  Pops(op, op', h, cp, before, row, safe, fallback)
<1>1. AtStep(op, h)
  BY AtIs
<1>2. Frame(op, op', cp, before, row, safe, fallback) /\ op'.todo = <<>> \o Tail(op.todo)
  BY <1>1, NoSteps, GoesOn
<1> QED BY <1>1, <1>2 DEF Pops

LEMMA PlainlyIs ==
  ASSUME Live, NEW h, At(h), Goes(op, <<>>)
  PROVE  Plainly(op, op', h)
<1>1. Frame(op, op, op.cp, op.before, op.row, op.safe, op.fallback)
  BY AtIs, StaysSame
<1> QED BY <1>1, PopsIs DEF Plainly

\* A step fails for another reason than a rejected request, ...
LEMMA LostIs ==
  ASSUME Live, NEW h, At(h), Fails(op, "lost")
  PROVE  Fails1(op, op', h)
<1>1. AtStep(op, h) /\ op \in Ops /\ (op.fallback => ~op.safe)
  BY AtIs DEF AtStep, Planned, Stage
<1> QED BY <1>1, FailsIs DEF Fails1

\* ... or for any.
LEMMA RequestFails ==
  ASSUME Live, NEW h, NEW answer, At(h), Fails(op, answer), h \in Changing \/ op.safe
  PROVE  Fails1(op, op', h)
<1>1. AtStep(op, h) /\ op \in Ops /\ Planned(op) /\ op.todo # <<>>
  BY AtIs DEF AtStep
<1>2. h \in Dos(op.todo)
  BY <1>1, RestIs DEF Rest
<1>3. op.cp.pending # None
  BY <1>1, <1>2 DEF Planned, Record, Has
<1>4. op.fallback => ~op.safe
  BY <1>1 DEF Planned, Stage
<1> QED BY <1>1, <1>3, <1>4, FailsIs DEF Fails1

LEMMA RecordThere ==
  ASSUME NEW o, NEW h, AtStep(o, h)
  PROVE  /\ h \notin {"commit", "fail", "failed"} => o.cp # None /\ o.cp \in Checkpoints
         /\ h \in Changing \cup {"rejournal"} \/ o.safe => o.cp # None /\ o.cp.pending # None /\ o.cp.pending \in Pendings
         /\ h \notin SafeDos => ~o.safe
         /\ h \in SwitchDos \cup {"keep", "clear"} => o.safe
         /\ h \in SwitchDos \cup {"journal"} => o.call = "switch"
         /\ h \in {"decide", "aim", "forget"} => o.call = "restore"
         /\ h \in {"select", "write", "await"} \/ (h = "keep" /\ o.call = "switch") => o.row # None
         /\ h = "keep" /\ o.call = "restore" => o.cp.managed # None
         /\ h \in {"modify", "remap"} => o.cp.pending.previous # None
         /\ h = "remap" => o.row # None
<1> DEFINE D == Dos(Tail(o.todo))
<1>1. Dos(o.todo) = {h} \cup D
  BY RestIs DEF Rest
<1>2. \A d \in D : /\ h \in SwitchDos \cup {"keep", "clear"} => d # "journal"
                   /\ h \in {"select", "write", "await", "keep"} => d \notin {"row", "create"}
                   /\ h = "remap" => d \notin {"undo", "create"}
  <2> TAKE d \in D
  <2>1. h = "row" => d # "journal"
    BY Later
  <2>2. h = "select" => d \notin {"journal", "row", "create"}
    BY Later
  <2>3. h = "write" => d \notin {"journal", "row", "create"}
    BY Later
  <2>4. h = "await" => d \notin {"journal", "row", "create"}
    BY Later
  <2>5. h = "keep" => d \notin {"journal", "row", "create"}
    BY Later
  <2>6. h = "clear" => d # "journal"
    BY Later
  <2>7. h = "remap" => d \notin {"undo", "create"}
    BY Later
  <2> QED BY <2>1, <2>2, <2>3, <2>4, <2>5, <2>6, <2>7 DEF SwitchDos
<1> HIDE DEF D
<1>3. Shape(o) /\ Stage(o) /\ Record(o) /\ o.todo # <<>> /\ o \in Ops
  BY DEF AtStep, Planned
<1>4. o.safe \in BOOLEAN /\ o.call \in {"switch", "restore"} /\ o.cp \in Checkpoints \cup {None}
  BY <1>3, OpIs
<1>5. h \notin {"commit", "fail", "failed"} => o.cp # None /\ o.cp \in Checkpoints
  BY <1>1, <1>3, <1>4 DEF Record, Only
<1>6. h \in Changing \cup {"rejournal"} \/ o.safe => o.cp # None /\ o.cp.pending # None
  <2>1. o.safe => o.cp # None /\ o.cp.pending # None
    BY <1>3 DEF Record
  <2>2. h \in Changing \cup {"rejournal"} => o.cp # None /\ o.cp.pending # None
    BY <1>1, <1>3, <1>5 DEF Record, Has, Changing
  <2> QED BY <2>1, <2>2
<1>7. h \in Changing \cup {"rejournal"} \/ o.safe => o.cp.pending \in Pendings
  BY <1>4, <1>6, CheckpointIs
<1>8. h \notin SafeDos => ~o.safe
  BY <1>1, <1>3 DEF Stage, Only
<1>9. h \in SwitchDos \cup {"keep", "clear"} => o.safe
  <2> SUFFICES ASSUME h \in SwitchDos \cup {"keep", "clear"}, ~o.safe PROVE FALSE
    BY <1>4
  <2>1. Has(o.todo, SwitchDos \cup {"keep", "clear"})
    BY <1>1 DEF Has
  <2>2. "journal" \in Dos(o.todo)
    BY <1>3, <2>1 DEF Stage, Has
  <2> QED BY <1>1, <1>2, <2>2 DEF SwitchDos
<1>10. h \in SwitchDos \cup {"journal"} => o.call = "switch"
  BY <1>1, <1>3, <1>4 DEF Shape, Has
<1>11. h \in {"decide", "aim", "forget"} => o.call = "restore"
  BY <1>1, <1>3, <1>4 DEF Shape, Has
<1>12. h \in {"select", "write", "await"} \/ (h = "keep" /\ o.call = "switch") => o.row # None
  <2> SUFFICES ASSUME h \in {"select", "write", "await"} \/ (h = "keep" /\ o.call = "switch") PROVE o.row # None
    OBVIOUS
  <2>1. o.safe /\ o.call = "switch"
    BY <1>9, <1>10 DEF SwitchDos
  <2>2. ~Has(o.todo, {"row", "create"})
    BY <1>1, <1>2 DEF Has
  <2> QED BY <1>3, <2>1, <2>2 DEF Stage
<1>13. h = "keep" /\ o.call = "restore" => o.cp.managed # None
  BY <1>1, <1>3 DEF Record, Has
<1>14. h \in {"modify", "remap"} => o.cp.pending.previous # None
  BY <1>1, <1>3 DEF Record, Has
<1>15. h = "remap" => o.row # None
  BY <1>1, <1>2, <1>3 DEF Stage, Has
<1> QED BY <1>5, <1>6, <1>7, <1>8, <1>9, <1>10, <1>11, <1>12, <1>13, <1>14, <1>15

-----------------------------------------------------------------------------
(* The actions *)

AccountStays == account' = account
RestStays == file' = file /\ native' = native
OnlyOp == account' = account /\ file' = file /\ native' = native /\ saved' = saved

LEMMA JournalIs ==
  ASSUME Live, Journal
  PROVE  /\ AccountStays /\ RestStays
         /\ \/ saved' = op'.cp /\ JournalTo(account, file, op, op')
            \/ saved' = saved /\ Fails1(op, op', "journal")
<1>1. At("journal") /\ AccountStays /\ RestStays
  BY DEF Journal, AccountStays, RestStays
<1>2. AtStep(op, "journal") /\ op \in Ops /\ op.cp # None /\ op.cp \in Checkpoints /\ op.call = "switch"
  <2>1. AtStep(op, "journal")
    BY <1>1, AtIs
  <2> QED BY <1>1, <2>1, AtIs, RecordThere
<1> DEFINE add == IF Existing(op.cp) = None THEN op.want ELSE None
           cp == Journalled(add)
           u == [op EXCEPT !.cp = cp, !.safe = TRUE]
<1>3. add \in Inputs \cup {None}
  BY <1>2, OpIs
<1>4. Written(account, file, op.cp, cp, add)
  <2> HIDE DEF add
  <2> QED BY <1>2, <1>3, JournalledIs
<1>5. cp.pending.previous = Existing(op.cp)
  <2>1. op.cp \in Checkpoints
    BY <1>2
  <2> DEFINE p == [before |-> Selection, previous |-> Existing(op.cp), ids |-> Rows(account), add |-> add, created |-> None]
  <2>2. cp = [op.cp EXCEPT !.pending = p]
    BY DEF Journalled
  <2> HIDE DEF p
  <2>3. cp.pending = p
    BY <2>1, <2>2 DEF Checkpoints
  <2> QED BY <2>3 DEF p
<1>6. (Saves(cp) /\ Goes(u, <<>>)) \/ (SaveFails /\ Fails(op, "lost"))
  BY DEF Journal
<1> HIDE DEF add, cp
<1>7. CASE Saves(cp) /\ Goes(u, <<>>)
  <2>1. cp \in Checkpoints
    BY <1>4 DEF Written
  <2>2. Frame(op, u, cp, op.before, op.row, TRUE, op.fallback)
    <3>1. op.before \in Selections /\ op.row \in Records /\ op.safe \in BOOLEAN
      BY <1>2, OpIs
    <3> QED BY <1>2, <2>1, <3>1, NoSteps, Assigns
  <2>3. Pops(op, op', "journal", cp, op.before, op.row, TRUE, op.fallback)
    <3> HIDE DEF u
    <3> QED BY <1>1, <1>7, <2>2, PopsIs
  <2>4. op'.cp = cp
    BY <2>3 DEF Pops, Frame
  <2>5. saved' = cp
    BY <1>7 DEF Saves
  <2>6. cp.pending.add = add
    BY <1>4 DEF Written
  <2> QED BY <1>1, <1>4, <1>5, <2>3, <2>4, <2>5, <2>6 DEF JournalTo, add
<1>8. CASE SaveFails /\ Fails(op, "lost")
  <2>1. Fails1(op, op', "journal")
    BY <1>1, <1>8, LostIs
  <2> QED BY <1>1, <1>8, <2>1 DEF SaveFails
<1> QED BY <1>6, <1>7, <1>8

LEMMA RunningAt ==
  ASSUME Live, NEW h, At(h)
  PROVE  ~Resting /\ account \in Accounts
<1>1. op \in Ops
  BY AtIs
<1> QED BY <1>1 DEF Resting, Ops, Live, Typed

LEMMA RowKeptIs ==
  ASSUME Live, RowKept
  PROVE  OnlyOp /\ RowTo(op, op') /\ op.cp.pending.previous.input = op.want
<1>1. At("row") /\ OnlyOp /\ Kept(op.cp.pending.previous)
  BY DEF RowKept, OnlyOp
<1>2. AtStep(op, "row") /\ op \in Ops /\ op.safe /\ op.cp \in Checkpoints /\ op.cp.pending \in Pendings
  <2>1. AtStep(op, "row")
    BY <1>1, AtIs
  <2> QED BY <1>1, <2>1, AtIs, RecordThere DEF SwitchDos
<1> DEFINE p == op.cp.pending.previous
           r == [p EXCEPT !.selected = TRUE]
           u == [op EXCEPT !.row = r]
<1>3. p \in ManagedRows /\ p # None /\ p.input = op.want
  BY <1>1, <1>2 DEF Kept, Pendings, Records
<1>4. r \in ManagedRows /\ r.id = p.id /\ r.own = p.own /\ r.selected
  <2> HIDE DEF p
  <2> QED BY <1>3 DEF ManagedRows
<1>5. r \in Records /\ r # None
  BY <1>4, ImaAssumption DEF Records
<1>6. Goes(u, <<>>)
  BY DEF RowKept
<1>7. Frame(op, u, op.cp, op.before, r, op.safe, op.fallback)
  <2> HIDE DEF r
  <2>1. op.before \in Selections /\ op.safe \in BOOLEAN
    BY <1>2, OpIs
  <2> QED BY <1>2, <1>5, <2>1, NoSteps, Assigns
<1>8. Pops(op, op', "row", op.cp, op.before, r, op.safe, op.fallback)
  <2> HIDE DEF u, r
  <2> QED BY <1>1, <1>6, <1>7, PopsIs
<1>9. op'.row = r
  BY <1>8 DEF Pops, Frame
<1> QED BY <1>1, <1>3, <1>4, <1>5, <1>8, <1>9 DEF RowTo

LEMMA RowModifiedIs ==
  ASSUME Live, RowModified
  PROVE  LET p == op.cp.pending.previous
             c == [do |-> "modify", id |-> p.id, input |-> op.want]
         IN  /\ RestStays /\ saved' = saved /\ AtStep(op, "row") /\ p # None /\ p.own
             /\ \/ ModifiedAt(account, account', c, {}) /\ (RowTo(op, op') \/ Fails1(op, op', "row"))
                \/ AccountStays /\ Fails1(op, op', "row")
<1> DEFINE p == op.cp.pending.previous
           c == [do |-> "modify", id |-> p.id, input |-> op.want]
<1>1. At("row") /\ RestStays /\ saved' = saved /\ Modifiable(p)
  BY DEF RowModified, RestStays
<1>2. AtStep(op, "row") /\ op \in Ops /\ op.safe /\ op.cp \in Checkpoints /\ op.cp.pending \in Pendings /\ op.call = "switch"
  <2>1. AtStep(op, "row")
    BY <1>1, AtIs
  <2> QED BY <1>1, <2>1, AtIs, RecordThere DEF SwitchDos
<1>3. p \in ManagedRows /\ p # None /\ p.own
  BY <1>1, <1>2 DEF Modifiable, Pendings, Records
<1>4. op.want \in Inputs
  BY <1>2 DEF AtStep, Planned, Shape
<1>5. c.do = "modify" /\ c.id = p.id /\ c.input = op.want /\ c.id \in Ids
  BY <1>3 DEF ManagedRows
<1> DEFINE r == Managed(p.id, op.want, TRUE)
           u == [op EXCEPT !.row = r]
<1>6. r \in Records /\ r # None /\ r.id = p.id /\ r.own /\ r.selected
  <2>1. r \in ManagedRows /\ r.id = p.id /\ r.own /\ r.selected
    BY <1>3, <1>4 DEF ManagedRows, Managed
  <2> QED BY <2>1, ImaAssumption DEF Records
<1>7. PICK answer \in Answers : /\ Answered(c, answer)
                               /\ IF answer = "ok" THEN Goes(u, <<>>) ELSE Fails(op, answer)
  BY DEF RowModified
<1>8. answer = "ok" => RowTo(op, op')
  <2> SUFFICES ASSUME answer = "ok" PROVE RowTo(op, op')
    OBVIOUS
  <2>1. Frame(op, u, op.cp, op.before, r, op.safe, op.fallback)
    <3> HIDE DEF r
    <3>1. op.before \in Selections /\ op.safe \in BOOLEAN
      BY <1>2, OpIs
    <3> QED BY <1>2, <1>6, <3>1, NoSteps, Assigns
  <2>2. Pops(op, op', "row", op.cp, op.before, r, op.safe, op.fallback)
    <3>1. Goes(u, <<>>)
      BY <1>7
    <3> HIDE DEF u, r
    <3> QED BY <1>1, <2>1, <3>1, PopsIs
  <2>3. op'.row = r
    BY <2>2 DEF Pops, Frame
  <2> QED BY <1>3, <1>6, <2>2, <2>3 DEF RowTo
<1>9. answer # "ok" => Fails1(op, op', "row")
  BY <1>1, <1>2, <1>7, RequestFails
<1> HIDE DEF c, u, r
<1>10. Accepts(c) /\ account' \in Outcomes(c) => ModifiedAt(account, account', c, {})
  BY <1>1, <1>4, <1>5, RunningAt, ModifyRequest
<1>11. \/ ModifiedAt(account, account', c, {}) /\ (RowTo(op, op') \/ Fails1(op, op', "row"))
       \/ AccountStays /\ Fails1(op, op', "row")
  BY <1>7, <1>8, <1>9, <1>10, AnsweredIs DEF AccountStays
<1> QED BY <1>1, <1>2, <1>3, <1>11 DEF c

LEMMA RowOtherIs ==
  ASSUME Live, RowOther
  PROVE  OnlyOp /\ CreateTo(op, op')
<1>1. At("row") /\ OnlyOp /\ Goes(op, <<[do |-> "create", input |-> op.want]>>)
  BY DEF RowOther, OnlyOp
<1>2. AtStep(op, "row") /\ op \in Ops /\ op.call = "switch"
  <2>1. AtStep(op, "row")
    BY <1>1, AtIs
  <2> QED BY <1>1, <2>1, AtIs, RecordThere DEF SwitchDos
<1> DEFINE c == [do |-> "create", input |-> op.want]
<1>3. op.want \in Inputs
  BY <1>2 DEF AtStep, Planned, Shape
<1>4. c \in StepSet
  BY <1>3 DEF StepSet
<1> HIDE DEF c
<1>5. <<c>> \in Seq(StepSet)
  BY <1>4, OneStep
<1>6. Frame(op, op, op.cp, op.before, op.row, op.safe, op.fallback)
  BY <1>2, StaysSame
<1>7. Frame(op, op', op.cp, op.before, op.row, op.safe, op.fallback) /\ op'.todo = <<c>> \o Tail(op.todo)
  BY <1>1, <1>2, <1>5, <1>6, GoesOn DEF c
<1> QED BY <1>1, <1>2, <1>7 DEF CreateTo, c

\* A set of rows with one element.
LEMMA RowSets ==
  ASSUME NEW S \in SUBSET Ids
  PROVE  Cardinality(S) = 1 => \E i \in Ids : S = {i}
<1>1. IsFiniteSet(S)
  <2>1. IsFiniteSet(1 .. MaxId)
    BY ImaAssumption, FS_Interval
  <2> QED BY <2>1, FS_Subset DEF Ids
<1> QED BY <1>1, FS_Singleton

LEMMA FoundIs ==
  ASSUME Live, op \in Ops, op.cp \in Checkpoints, op.cp.pending \in Pendings, NEW input \in Inputs, NEW row \in Found(input)
  PROVE  Notes(account, op, Noted(row), row, input)
<1> DEFINE p == op.cp.pending
           new == Matching(input) \ p.ids
           old == Matching(input) \cap p.ids
<1>1. account.rows \in [RowsOf(account) -> Inputs] /\ RowsOf(account) \in SUBSET Ids
  BY AccountIs DEF Live, Typed
<1>2. new \in SUBSET Ids /\ old \in SUBSET Ids /\ \A i \in Matching(input) : i \in RowsOf(account) /\ account.rows[i] = input
  BY <1>1 DEF Matching, Rows, RowsOf
<1>3. \A i \in RowsOf(account) : account.rows[i] = input => i \in Matching(input)
  BY DEF Matching, Rows, RowsOf
<1> DEFINE A == Cardinality(new) = 1
           B == new = {} /\ Cardinality(old) = 1
<1>4. Found(input) = CASE A -> {Managed(i, input, TRUE) : i \in new}
                       [] B -> {Managed(i, input, FALSE) : i \in old}
                       [] OTHER -> {}
  BY DEF Found
<1>5. A => ~B
  <2>1. Cardinality({}) = 0
    BY FS_EmptySet
  <2> QED BY <2>1
<1>6. \A i \in Ids, own \in BOOLEAN : LET m == Managed(i, input, own) IN
        m \in ManagedRows /\ m.id = i /\ m.own = own /\ m.selected /\ m.input = input
  BY DEF Managed, ManagedRows
<1>7. /\ row \in ManagedRows /\ row.selected /\ row.id \in Matching(input) /\ (row.own <=> row.id \notin p.ids)
      /\ row.own => \A i \in new : i = row.id
  <2>1. CASE A
    <3>1. PICK i \in new : row = Managed(i, input, TRUE)
      <4> DEFINE M == {Managed(i, input, TRUE) : i \in new} N == {Managed(i, input, FALSE) : i \in old} F == Found(input)
      <4>1. F = CASE A -> M [] B -> N [] OTHER -> {}
        BY <1>4
      <4> HIDE DEF A, B, M, N
      <4>2. F = M
        BY <1>5, <2>1, <4>1
      <4> QED BY <4>2 DEF M
    <3>2. PICK k \in Ids : new = {k}
      BY <1>2, <2>1, RowSets
    <3>3. i \in Ids /\ i \in Matching(input) /\ i \notin p.ids
      BY <1>2
    <3> HIDE DEF new, old
    <3> QED BY <1>6, <3>1, <3>2, <3>3
  <2>2. CASE ~A /\ B
    <3>1. PICK i \in old : row = Managed(i, input, FALSE)
      <4> DEFINE M == {Managed(i, input, TRUE) : i \in new} N == {Managed(i, input, FALSE) : i \in old} F == Found(input)
      <4>1. F = CASE A -> M [] B -> N [] OTHER -> {}
        BY <1>4
      <4> HIDE DEF A, B, M, N
      <4>2. F = N
        BY <2>2, <4>1
      <4> QED BY <4>2 DEF N
    <3>2. i \in Ids /\ i \in Matching(input) /\ i \in p.ids
      BY <1>2
    <3> HIDE DEF new, old
    <3> QED BY <1>6, <3>1, <3>2
  <2>3. CASE ~A /\ ~B
    <3> DEFINE M == {Managed(i, input, TRUE) : i \in new} N == {Managed(i, input, FALSE) : i \in old} F == Found(input)
    <3>1. F = CASE A -> M [] B -> N [] OTHER -> {}
      BY <1>4
    <3> HIDE DEF A, B, M, N
    <3>2. F = {}
      BY <2>3, <3>1
    <3> QED BY <3>2
  <2> QED BY <2>1, <2>2, <2>3
<1>8. row \in Records /\ row # None
  BY <1>7, ImaAssumption DEF Records
<1> DEFINE created == IF row.own THEN row ELSE p.created
           pd == [p EXCEPT !.created = created]
<1>9. p.created \in Records
  BY DEF Pendings
<1>10. created \in Records
  BY <1>8, <1>9
<1>11. pd \in Pendings /\ SamePending(pd, p) /\ pd.created = created
  <2> HIDE DEF created
  <2> DEFINE x == p
  <2>1. x \in Pendings
    OBVIOUS
  <2> HIDE DEF x
  <2>2. [x EXCEPT !.created = created] \in Pendings /\ SamePending([x EXCEPT !.created = created], x)
        /\ [x EXCEPT !.created = created].created = created
    BY <1>10, <2>1 DEF Pendings, SamePending
  <2> QED BY <2>2 DEF x
<1>12. Noted(row) = [op.cp EXCEPT !.pending = pd]
  BY DEF Noted, Checkpoints
<1> HIDE DEF pd
<1>13. Noted(row) \in Checkpoints /\ Noted(row).base = op.cp.base /\ Noted(row).managed = op.cp.managed /\ Noted(row).pending = pd
  BY <1>11, <1>12 DEF Checkpoints
<1>14. pd # None
  BY <1>11, ImaAssumption
<1> HIDE DEF new, old
<1>15. row.own => \A i \in RowsOf(account) \ p.ids : account.rows[i] = input => i = row.id
  BY <1>3, <1>7 DEF new
<1> QED BY <1>2, <1>7, <1>8, <1>11, <1>13, <1>14, <1>15 DEF Notes

LEMMA RowFoundIs ==
  ASSUME Live, RowFound
  PROVE  /\ AccountStays /\ RestStays
         /\ \/ saved' = saved /\ Fails1(op, op', "create")
            \/ saved' = op'.cp /\ FoundTo(account, op, op')
            \/ saved' = saved /\ \E u \in Ops : Noting(account, op, u) /\ Failing(u, op')
<1>1. At("create") /\ AccountStays /\ RestStays
  BY DEF RowFound, AccountStays, RestStays
<1>2. AtStep(op, "create") /\ op \in Ops /\ op.cp \in Checkpoints /\ op.cp.pending \in Pendings /\ op.cp.pending # None
  <2>1. AtStep(op, "create")
    BY <1>1, AtIs
  <2> QED BY <1>1, <2>1, AtIs, RecordThere DEF Changing
<1> DEFINE input == Head(op.todo).input
<1>3. input \in Inputs
  BY <1>1, <1>2, AtIs, StepIs DEF AtStep
<1>4. CASE Ambiguous(input) /\ Fails(op, "lost") /\ UNCHANGED <<saved, spent>>
  BY <1>1, <1>4, LostIs
<1>5. ASSUME NEW row \in Found(input),
             \/ Saves(Noted(row)) /\ Goes([op EXCEPT !.row = row, !.cp = Noted(row)], <<>>)
             \/ SaveFails /\ Fails([op EXCEPT !.cp = Noted(row)], "lost")
      PROVE  \/ saved' = op'.cp /\ FoundTo(account, op, op')
             \/ saved' = saved /\ \E u \in Ops : Noting(account, op, u) /\ Failing(u, op')
  <2> DEFINE cp == Noted(row)
  <2>1. Notes(account, op, cp, row, input)
    BY <1>2, <1>3, FoundIs
  <2>2. row \in Records /\ row # None /\ cp \in Checkpoints /\ cp.pending # None
    BY <2>1 DEF Notes
  <2>3. op.before \in Selections /\ op.row \in Records /\ op.safe \in BOOLEAN
    BY <1>2, OpIs
  <2> DEFINE u == [op EXCEPT !.row = row, !.cp = cp]
             v == [op EXCEPT !.cp = cp]
  <2> HIDE DEF cp, input
  <2>4. Frame(op, u, cp, op.before, row, op.safe, op.fallback)
    BY <1>2, <2>2, <2>3, NoSteps, Assigns
  <2>5. Frame(op, v, cp, op.before, op.row, op.safe, op.fallback) /\ v.todo = op.todo
    BY <1>2, <2>2, <2>3, NoSteps, Assigns, KeepsTodo
  <2>6. CASE Saves(cp) /\ Goes(u, <<>>)
    <3> HIDE DEF u
    <3>1. Pops(op, op', "create", cp, op.before, row, op.safe, op.fallback)
      BY <1>1, <2>4, <2>6, PopsIs
    <3>2. op'.cp = cp /\ op'.row = row
      BY <3>1 DEF Pops, Frame
    <3>3. saved' = cp
      BY <2>6 DEF Saves
    <3> QED BY <2>1, <3>1, <3>2, <3>3 DEF FoundTo, input
  <2>7. CASE SaveFails /\ Fails(v, "lost")
    <3> HIDE DEF v
    <3>1. Noting(account, op, v)
      <4>1. v.cp = cp
        BY <2>5 DEF Frame
      <4> QED BY <1>2, <2>1, <2>2, <2>5, <4>1 DEF Noting, input
    <3>2. v \in Ops /\ Same(op, v)
      BY <2>5 DEF Frame, Same
    <3>3. v.fallback => ~v.safe
      <4>1. op.fallback => ~op.safe
        BY <1>2 DEF AtStep, Planned, Stage
      <4> QED BY <2>5, <4>1 DEF Frame
    <3>4. Failing(v, op')
      BY <2>7, <3>2, <3>3, FailsIs
    <3>5. saved' = saved
      BY <2>7 DEF SaveFails
    <3> QED BY <3>1, <3>2, <3>4, <3>5
  <2> QED BY <1>5, <2>6, <2>7 DEF cp
<1>6. \/ Ambiguous(input) /\ Fails(op, "lost") /\ UNCHANGED <<saved, spent>>
      \/ \E row \in Found(input) :
          \/ Saves(Noted(row)) /\ Goes([op EXCEPT !.row = row, !.cp = Noted(row)], <<>>)
          \/ SaveFails /\ Fails([op EXCEPT !.cp = Noted(row)], "lost")
  BY DEF RowFound
<1> QED BY <1>1, <1>4, <1>5, <1>6

LEMMA JoinedAt ==
  ASSUME NEW s \in Seq(StepSet), NEW t \in Seq(StepSet)
  PROVE  /\ s \o t \in Seq(StepSet) /\ Len(s \o t) = Len(s) + Len(t)
         /\ \A j \in 1 .. Len(s) : (s \o t)[j] = s[j]
         /\ \A j \in 1 .. Len(t) : (s \o t)[j + Len(s)] = t[j]
OBVIOUS

LEMMA HeadKept ==
  ASSUME NEW t \in Seq(StepSet), t # <<>>
  PROVE  <<Head(t)>> \o Tail(t) = t
<1> DEFINE h == <<Head(t)>> u == Tail(t) r == h \o u
<1>1. /\ Len(t) \in Nat /\ Len(t) >= 1 /\ Head(t) = t[1] /\ u \in Seq(StepSet)
      /\ Len(u) = Len(t) - 1 /\ \A j \in 1 .. Len(t) - 1 : u[j] = t[j + 1]
  OBVIOUS
<1>2. h \in Seq(StepSet) /\ Len(h) = 1 /\ h[1] = t[1]
  <2>1. Head(t) \in StepSet
    BY HeadTail
  <2> QED BY <1>1, <2>1
<1> HIDE DEF h, u
<1>3. /\ r \in Seq(StepSet) /\ Len(r) = Len(h) + Len(u)
      /\ \A j \in 1 .. Len(h) : r[j] = h[j]
      /\ \A j \in 1 .. Len(u) : r[j + Len(h)] = u[j]
  BY <1>1, <1>2, JoinedAt
<1> HIDE DEF r
<1>4. Len(r) = Len(t)
  BY <1>1, <1>2, <1>3
<1>5. \A i \in 1 .. Len(t) : r[i] = t[i]
  <2> TAKE i \in 1 .. Len(t)
  <2>1. CASE i = 1
    BY <2>1, <1>2, <1>3
  <2>2. CASE i # 1
    <3>1. i - 1 \in 1 .. Len(u) /\ (i - 1) + 1 = i
      BY <2>2, <1>1
    <3>2. r[(i - 1) + 1] = u[i - 1] /\ u[i - 1] = t[(i - 1) + 1]
      BY <3>1, <1>1, <1>2, <1>3
    <3> QED BY <3>1, <3>2
  <2> QED BY <2>1, <2>2
<1>6. r = t
  BY <1>3, <1>4, <1>5
<1> QED BY <1>6 DEF r, h, u

LEMMA RowAddedIs ==
  ASSUME Live, RowAdded
  PROVE  /\ RestStays /\ saved' = saved /\ AtStep(op, "create")
         /\ \A i \in RowsOf(account) : account.rows[i] # Head(op.todo).input
         /\ \/ AccountStays /\ Fails1(op, op', "create")
            \/ /\ account.next \in Ids /\ IsAdded(account, account', Head(op.todo).input, {account.next})
               /\ op' = op \/ Fails1(op, op', "create")
<1>1. At("create") /\ RestStays /\ saved' = saved
  BY DEF RowAdded, RestStays
<1>2. AtStep(op, "create") /\ op \in Ops
  BY <1>1, AtIs
<1> DEFINE input == Head(op.todo).input
           c == [do |-> "add", input |-> input]
<1>3. input \in Inputs
  BY <1>1, <1>2, AtIs, StepIs DEF AtStep
<1>4. c.do = "add" /\ c.input = input
  OBVIOUS
<1>5. /\ Matching(input) = {}
      /\ \E answer \in Answers :
          /\ Answered(c, answer)
          /\ \/ account' # account /\ Goes(op, <<Head(op.todo)>>)
             \/ (account' = account \/ answer = "lost") /\ Fails(op, answer)
  BY DEF RowAdded
<1>6. \A i \in RowsOf(account) : account.rows[i] # input
  BY <1>5 DEF Matching, Rows, RowsOf
<1>7. Goes(op, <<Head(op.todo)>>) => op' = op
  <2>1. op.todo \in Seq(StepSet) /\ op.todo # <<>>
    BY <1>2, OpIs DEF AtStep
  <2>2. <<Head(op.todo)>> \o Tail(op.todo) = op.todo
    BY <2>1, HeadKept
  <2>3. [op EXCEPT !.todo = op.todo] = op
    BY <1>2, <2>1, AssignsTodo
  <2> QED BY <2>2, <2>3 DEF Goes
<1>8. \A answer : Fails(op, answer) => Fails1(op, op', "create")
  BY <1>1, RequestFails DEF Changing
<1> HIDE DEF c
<1>9. Accepts(c) /\ account' \in Outcomes(c) => account.next \in Ids /\ IsAdded(account, account', input, {account.next})
  BY <1>1, <1>3, <1>4, RunningAt, AddRequest
<1>10. PICK answer \in Answers :
          /\ Answered(c, answer)
          /\ \/ account' # account /\ Goes(op, <<Head(op.todo)>>)
             \/ (account' = account \/ answer = "lost") /\ Fails(op, answer)
  BY <1>5
<1>11. account' = account \/ (Accepts(c) /\ account' \in Outcomes(c))
  BY <1>10, AnsweredIs
<1>12. \/ AccountStays /\ Fails1(op, op', "create")
       \/ /\ account.next \in Ids /\ IsAdded(account, account', input, {account.next})
          /\ op' = op \/ Fails1(op, op', "create")
  BY <1>7, <1>8, <1>9, <1>10, <1>11 DEF AccountStays
<1> QED BY <1>1, <1>2, <1>6, <1>12

\* The preferences are chosen.
LEMMA ChosenIs ==
  ASSUME Live, NEW h, At(h), NEW to \in [Scenes -> Preferences], Goes(op, Choosing(to))
  PROVE  SetsTo(account, op, op', h, to)
<1> DEFINE s == Choosing(to)
<1>1. AtStep(op, h) /\ op \in Ops
  BY AtIs
<1>2. Sets(account, to, s)
  BY ChoosingIs
<1> HIDE DEF s
<1>3. s \in Seq(StepSet)
  BY <1>2 DEF Sets
<1>4. Frame(op, op, op.cp, op.before, op.row, op.safe, op.fallback)
  BY <1>1, StaysSame
<1>5. Frame(op, op', op.cp, op.before, op.row, op.safe, op.fallback) /\ op'.todo = s \o Tail(op.todo)
  BY <1>1, <1>3, <1>4, GoesOn DEF s
<1> QED BY <1>1, <1>2, <1>3, <1>5 DEF SetsTo

LEMMA SelectsIs ==
  ASSUME Live, Selects
  PROVE  OnlyOp /\ SetsTo(account, op, op', "select", Everywhere(op.row.id)) /\ op.row # None
         /\ Everywhere(op.row.id) \in [Scenes -> Preferences]
<1>1. At("select") /\ OnlyOp /\ Goes(op, Choosing(Everywhere(op.row.id)))
  BY DEF Selects, OnlyOp
<1>2. AtStep(op, "select") /\ op \in Ops
  BY <1>1, AtIs
<1>3. op.row # None /\ op.row \in Records
  BY <1>2, RecordThere, OpIs
<1>4. Everywhere(op.row.id) \in [Scenes -> Preferences]
  BY <1>3, RecordIs DEF Everywhere, Preferences
<1> QED BY <1>1, <1>3, <1>4, ChosenIs

LEMMA BeforeIs ==
  ASSUME op \in Ops
  PROVE  op.before.pref \in [Scenes -> Preferences] /\ op.before.file \in [Scenes -> Ids \cup {Official, None}]
BY OpIs DEF Selections

LEMMA PreferIs ==
  ASSUME Live, Prefer
  PROVE  OnlyOp /\ SetsTo(account, op, op', "prefer", op.before.pref)
<1>1. At("prefer") /\ OnlyOp /\ Goes(op, Choosing(op.before.pref))
  BY DEF Prefer, OnlyOp
<1>2. op.before.pref \in [Scenes -> Preferences]
  BY <1>1, AtIs, BeforeIs
<1> QED BY <1>1, <1>2, ChosenIs

LEMMA TargetsAre ==
  ASSUME Live, op \in Ops
  PROVE  Natives(account, op, NativeTargets)
<1>1. op.before.pref \in [Scenes -> Preferences]
  BY BeforeIs
<1>2. Selectable = SelectableIn(account) /\ SelectableIn(account) \subseteq Ids \cup {Official}
  BY AccountIs DEF Live, Typed, Selectable, SelectableIn, Rows, RowsOf
<1>3. Official \in SelectableIn(account)
  BY DEF SelectableIn
<1> DEFINE c(s) == CASE op.before.pref[s] # Empty -> op.before.pref[s]
                     [] op.before.pref[s] = Empty /\ op.before.file[s] \in Selectable -> op.before.file[s]
                     [] OTHER -> Official
<1>4. \A s \in Scenes : /\ op.before.pref[s] # Empty => c(s) = op.before.pref[s] /\ c(s) \in Ids \cup {Official}
                        /\ op.before.pref[s] = Empty => c(s) \in SelectableIn(account)
  <2> TAKE s \in Scenes
  <2> DEFINE A == op.before.pref[s] # Empty B == op.before.pref[s] = Empty /\ op.before.file[s] \in Selectable
  <2>1. c(s) = CASE A -> op.before.pref[s] [] B -> op.before.file[s] [] OTHER -> Official
    OBVIOUS
  <2>2. A => c(s) = op.before.pref[s]
    <3>1. A => ~B
      OBVIOUS
    <3> QED BY <2>1, <3>1
  <2>3. ~A => c(s) \in SelectableIn(account)
    BY <2>1, <1>2, <1>3
  <2>4. A => op.before.pref[s] \in Ids \cup {Official}
    BY <1>1 DEF Preferences
  <2> QED BY <2>2, <2>3, <2>4
<1>5. NativeTargets = [s \in Scenes |-> c(s)]
  BY DEF NativeTargets
<1> HIDE DEF c
<1>6. NativeTargets \in Targets /\ \A s \in Scenes : NativeTargets[s] = c(s)
  BY <1>2, <1>4, <1>5 DEF Targets
<1> QED BY <1>4, <1>6 DEF Natives

LEMMA NativeIs ==
  ASSUME Live, Native
  PROVE  OnlyOp /\ NativeTo(account, op, op')
<1> DEFINE to == NativeTargets
           s == Choosing(to)
           w == [do |-> "awaittargets", to |-> to]
<1>1. At("native") /\ OnlyOp /\ Goes(op, s \o <<w>>)
  BY DEF Native, OnlyOp
<1>2. AtStep(op, "native") /\ op \in Ops
  BY <1>1, AtIs
<1>3. Natives(account, op, to) /\ to \in Targets
  BY <1>2, TargetsAre DEF Natives
<1>4. to \in [Scenes -> Preferences]
  BY <1>3 DEF Targets, Preferences
<1> HIDE DEF to
<1>5. Sets(account, to, s)
  BY <1>4, ChoosingIs
<1>6. w \in StepSet
  BY <1>3 DEF StepSet
<1> HIDE DEF s, w
<1>7. s \in Seq(StepSet) /\ s \o <<w>> \in Seq(StepSet)
  <2>1. <<w>> \in Seq(StepSet)
    BY <1>6, OneStep
  <2>2. s \in Seq(StepSet)
    BY <1>5 DEF Sets
  <2> QED BY <2>1, <2>2, Joined
<1> DEFINE r == s \o <<w>>
<1>8. Frame(op, op, op.cp, op.before, op.row, op.safe, op.fallback)
  BY <1>2, StaysSame
<1>9. Frame(op, op', op.cp, op.before, op.row, op.safe, op.fallback) /\ op'.todo = r \o Tail(op.todo)
  <2>1. r \in Seq(StepSet) /\ Goes(op, r)
    BY <1>1, <1>7
  <2> HIDE DEF r
  <2> QED BY <1>2, <1>8, <2>1, GoesOn
<1> QED BY <1>1, <1>2, <1>3, <1>5, <1>7, <1>9 DEF NativeTo, w

\* A request of a step: it is done, or it fails with or without its effect.
Requested(done, o, q, h) ==
  \/ done /\ (Plainly(o, q, h) \/ Fails1(o, q, h))
  \/ AccountStays /\ Fails1(o, q, h)

LEMMA RequestedIs ==
  ASSUME Live, NEW h \in Changing, At(h), NEW answer, Answered(Head(op.todo), answer),
         IF answer = "ok" THEN Goes(op, <<>>) ELSE Fails(op, answer)
  PROVE  Requested(Accepts(Head(op.todo)) /\ account' \in Outcomes(Head(op.todo)), op, op', h)
<1>1. answer = "ok" => Plainly(op, op', h)
  BY PlainlyIs
<1>2. answer # "ok" => Fails1(op, op', h)
  BY RequestFails
<1> QED BY <1>1, <1>2, AnsweredIs DEF Requested, AccountStays

LEMMA SetStepIs ==
  ASSUME Live, Set
  PROVE  RestStays /\ saved' = saved /\ Requested(SetAt(account, account', Head(op.todo)), op, op', "set")
<1>1. At("set") /\ RestStays /\ saved' = saved
  BY DEF Set, RestStays
<1> DEFINE c == Head(op.todo)
<1>2. Requested(Accepts(c) /\ account' \in Outcomes(c), op, op', "set")
  BY <1>1, RequestedIs DEF Set, Changing
<1>3. c.do = "set" /\ c.scene \in Scenes /\ c.id \in Ids \cup {Official}
  BY <1>1, AtIs, StepIs DEF AtStep
<1> HIDE DEF c
<1>4. Accepts(c) /\ account' \in Outcomes(c) => SetAt(account, account', c)
  BY <1>1, <1>3, RunningAt, SetRequest
<1> QED BY <1>1, <1>2, <1>4 DEF Requested, c

LEMMA ModifyStepIs ==
  ASSUME Live, Modify
  PROVE  RestStays /\ saved' = saved
         /\ Requested(ModifiedAt(account, account', Head(op.todo), {}), op, op', "modify")
<1>1. At("modify") /\ RestStays /\ saved' = saved
  BY DEF Modify, RestStays
<1> DEFINE c == Head(op.todo)
<1>2. Requested(Accepts(c) /\ account' \in Outcomes(c), op, op', "modify")
  BY <1>1, RequestedIs DEF Modify, Changing
<1>3. c.do = "modify" /\ c.id \in Ids /\ c.input \in Inputs
  BY <1>1, AtIs, StepIs DEF AtStep
<1> HIDE DEF c
<1>4. Accepts(c) /\ account' \in Outcomes(c) => ModifiedAt(account, account', c, {})
  BY <1>1, <1>3, RunningAt, ModifyRequest
<1> QED BY <1>1, <1>2, <1>4 DEF Requested, c

\* There is always one row at most to delete.
LEMMA DeleteAt ==
  ASSUME Live, Delete
  PROVE  /\ At("delete")
         /\ \E answer \in Answers : /\ Answered(Head(op.todo), answer)
                                    /\ IF answer = "ok" THEN Goes(op, <<>>) ELSE Fails(op, answer)
<1>1. ~At("undecided")
  <2>1. ASSUME At("undecided")
        PROVE  FALSE
    <3>1. Head(op.todo) \in StepSet
      BY <2>1, AtIs
    <3>2. Head(op.todo).do = "undecided"
      BY <2>1 DEF At
    <3> QED BY <3>1, <3>2 DEF StepSet, PlainDos
  <2> QED BY <2>1
<1> QED BY <1>1 DEF Delete

LEMMA DeleteStepIs ==
  ASSUME Live, Delete
  PROVE  RestStays /\ saved' = saved
         /\ Requested(IsDeleted(account, account', Head(op.todo).id), op, op', "delete")
<1>1. At("delete") /\ RestStays /\ saved' = saved
  BY DeleteAt DEF Delete, RestStays
<1> DEFINE c == Head(op.todo)
<1>2. Requested(Accepts(c) /\ account' \in Outcomes(c), op, op', "delete")
  BY <1>1, DeleteAt, RequestedIs DEF Changing
<1>3. c.do = "delete"
  BY <1>1, AtIs DEF AtStep
<1> HIDE DEF c
<1>4. account' \in Outcomes(c) => IsDeleted(account, account', c.id)
  BY <1>1, <1>3, RunningAt, DeleteRequest
<1> QED BY <1>1, <1>2, <1>4 DEF Requested, c

\* A local choice is written, ...
WroteTo(to, o, q, h) ==
  /\ account' = account /\ saved' = saved /\ native' = native
  /\ \/ file' = to /\ Plainly(o, q, h)
     \/ file' = file /\ Fails1(o, q, h)
\* ... and what the account says is awaited.
Awaited(pref, row, o, q, h) ==
  \/ /\ Plainly(o, q, h) /\ account.pref = pref
     /\ row # None => row.id \in RowsOf(account) /\ account.rows[row.id] = row.input
  \/ Fails1(o, q, h)

LEMMA WriteIs ==
  ASSUME Live, NEW h, At(h), NEW to, Write(to)
  PROVE  WroteTo(to, op, op', h)
<1>1. account' = account /\ saved' = saved /\ native' = native
  BY DEF Write
<1>2. CASE file' = to /\ Goes(op, <<>>)
  BY <1>1, <1>2, PlainlyIs DEF WroteTo
<1>3. CASE Fails(op, "lost") /\ file' = file
  BY <1>1, <1>3, LostIs DEF WroteTo
<1> QED BY <1>2, <1>3 DEF Write

LEMMA AwaitIs ==
  ASSUME Live, NEW h, At(h), NEW pref, NEW row, Await(pref, row)
  PROVE  OnlyOp /\ Awaited(pref, row, op, op', h)
<1>1. OnlyOp
  BY DEF Await, OnlyOp
<1>2. CASE /\ account.pref = pref
           /\ row # None => row.id \in Rows(account) /\ account.rows[row.id] = row.input
           /\ Goes(op, <<>>)
  BY <1>1, <1>2, PlainlyIs DEF Awaited, Rows, RowsOf
<1>3. CASE Fails(op, "lost")
  BY <1>1, <1>3, LostIs DEF Awaited
<1> QED BY <1>2, <1>3 DEF Await

LEMMA CommitIs ==
  ASSUME Live, Commit
  PROVE  OnlyOp /\ (Plainly(op, op', "commit") \/ Fails1(op, op', "commit"))
<1>1. At("commit") /\ OnlyOp
  BY DEF Commit, OnlyOp
<1>2. CASE Goes(op, <<>>)
  BY <1>1, <1>2, PlainlyIs
<1>3. CASE Fails(op, "lost")
  BY <1>1, <1>3, LostIs
<1> QED BY <1>1, <1>2, <1>3 DEF Commit

LEMMA RejournalIs ==
  ASSUME Live, Rejournal
  PROVE  /\ AccountStays /\ RestStays
         /\ \/ saved' = op.cp /\ Plainly(op, op', "rejournal")
            \/ saved' = saved /\ Fails1(op, op', "rejournal")
<1>1. At("rejournal") /\ AccountStays /\ RestStays
  BY DEF Rejournal, AccountStays, RestStays
<1>2. CASE Saves(op.cp) /\ Goes(op, <<>>)
  BY <1>1, <1>2, PlainlyIs DEF Saves
<1>3. CASE SaveFails /\ Fails(op, "lost")
  BY <1>1, <1>3, LostIs DEF SaveFails
<1> QED BY <1>2, <1>3 DEF Rejournal

\* The record cp is saved, or that fails.
LEMMA SavesIs ==
  ASSUME Live, NEW h, At(h), NEW cp \in Checkpoints,
         \/ Saves(cp) /\ Goes([op EXCEPT !.cp = cp], <<>>)
         \/ SaveFails /\ Fails(op, "lost")
  PROVE  \/ saved' = op'.cp /\ op'.cp = cp /\ Pops(op, op', h, op'.cp, op.before, op.row, op.safe, op.fallback)
         \/ saved' = saved /\ Fails1(op, op', h)
<1> DEFINE u == [op EXCEPT !.cp = cp]
<1>1. CASE Saves(cp) /\ Goes(u, <<>>)
  <2>1. op \in Ops /\ op.before \in Selections /\ op.row \in Records /\ op.safe \in BOOLEAN
    BY AtIs, OpIs
  <2>2. Frame(op, u, cp, op.before, op.row, op.safe, op.fallback)
    BY <2>1, NoSteps, Assigns
  <2> HIDE DEF u
  <2>3. Pops(op, op', h, cp, op.before, op.row, op.safe, op.fallback)
    BY <1>1, <2>2, PopsIs
  <2>4. op'.cp = cp
    BY <2>3 DEF Pops, Frame
  <2> QED BY <1>1, <2>3, <2>4 DEF Saves
<1>2. CASE SaveFails /\ Fails(op, "lost")
  BY <1>2, LostIs DEF SaveFails
<1> QED BY <1>1, <1>2

\* A record with another managed row, or with nothing pending.
LEMMA RecordChanged ==
  ASSUME NEW cp \in Checkpoints, NEW m \in Records
  PROVE  /\ [cp EXCEPT !.managed = m] \in Checkpoints
         /\ [cp EXCEPT !.managed = m].base = cp.base /\ [cp EXCEPT !.managed = m].managed = m
         /\ [cp EXCEPT !.managed = m].pending = cp.pending
         /\ [cp EXCEPT !.pending = None] \in Checkpoints
         /\ [cp EXCEPT !.pending = None].base = cp.base /\ [cp EXCEPT !.pending = None].managed = cp.managed
         /\ [cp EXCEPT !.pending = None].pending = None
         /\ [cp EXCEPT !.managed = m, !.pending = None] \in Checkpoints
         /\ [cp EXCEPT !.managed = m, !.pending = None].base = cp.base
         /\ [cp EXCEPT !.managed = m, !.pending = None].managed = m
         /\ [cp EXCEPT !.managed = m, !.pending = None].pending = None
BY DEF Checkpoints

LEMMA ClearIs ==
  ASSUME Live, Clear
  PROVE  /\ AccountStays /\ RestStays
         /\ \/ saved' = op'.cp /\ DoneTo(op, op', "clear", op.cp.managed)
            \/ saved' = saved /\ Fails1(op, op', "clear")
<1>1. At("clear") /\ AccountStays /\ RestStays
  BY DEF Clear, AccountStays, RestStays
<1> DEFINE cp == [op.cp EXCEPT !.pending = None]
<1>2. op.cp \in Checkpoints /\ op.cp.managed \in Records
  BY <1>1, AtIs, RecordThere, CheckpointIs
<1>3. cp \in Checkpoints /\ cp.base = op.cp.base /\ cp.managed = op.cp.managed /\ cp.pending = None
  BY <1>2, RecordChanged
<1>4. \/ Saves(cp) /\ Goes([op EXCEPT !.cp = cp], <<>>)
      \/ SaveFails /\ Fails(op, "lost")
  BY DEF Clear
<1> HIDE DEF cp
<1>5. \/ saved' = op'.cp /\ op'.cp = cp /\ Pops(op, op', "clear", op'.cp, op.before, op.row, op.safe, op.fallback)
      \/ saved' = saved /\ Fails1(op, op', "clear")
  BY <1>1, <1>3, <1>4, SavesIs
<1> QED BY <1>1, <1>3, <1>5 DEF DoneTo

LEMMA SettleIs ==
  ASSUME Live, Settle
  PROVE  /\ AccountStays /\ RestStays
         /\ \/ saved' = op'.cp /\ DoneTo(op, op', "settle", op.row)
            \/ saved' = saved /\ Fails1(op, op', "settle")
<1>1. At("settle") /\ AccountStays /\ RestStays
  BY DEF Settle, AccountStays, RestStays
<1> DEFINE cp == [op.cp EXCEPT !.managed = op.row, !.pending = None]
<1>2. op.cp \in Checkpoints /\ op.row \in Records
  BY <1>1, AtIs, RecordThere, OpIs
<1>3. cp \in Checkpoints /\ cp.base = op.cp.base /\ cp.managed = op.row /\ cp.pending = None
  BY <1>2, RecordChanged
<1>4. \/ Saves(cp) /\ Goes([op EXCEPT !.cp = cp], <<>>)
      \/ SaveFails /\ Fails(op, "lost")
  BY DEF Settle
<1> HIDE DEF cp
<1>5. \/ saved' = op'.cp /\ op'.cp = cp /\ Pops(op, op', "settle", op'.cp, op.before, op.row, op.safe, op.fallback)
      \/ saved' = saved /\ Fails1(op, op', "settle")
  BY <1>1, <1>3, <1>4, SavesIs
<1> QED BY <1>1, <1>3, <1>5 DEF DoneTo

LEMMA ForgetIs ==
  ASSUME Live, Forget
  PROVE  /\ AccountStays /\ RestStays
         /\ \/ saved' = op'.cp /\ DoneTo(op, op', "forget", None)
            \/ saved' = saved /\ Fails1(op, op', "forget")
<1>1. At("forget") /\ AccountStays /\ RestStays
  BY DEF Forget, AccountStays, RestStays
<1> DEFINE cp == [op.cp EXCEPT !.managed = None, !.pending = None]
<1>2. op.cp \in Checkpoints /\ None \in Records
  BY <1>1, AtIs, RecordThere DEF Records
<1>3. cp \in Checkpoints /\ cp.base = op.cp.base /\ cp.managed = None /\ cp.pending = None
  BY <1>2, RecordChanged
<1>4. \/ Saves(cp) /\ Goes([op EXCEPT !.cp = cp], <<>>)
      \/ SaveFails /\ Fails(op, "lost")
  BY DEF Forget
<1> HIDE DEF cp
<1>5. \/ saved' = op'.cp /\ op'.cp = cp /\ Pops(op, op', "forget", op'.cp, op.before, op.row, op.safe, op.fallback)
      \/ saved' = saved /\ Fails1(op, op', "forget")
  BY <1>1, <1>3, <1>4, SavesIs
<1> QED BY <1>1, <1>3, <1>5 DEF DoneTo

\* u is o with the record that is kept.
KeepingAs(o, u) ==
  AtStep(o, "keep") /\ Frame(o, u, u.cp, o.before, o.row, o.safe, o.fallback) /\ u.todo = o.todo /\ Keeping(o, u.cp)

LEMMA KeepIs ==
  ASSUME Live, Keep
  PROVE  /\ AccountStays /\ RestStays
         /\ \/ saved' = op'.cp /\ KeepTo(op, op')
            \/ saved' = saved /\ \E u \in Ops : KeepingAs(op, u) /\ Failing(u, op')
<1>1. At("keep") /\ AccountStays /\ RestStays
  BY DEF Keep, AccountStays, RestStays
<1>2. AtStep(op, "keep") /\ op \in Ops /\ op.cp \in Checkpoints /\ op.row \in Records /\ op.cp.managed \in Records
  <2>1. AtStep(op, "keep")
    BY <1>1, AtIs
  <2> QED BY <1>1, <2>1, AtIs, RecordThere, OpIs, CheckpointIs
<1> DEFINE away == [op.cp.managed EXCEPT !.selected = FALSE]
           m == IF op.call = "switch" THEN op.row ELSE away
           cp == [op.cp EXCEPT !.managed = m]
<1>3. op.call = "restore" => /\ away \in ManagedRows /\ away.id = op.cp.managed.id /\ away.own = op.cp.managed.own
                             /\ ~away.selected
  <2>1. op.call = "restore" => op.cp.managed \in ManagedRows
    BY <1>2, RecordThere DEF Records
  <2> QED BY <2>1 DEF ManagedRows
<1>4. op.call \in {"switch", "restore"}
  BY <1>2, OpIs
<1>5. m \in Records
  BY <1>2, <1>3, <1>4 DEF Records
<1>6. op.call = "restore" => away # None
  BY <1>3, ImaAssumption
<1> HIDE DEF away, m
<1>7. cp \in Checkpoints /\ cp.base = op.cp.base /\ cp.managed = m /\ cp.pending = op.cp.pending
  BY <1>2, <1>5, RecordChanged
<1>8. Keeping(op, cp)
  BY <1>3, <1>4, <1>5, <1>6, <1>7 DEF Keeping, m
<1> DEFINE u == [op EXCEPT !.cp = cp]
<1>9. (Saves(cp) /\ Goes(u, <<>>)) \/ (SaveFails /\ Fails(u, "lost"))
  BY DEF Keep, m, away
<1> HIDE DEF cp
<1>10. Frame(op, u, cp, op.before, op.row, op.safe, op.fallback) /\ u.todo = op.todo
  <2>1. op.before \in Selections /\ op.row \in Records /\ op.safe \in BOOLEAN
    BY <1>2, OpIs
  <2> QED BY <1>2, <1>7, <2>1, NoSteps, Assigns, KeepsTodo
<1> HIDE DEF u
<1>11. u.cp = cp /\ u \in Ops
  BY <1>10 DEF Frame, Same
<1>12. CASE Saves(cp) /\ Goes(u, <<>>)
  <2>1. Pops(op, op', "keep", cp, op.before, op.row, op.safe, op.fallback)
    BY <1>1, <1>10, <1>12, PopsIs
  <2>2. op'.cp = cp
    BY <2>1 DEF Pops, Frame
  <2> QED BY <1>1, <1>8, <1>12, <2>1, <2>2 DEF KeepTo, Saves
<1>13. CASE SaveFails /\ Fails(u, "lost")
  <2>1. u.fallback => ~u.safe
    <3>1. op.fallback => ~op.safe
      BY <1>2 DEF AtStep, Planned, Stage
    <3> QED BY <1>10, <3>1 DEF Frame
  <2>2. Failing(u, op')
    BY <1>11, <1>13, <2>1, FailsIs
  <2>3. KeepingAs(op, u)
    BY <1>2, <1>8, <1>10, <1>11 DEF KeepingAs
  <2> QED BY <1>1, <1>11, <1>13, <2>2, <2>3 DEF SaveFails
<1> QED BY <1>9, <1>12, <1>13

LEMMA AimIs ==
  ASSUME Live, Aim
  PROVE  OnlyOp /\ Pops(op, op', "aim", op.cp, Head(op.todo).at, op.row, op.safe, FALSE)
<1>1. At("aim") /\ OnlyOp
  BY DEF Aim, OnlyOp
<1> DEFINE at == Head(op.todo).at u == [op EXCEPT !.before = at, !.fallback = FALSE]
<1>2. AtStep(op, "aim") /\ op \in Ops /\ at \in Selections
  BY <1>1, AtIs, StepIs DEF AtStep
<1>3. Frame(op, u, op.cp, at, op.row, op.safe, FALSE)
  <2> HIDE DEF at
  <2> QED BY <1>2 DEF Ops, Frame, Same
<1>4. Goes(u, <<>>)
  BY DEF Aim
<1> HIDE DEF u
<1> QED BY <1>1, <1>3, <1>4, PopsIs

LEMMA TwoSteps ==
  ASSUME NEW a \in StepSet, NEW b \in StepSet, Precedes(a.do, b.do)
  PROVE  <<a, b>> \in Seq(StepSet) /\ Steps(<<a, b>>) = {a, b} /\ Dos(<<a, b>>) = {a.do, b.do} /\ Sorted(<<a, b>>)
<1> DEFINE t == <<a, b>>
<1>1. t \in Seq(StepSet) /\ Len(t) = 2 /\ t[1] = a /\ t[2] = b
  OBVIOUS
<1> HIDE DEF t
<1>2. 1 .. Len(t) = {1, 2}
  BY <1>1
<1>3. Steps(t) = {a, b}
  BY <1>1, <1>2 DEF Steps
<1>4. Dos(t) = {a.do, b.do}
  BY <1>3 DEF Dos
<1>5. Sorted(t)
  <2> SUFFICES ASSUME NEW j \in 1 .. Len(t), NEW i \in 1 .. Len(t), i < j PROVE Precedes(t[i].do, t[j].do)
    BY DEF Sorted
  <2>1. i = 1 /\ j = 2
    BY <1>2
  <2> QED BY <1>1, <2>1
<1> QED BY <1>1, <1>3, <1>4, <1>5 DEF t

\* s before t.
LEMMA ThenSteps ==
  ASSUME NEW s \in Seq(StepSet), NEW t \in Seq(StepSet), Sorted(s), Sorted(t),
         \A a \in Dos(s), b \in Dos(t) : Precedes(a, b)
  PROVE  /\ s \o t \in Seq(StepSet) /\ Sorted(s \o t)
         /\ Steps(s \o t) = Steps(s) \cup Steps(t) /\ Dos(s \o t) = Dos(s) \cup Dos(t)
BY Joined, SortedJoined

\* Ids are renamed to that of the row made anew.
Remapped(o, b) ==
  LET old == o.cp.pending.previous.id IN
  /\ b \in Selections
  /\ \A s \in Scenes :
       /\ b.pref[s] = IF o.before.pref[s] = old THEN o.row.id ELSE o.before.pref[s]
       /\ b.file[s] = IF o.before.file[s] = old THEN o.row.id ELSE o.before.file[s]

LEMMA RemapIs ==
  ASSUME Live, Remap
  PROVE  /\ OnlyOp /\ Pops(op, op', "remap", op.cp, op'.before, op.row, op.safe, op.fallback)
         /\ Remapped(op, op'.before)
<1>1. At("remap") /\ OnlyOp
  BY DEF Remap, OnlyOp
<1>2. AtStep(op, "remap") /\ op \in Ops /\ op.row # None /\ op.row \in Records
  <2>1. AtStep(op, "remap")
    BY <1>1, AtIs
  <2> QED BY <1>1, <2>1, AtIs, RecordThere, OpIs
<1> DEFINE new(c) == IF c = op.cp.pending.previous.id THEN op.row.id ELSE c
           p == [s \in Scenes |-> new(op.before.pref[s])]
           f == [s \in Scenes |-> new(op.before.file[s])]
           b == [pref |-> p, file |-> f]
           u == [op EXCEPT !.before = b]
<1>3. op.row.id \in Ids
  BY <1>2, RecordIs
<1>4. op.before.pref \in [Scenes -> Preferences] /\ op.before.file \in [Scenes -> Ids \cup {Official, None}]
  BY <1>2, BeforeIs
<1>5. p \in [Scenes -> Preferences]
  BY <1>3, <1>4 DEF Preferences
<1>6. f \in [Scenes -> Ids \cup {Official, None}]
  BY <1>3, <1>4
<1>7. b \in Selections
  <2> HIDE DEF p, f
  <2> QED BY <1>5, <1>6 DEF Selections
<1>8. Remapped(op, b)
  BY <1>7 DEF Remapped
<1>9. Goes(u, <<>>)
  BY DEF Remap, Ops
<1> HIDE DEF b
<1>10. Frame(op, u, op.cp, b, op.row, op.safe, op.fallback)
  BY <1>2, <1>7 DEF Ops, Frame, Same
<1> HIDE DEF u
<1>11. Pops(op, op', "remap", op.cp, b, op.row, op.safe, op.fallback)
  BY <1>1, <1>9, <1>10, PopsIs
<1>12. op'.before = b
  BY <1>11 DEF Pops, Frame
<1> QED BY <1>1, <1>8, <1>11, <1>12

\* The rows that an interrupted first switch may have made.
CandidatesIn(a, p, S) ==
  IF p.created # None THEN S = {p.created.id} ELSE S = {i \in RowsOf(a) \ p.ids : a.rows[i] = p.add}

RestDos == {"prefer", "awaitbefore", "writebefore", "settle"}
NativeDos == {"prefer", "native", "writebefore", "settle"}
Plains(E) == {Do(d) : d \in E}

\* What recover_pending is to do with the journal p, where E are the names and
\* X the steps, and r the row it is to settle on.
UndoSteps(a, p, r, E, X) ==
  LET prev == p.previous IN
  \/ /\ prev # None /\ prev.id \in RowsOf(a) /\ a.rows[prev.id] = prev.input /\ r = prev
     /\ E = RestDos /\ X = Plains(RestDos)
  \/ /\ prev # None /\ prev.id \in RowsOf(a) /\ r = prev
     /\ E = RestDos \cup {"modify"} /\ X = Plains(RestDos) \cup {[do |-> "modify", id |-> prev.id, input |-> prev.input]}
  \/ /\ prev # None /\ prev.id \notin RowsOf(a)
     /\ p.created # None /\ p.created.id \in RowsOf(a) /\ a.rows[p.created.id] = prev.input /\ r = p.created
     /\ E = RestDos \cup {"remap"} /\ X = Plains(RestDos \cup {"remap"})
  \/ /\ prev # None /\ prev.id \notin RowsOf(a) /\ r = prev
     /\ E = RestDos \cup {"create", "remap"}
     /\ X = Plains(RestDos \cup {"remap"}) \cup {[do |-> "create", input |-> prev.input]}
  \/ prev = None /\ r = None /\ CandidatesIn(a, p, {}) /\ E = NativeDos /\ X = Plains(NativeDos)
  \/ /\ prev = None /\ r = None /\ E = NativeDos \cup {"delete"}
     /\ \E i \in Ids : CandidatesIn(a, p, {i}) /\ X = Plains(NativeDos) \cup {[do |-> "delete", id |-> i]}

UndoTo(a, o, q) ==
  /\ AtStep(o, "undo") /\ Frame(o, q, o.cp, o.cp.pending.before, q.row, o.safe, o.fallback)
  /\ \E s \in Seq(StepSet) :
       q.todo = s \o Tail(o.todo) /\ Sorted(s) /\ UndoSteps(a, o.cp.pending, q.row, Dos(s), Steps(s))

\* A plan that recover_pending may take up.
Plan(s, E, X) == s \in Seq(StepSet) /\ Sorted(s) /\ Dos(s) = E /\ Steps(s) = X

LEMMA PlainsJoin == ASSUME NEW E, NEW F PROVE Plains(E \cup F) = Plains(E) \cup Plains(F)
BY DEF Plains

LEMMA UndoPlans ==
  /\ Plan(RestPlan, RestDos, Plains(RestDos))
  /\ Plan(<<Do("remap")>> \o RestPlan, RestDos \cup {"remap"}, Plains(RestDos \cup {"remap"}))
  /\ \A id \in Ids, input \in Inputs :
       LET c == [do |-> "modify", id |-> id, input |-> input] IN
       Plan(<<c>> \o RestPlan, RestDos \cup {"modify"}, Plains(RestDos) \cup {c})
  /\ \A input \in Inputs :
       LET c == [do |-> "create", input |-> input] IN
       Plan(<<c, Do("remap")>> \o RestPlan, RestDos \cup {"create", "remap"}, Plains(RestDos \cup {"remap"}) \cup {c})
  /\ Plan(<<Do("prefer")>> \o <<>> \o NativePlan, NativeDos, Plains(NativeDos))
  /\ \A i \in Ids :
       LET c == [do |-> "delete", id |-> i] IN
       Plan(<<Do("prefer")>> \o <<c>> \o NativePlan, NativeDos \cup {"delete"}, Plains(NativeDos) \cup {c})
<1> DEFINE s == RestPlan n == NativePlan r == Do("remap") p == Do("prefer")
<1>1. s \in Seq(StepSet) /\ Sorted(s) /\ Dos(s) = RestDos /\ Steps(s) = Plains(RestDos)
  BY RestPlanIs DEF Plain, RestDos, Plains
<1>2. n \in Seq(StepSet) /\ Sorted(n) /\ Dos(n) = {"native", "writebefore", "settle"}
      /\ Steps(n) = Plains({"native", "writebefore", "settle"})
  BY NativePlanIs DEF Plain, Plains
<1>3. r \in StepSet /\ r.do = "remap" /\ p \in StepSet /\ p.do = "prefer"
  BY PlainStep DEF PlainDos
<1>4. Plains({"remap"}) = {r} /\ Plains({"prefer"}) = {p}
  BY DEF Plains
<1>5. NativeDos = {"prefer"} \cup {"native", "writebefore", "settle"}
  BY DEF NativeDos
<1>6. Plains(NativeDos) = {p} \cup Steps(n) /\ Plains(RestDos \cup {"remap"}) = {r} \cup Steps(s)
  BY <1>1, <1>2, <1>4, <1>5, PlainsJoin
<1>7. \A d \in RestDos : Precedes("remap", d) /\ Precedes("modify", d) /\ Precedes("create", d)
  BY Ranks DEF Precedes, RestDos
<1>8. Precedes("create", "remap") /\ Precedes("prefer", "delete")
      /\ \A d \in {"native", "writebefore", "settle"} : Precedes("prefer", d) /\ Precedes("delete", d)
  BY Ranks DEF Precedes
<1> HIDE DEF s, n, r, p
<1>9. Plan(s, RestDos, Plains(RestDos))
  BY <1>1 DEF Plan
<1>10. Plan(<<r>> \o s, RestDos \cup {"remap"}, Plains(RestDos \cup {"remap"}))
  <2>1. \A d \in Dos(s) : Precedes(r.do, d)
    BY <1>1, <1>3, <1>7
  <2>2. /\ <<r>> \o s \in Seq(StepSet) /\ Steps(<<r>> \o s) = {r} \cup Steps(s)
        /\ Dos(<<r>> \o s) = {r.do} \cup Dos(s) /\ Sorted(<<r>> \o s)
    BY <1>1, <1>3, <2>1, FirstStep, Zenon
  <2> QED BY <1>1, <1>3, <1>6, <2>2 DEF Plan
<1>11. ASSUME NEW id \in Ids, NEW input \in Inputs
       PROVE  LET c == [do |-> "modify", id |-> id, input |-> input] IN
              Plan(<<c>> \o s, RestDos \cup {"modify"}, Plains(RestDos) \cup {c})
  <2> DEFINE c == [do |-> "modify", id |-> id, input |-> input]
  <2>1. c \in StepSet /\ c.do = "modify"
    BY DEF StepSet
  <2> HIDE DEF c
  <2>2. \A d \in Dos(s) : Precedes(c.do, d)
    BY <1>1, <1>7, <2>1
  <2>3. Plan(<<c>> \o s, RestDos \cup {"modify"}, Plains(RestDos) \cup {c})
    BY <1>1, <2>1, <2>2, FirstStep DEF Plan
  <2> QED BY <2>3 DEF c
<1>12. ASSUME NEW input \in Inputs
       PROVE  LET c == [do |-> "create", input |-> input] IN
              Plan(<<c, r>> \o s, RestDos \cup {"create", "remap"}, Plains(RestDos \cup {"remap"}) \cup {c})
  <2> DEFINE c == [do |-> "create", input |-> input]
  <2>1. c \in StepSet /\ c.do = "create"
    BY DEF StepSet
  <2> HIDE DEF c
  <2> DEFINE t == <<c, r>>
  <2>2. t \in Seq(StepSet) /\ Steps(t) = {c, r} /\ Dos(t) = {"create", "remap"} /\ Sorted(t)
    BY <1>3, <1>8, <2>1, TwoSteps
  <2> HIDE DEF t
  <2>3. \A a \in Dos(t), b \in Dos(s) : Precedes(a, b)
    BY <1>1, <1>7, <2>2
  <2>4. /\ t \o s \in Seq(StepSet) /\ Sorted(t \o s)
        /\ Steps(t \o s) = Steps(t) \cup Steps(s) /\ Dos(t \o s) = Dos(t) \cup Dos(s)
    BY <1>1, <2>2, <2>3, ThenSteps
  <2>5. Plan(t \o s, RestDos \cup {"create", "remap"}, Plains(RestDos \cup {"remap"}) \cup {c})
    BY <1>1, <1>6, <2>2, <2>4 DEF Plan
  <2> QED BY <2>5 DEF c, t
<1>13. Plan(<<p>> \o <<>> \o n, NativeDos, Plains(NativeDos))
  <2>1. \A d \in Dos(n) : Precedes(p.do, d)
    BY <1>2, <1>3, <1>8
  <2>2. Plan(<<p>> \o n, NativeDos, Plains(NativeDos))
    BY <1>2, <1>3, <1>5, <1>6, <2>1, FirstStep DEF Plan
  <2>3. <<p>> \o <<>> = <<p>>
    <3>1. <<p>> \in Seq(StepSet)
      BY <1>3, OneStep
    <3> QED BY <3>1
  <2> QED BY <2>2, <2>3
<1>14. ASSUME NEW i \in Ids
       PROVE  LET c == [do |-> "delete", id |-> i] IN
              Plan(<<p>> \o <<c>> \o n, NativeDos \cup {"delete"}, Plains(NativeDos) \cup {c})
  <2> DEFINE c == [do |-> "delete", id |-> i]
  <2>1. c \in StepSet /\ c.do = "delete"
    BY DEF StepSet
  <2> HIDE DEF c
  <2> DEFINE t == <<p>> \o <<c>>
  <2>2. t \in Seq(StepSet) /\ Steps(t) = {p, c} /\ Dos(t) = {"prefer", "delete"} /\ Sorted(t)
    <3>1. <<c>> \in Seq(StepSet) /\ Steps(<<c>>) = {c} /\ Dos(<<c>>) = {"delete"} /\ Sorted(<<c>>)
      BY <2>1, OneStep
    <3>2. \A d \in Dos(<<c>>) : Precedes(p.do, d)
      BY <1>3, <1>8, <3>1
    <3>3. /\ t \in Seq(StepSet) /\ Steps(t) = {p} \cup Steps(<<c>>) /\ Dos(t) = {p.do} \cup Dos(<<c>>) /\ Sorted(t)
      BY <1>3, <3>1, <3>2, FirstStep, Zenon
    <3> HIDE DEF t
    <3> QED BY <1>3, <3>1, <3>3
  <2> HIDE DEF t
  <2>3. \A a \in Dos(t), b \in Dos(n) : Precedes(a, b)
    BY <1>2, <1>8, <2>2
  <2>4. /\ t \o n \in Seq(StepSet) /\ Sorted(t \o n)
        /\ Steps(t \o n) = Steps(t) \cup Steps(n) /\ Dos(t \o n) = Dos(t) \cup Dos(n)
    BY <1>2, <2>2, <2>3, ThenSteps
  <2>5. Plan(t \o n, NativeDos \cup {"delete"}, Plains(NativeDos) \cup {c})
    BY <1>2, <1>5, <1>6, <2>2, <2>4 DEF Plan
  <2> QED BY <2>5 DEF c, t
<1> QED BY <1>9, <1>10, <1>11, <1>12, <1>13, <1>14 DEF s, n, r, p

LEMMA UndoGoes ==
  ASSUME Live, At("undo"), NEW u, NEW r, NEW s, NEW E, NEW X, Goes(u, s), Plan(s, E, X),
         Frame(op, u, op.cp, op.cp.pending.before, r, op.safe, op.fallback),
         UndoSteps(account, op.cp.pending, r, E, X)
  PROVE  UndoTo(account, op, op')
<1>1. AtStep(op, "undo") /\ s \in Seq(StepSet)
  BY AtIs DEF Plan
<1>2. Frame(op, op', op.cp, op.cp.pending.before, r, op.safe, op.fallback) /\ op'.todo = s \o Tail(op.todo)
  BY <1>1, GoesOn
<1>3. op'.row = r
  BY <1>2 DEF Frame
<1> QED BY <1>1, <1>2, <1>3 DEF UndoTo, Plan

LEMMA OneRow ==
  ASSUME NEW i
  PROVE  {i} # {} /\ Cardinality({i}) = 1 /\ (CHOOSE j \in {i} : TRUE) = i
<1>1. Cardinality({i}) = 1
  BY FS_Singleton
<1> QED BY <1>1

LEMMA NoneToDelete == Deleting({}) = <<>>
<1>1. Cardinality({}) = 0
  BY FS_EmptySet
<1> QED BY <1>1 DEF Deleting

LEMMA UndoIs ==
  ASSUME Live, Undo
  PROVE  OnlyOp /\ (UndoTo(account, op, op') \/ Fails1(op, op', "undo"))
<1>1. At("undo") /\ OnlyOp
  BY DEF Undo, OnlyOp
<1>2. AtStep(op, "undo") /\ op \in Ops /\ op.cp \in Checkpoints /\ op.cp.pending \in Pendings /\ op.cp.pending # None
  <2>1. AtStep(op, "undo")
    BY <1>1, AtIs
  <2> QED BY <1>1, <2>1, AtIs, RecordThere DEF Changing
<1> DEFINE p == op.cp.pending
           prev == p.previous
           o == [op EXCEPT !.before = p.before, !.row = prev]
           created == [o EXCEPT !.row = p.created]
<1>3. p.before \in Selections /\ prev \in Records /\ p.created \in Records /\ p.ids \subseteq Ids
  BY <1>2, CheckpointIs
<1>4. Frame(op, o, op.cp, p.before, prev, op.safe, op.fallback)
  BY <1>2, <1>3 DEF Ops, Frame, Same
<1>5. Frame(op, created, op.cp, p.before, p.created, op.safe, op.fallback)
  <2> HIDE DEF o
  <2> QED BY <1>3, <1>4 DEF Ops, Frame, Same
<1>6. \/ /\ prev # None /\ prev.id \in Rows(account)
         /\ Goes(o, IF account.rows[prev.id] = prev.input THEN RestPlan
                    ELSE <<[do |-> "modify", id |-> prev.id, input |-> prev.input]>> \o RestPlan)
      \/ /\ prev # None /\ prev.id \notin Rows(account)
         /\ IF p.created # None /\ p.created.id \in Matching(prev.input)
              THEN Goes(created, <<Do("remap")>> \o RestPlan)
              ELSE Goes(o, <<[do |-> "create", input |-> prev.input], Do("remap")>> \o RestPlan)
      \/ prev = None /\ Goes(o, <<Do("prefer")>> \o Deleting(Candidates(p)) \o NativePlan)
  <2>1. <<Do("prefer")>> \o Deleting(Candidates(p)) \o <<Do("native"), Do("writebefore"), Do("settle")>>
          = <<Do("prefer")>> \o Deleting(Candidates(p)) \o NativePlan
    BY DEF NativePlan
  <2>2. Undo
    OBVIOUS
  <2> QED BY <2>1, <2>2 DEF Undo, RestPlan
<1>7. Rows(account) = RowsOf(account) /\ \A i, input : i \in Matching(input) <=> i \in RowsOf(account) /\ account.rows[i] = input
  BY DEF Rows, RowsOf, Matching
<1>8. prev # None => prev.id \in Ids /\ prev.input \in Inputs
  BY <1>3, RecordIs
<1> HIDE DEF o, created
<1>9. CASE prev # None /\ prev.id \in Rows(account) /\ account.rows[prev.id] = prev.input /\ Goes(o, RestPlan)
  <2> DEFINE E == RestDos X == Plains(RestDos)
  <2>1. UndoSteps(account, p, prev, E, X)
    BY <1>7, <1>9 DEF UndoSteps
  <2>2. Plan(RestPlan, E, X)
    BY UndoPlans
  <2> HIDE DEF E, X
  <2>3. UndoTo(account, op, op')
    BY <1>1, <1>4, <1>9, <2>1, <2>2, UndoGoes
  <2> QED BY <1>1, <2>3
<1>10. CASE /\ prev # None /\ prev.id \in Rows(account)
            /\ Goes(o, <<[do |-> "modify", id |-> prev.id, input |-> prev.input]>> \o RestPlan)
  <2> DEFINE c == [do |-> "modify", id |-> prev.id, input |-> prev.input]
             s == <<c>> \o RestPlan
             E == RestDos \cup {"modify"} X == Plains(RestDos) \cup {c}
  <2>1. UndoSteps(account, p, prev, E, X)
    BY <1>7, <1>10 DEF UndoSteps
  <2>2. Plan(s, E, X)
    BY <1>8, <1>10, UndoPlans
  <2>3. Goes(o, s)
    BY <1>10
  <2> HIDE DEF E, X, s
  <2>4. UndoTo(account, op, op')
    BY <1>1, <1>4, <2>1, <2>2, <2>3, UndoGoes
  <2> QED BY <1>1, <2>4
<1>11. CASE /\ prev # None /\ prev.id \notin Rows(account) /\ p.created # None /\ p.created.id \in Matching(prev.input)
            /\ Goes(created, <<Do("remap")>> \o RestPlan)
  <2> DEFINE s == <<Do("remap")>> \o RestPlan
             E == RestDos \cup {"remap"} X == Plains(RestDos \cup {"remap"})
  <2>1. UndoSteps(account, p, p.created, E, X)
    BY <1>7, <1>11 DEF UndoSteps
  <2>2. Plan(s, E, X)
    BY UndoPlans
  <2>3. Goes(created, s)
    BY <1>11
  <2> HIDE DEF E, X, s
  <2>4. UndoTo(account, op, op')
    BY <1>1, <1>5, <2>1, <2>2, <2>3, UndoGoes
  <2> QED BY <1>1, <2>4
<1>12. CASE /\ prev # None /\ prev.id \notin Rows(account)
            /\ Goes(o, <<[do |-> "create", input |-> prev.input], Do("remap")>> \o RestPlan)
  <2> DEFINE c == [do |-> "create", input |-> prev.input]
             s == <<c, Do("remap")>> \o RestPlan
             E == RestDos \cup {"create", "remap"} X == Plains(RestDos \cup {"remap"}) \cup {c}
  <2>1. UndoSteps(account, p, prev, E, X)
    BY <1>7, <1>12 DEF UndoSteps
  <2>2. Plan(s, E, X)
    BY <1>8, <1>12, UndoPlans
  <2>3. Goes(o, s)
    BY <1>12
  <2> HIDE DEF E, X, s
  <2>4. UndoTo(account, op, op')
    BY <1>1, <1>4, <2>1, <2>2, <2>3, UndoGoes
  <2> QED BY <1>1, <2>4
<1>13. CASE prev = None /\ Goes(o, <<Do("prefer")>> \o Deleting(Candidates(p)) \o NativePlan)
  <2> DEFINE C == Candidates(p)
  <2>1. C \in SUBSET Ids /\ CandidatesIn(account, p, C)
    <3>1. RowsOf(account) \in SUBSET Ids
      BY AccountIs DEF Live, Typed
    <3>2. p.created # None => p.created.id \in Ids
      BY <1>3, RecordIs
    <3> QED BY <1>7, <3>1, <3>2 DEF Candidates, CandidatesIn
  <2>2. C = {} \/ \E i \in Ids : C = {i}
    <3>1. \A i \in C, j \in C : i = j
      BY <1>7 DEF Candidates, Live, Typed, Distinct
    <3>2. CASE C # {}
      <4>1. PICK i \in C : TRUE
        BY <3>2
      <4> QED BY <2>1, <3>1, <4>1
    <3> QED BY <3>2
  <2> DEFINE s == <<Do("prefer")>> \o Deleting(C) \o NativePlan
  <2>3. Goes(o, s)
    BY <1>13
  <2> HIDE DEF C
  <2>4. CASE C = {}
    <3> DEFINE E == NativeDos X == Plains(NativeDos)
    <3>1. Deleting(C) = <<>>
      BY <2>4, NoneToDelete
    <3>2. Plan(s, E, X)
      BY <3>1, UndoPlans
    <3>3. UndoSteps(account, p, prev, E, X)
      BY <1>13, <2>1, <2>4 DEF UndoSteps
    <3> HIDE DEF E, X, s
    <3>4. UndoTo(account, op, op')
      BY <1>1, <1>4, <2>3, <3>2, <3>3, UndoGoes
    <3> QED BY <1>1, <3>4
  <2>5. ASSUME NEW i \in Ids, C = {i}
        PROVE  UndoTo(account, op, op')
    <3> DEFINE c == [do |-> "delete", id |-> i]
               E == NativeDos \cup {"delete"} X == Plains(NativeDos) \cup {c}
    <3>1. Deleting(C) = <<c>>
      <4>1. C # {} /\ Cardinality(C) = 1 /\ (CHOOSE j \in C : TRUE) = i
        BY <2>5, OneRow
      <4> QED BY <4>1 DEF Deleting
    <3>2. Plan(s, E, X)
      BY <3>1, UndoPlans
    <3>3. UndoSteps(account, p, prev, E, X)
      BY <1>13, <2>1, <2>5 DEF UndoSteps
    <3> HIDE DEF E, X, s
    <3> QED BY <1>1, <1>4, <2>3, <3>2, <3>3, UndoGoes
  <2> QED BY <1>1, <2>2, <2>4, <2>5
<1> QED BY <1>6, <1>9, <1>10, <1>11, <1>12, <1>13

\* A restore ends without a change or fails, ...
EndsTo(o, q, d) ==
  AtStep(o, "decide") /\ Frame(o, q, o.cp, o.before, o.row, o.safe, FALSE) /\ q.todo = <<Do(d)>>
\* ... or writes its journal and returns what was there before the first switch.
ReturnTo(a, f, o, q) ==
  /\ AtStep(o, "decide") /\ Frame(o, q, q.cp, o.cp.base, o.row, TRUE, FALSE) /\ q.todo = ReturnPlan
  /\ TakenOver(o.cp.managed) /\ Written(a, f, o.cp, q.cp, q.cp.pending.add)
  /\ q.cp.pending.add = IF q.cp.pending.previous = None THEN None ELSE q.cp.pending.previous.input
  /\ \A s \in Scenes :
       /\ o.cp.base.pref[s] # Empty => o.cp.base.pref[s] \in SelectableIn(a)
       /\ o.cp.base.pref[s] = Empty /\ a.pref[s] # Empty =>
            q.cp.pending.previous # None /\ q.cp.pending.previous.id = a.pref[s]

LEMMA DecideIs ==
  ASSUME Live, Decide
  PROVE  /\ AccountStays /\ RestStays
         /\ \/ saved' = saved /\ EndsTo(op, op', "commit") /\ ~TakenOver(op.cp.managed)
            \/ saved' = saved /\ EndsTo(op, op', "fail")
            \/ saved' = op'.cp /\ ReturnTo(account, file, op, op')
<1>1. At("decide") /\ AccountStays /\ RestStays
  BY DEF Decide, AccountStays, RestStays
<1>2. AtStep(op, "decide") /\ op \in Ops /\ op.cp \in Checkpoints /\ op.cp # None
  <2>1. AtStep(op, "decide")
    BY <1>1, AtIs
  <2> QED BY <1>1, <2>1, AtIs, RecordThere
<1>3. Tail(op.todo) = <<>>
  BY <1>2, DecidesLast
<1> DEFINE previous == Existing(op.cp)
           add == IF previous = None THEN None ELSE previous.input
           cp == Journalled(add)
           o == [op EXCEPT !.fallback = FALSE]
           u == [o EXCEPT !.cp = cp, !.safe = TRUE, !.before = op.cp.base]
<1>4. Frame(op, o, op.cp, op.before, op.row, op.safe, FALSE)
  BY <1>2 DEF Ops, Frame, Same
<1>5. \/ ~TakenOver(op.cp.managed) /\ Goes(o, <<Do("commit")>>) /\ saved' = saved
      \/ Goes(o, <<Do("fail")>>) /\ saved' = saved
      \/ TakenOver(op.cp.managed) /\ Restorable(op.cp.base, previous) /\ Saves(cp) /\ Goes(u, ReturnPlan)
  BY DEF Decide, ReturnPlan, SaveFails
<1>6. ASSUME NEW d \in {"commit", "fail"}, Goes(o, <<Do(d)>>)
      PROVE  EndsTo(op, op', d)
  <2> DEFINE s == <<Do(d)>>
  <2>1. s \in Seq(StepSet)
    <3>1. Do(d) \in StepSet
      BY PlainStep DEF PlainDos
    <3> QED BY <3>1, OneStep
  <2>2. Goes(o, s)
    BY <1>6
  <2> HIDE DEF s, o
  <2>3. Frame(op, op', op.cp, op.before, op.row, op.safe, FALSE) /\ op'.todo = s \o Tail(op.todo)
    BY <1>2, <1>4, <2>1, <2>2, GoesOn
  <2>4. op'.todo = s
    <3>1. s \o <<>> = s
      BY <2>1
    <3> QED BY <1>3, <2>3, <3>1
  <2> QED BY <1>2, <2>3, <2>4 DEF EndsTo, s
<1>7. CASE TakenOver(op.cp.managed) /\ Restorable(op.cp.base, previous) /\ Saves(cp) /\ Goes(u, ReturnPlan)
  <2>1. ReadRow(account, op.cp.managed, previous)
    BY <1>2, ExistingIs
  <2>2. add \in Inputs \cup {None}
    BY <2>1, RecordIs DEF ReadRow
  <2>3. Written(account, file, op.cp, cp, add)
    <3> HIDE DEF add
    <3> QED BY <1>2, <2>2, JournalledIs
  <2>4. cp.pending.previous = previous /\ cp.pending.add = add
    <3> DEFINE p == [before |-> Selection, previous |-> previous, ids |-> Rows(account), add |-> add, created |-> None]
    <3>1. cp = [op.cp EXCEPT !.pending = p]
      BY DEF Journalled
    <3> HIDE DEF p
    <3>2. cp.pending = p
      BY <1>2, <3>1 DEF Checkpoints
    <3> QED BY <3>2 DEF p
  <2>5. cp \in Checkpoints
    BY <2>3 DEF Written
  <2>6. op.cp.base \in Selections
    BY <1>2, CheckpointIs
  <2>7. Frame(op, u, cp, op.cp.base, op.row, TRUE, FALSE)
    <3> HIDE DEF o, cp
    <3> QED BY <1>4, <2>5, <2>6 DEF Ops, Frame, Same
  <2>8. ReturnPlan \in Seq(StepSet)
    BY ReturnPlanIs DEF Plain
  <2>9. Goes(u, ReturnPlan)
    BY <1>7
  <2>10. \A s \in Scenes :
           /\ op.cp.base.pref[s] # Empty => op.cp.base.pref[s] \in SelectableIn(account)
           /\ op.cp.base.pref[s] = Empty /\ account.pref[s] # Empty => previous # None /\ previous.id = account.pref[s]
    BY <1>7 DEF Restorable, Selectable, SelectableIn, Rows, RowsOf
  <2> HIDE DEF u, cp, previous
  <2>11. Frame(op, op', cp, op.cp.base, op.row, TRUE, FALSE) /\ op'.todo = ReturnPlan \o Tail(op.todo)
    BY <1>2, <2>7, <2>8, <2>9, GoesOn
  <2>12. op'.todo = ReturnPlan
    BY <1>3, <2>8, <2>11
  <2>13. op'.cp = cp
    BY <2>11 DEF Frame
  <2>14. saved' = op'.cp
    BY <1>7, <2>13 DEF Saves
  <2>15. ReturnTo(account, file, op, op')
    BY <1>2, <1>7, <2>3, <2>4, <2>10, <2>11, <2>12, <2>13 DEF ReturnTo
  <2> QED BY <1>1, <2>14, <2>15
<1> QED BY <1>1, <1>5, <1>6, <1>7

LEMMA FailedIs ==
  ASSUME Live, Failed
  PROVE  /\ OnlyOp /\ AtStep(op, "fail") /\ Frame(op, op', op.cp, op.before, op.row, op.safe, op.fallback)
         /\ op'.todo = <<Do("failed")>>
<1>1. At("fail") /\ OnlyOp /\ op' = [op EXCEPT !.todo = <<Do("failed")>>]
  BY DEF Failed, OnlyOp
<1>2. AtStep(op, "fail") /\ op \in Ops
  BY <1>1, AtIs
<1> DEFINE s == <<Do("failed")>>
<1>3. s \in Seq(StepSet)
  <2>1. Do("failed") \in StepSet
    BY PlainStep DEF PlainDos
  <2> QED BY <2>1, OneStep
<1>4. op' = [op EXCEPT !.todo = s]
  BY <1>1
<1> HIDE DEF s
<1>5. Frame(op, op', op.cp, op.before, op.row, op.safe, op.fallback) /\ op'.todo = s
  BY <1>2, <1>3, <1>4 DEF Ops, Frame, Same
<1> QED BY <1>1, <1>2, <1>5 DEF s

BindingOK == binding \in Inputs \cup {None}

\* q is a new operation with the record cp, ...
Started1(a, f, sv, q, call, cp) ==
  /\ q \in Ops /\ q.call = call /\ q.cp = cp /\ Read(a, f, q.before) /\ q.row = None /\ ~q.safe
  /\ q.start.account = a /\ q.start.saved = sv
\* ... which is the one on file, if there is one, ...
OnFile(a, f, sv, cp) ==
  IF sv # None THEN cp = sv
  ELSE cp \in Checkpoints /\ cp.managed = None /\ cp.pending = None /\ Read(a, f, cp.base)
\* ... and begins with the recovery of what is pending.
First(cp, s) == IF cp.pending = None THEN s = <<>> ELSE s = Recovery

SwitchTo(a, f, sv, q) ==
  /\ Started1(a, f, sv, q, "switch", q.cp) /\ OnFile(a, f, sv, q.cp)
  /\ q.want \in Inputs /\ ~q.fallback
  /\ \E s \in {<<>>, Recovery} : First(q.cp, s) /\ q.todo = s \o ForwardPlan

Journalling(cp) == cp.pending # None /\ cp.pending.previous # None /\ cp.pending.add # None
RestoreTo(a, f, sv, q) ==
  \/ Started1(a, f, sv, q, "restore", None) /\ sv = None /\ ~q.fallback /\ q.todo = <<Do("commit")>>
  \/ /\ Started1(a, f, sv, q, "restore", sv) /\ sv # None
     /\ q.fallback <=> Journalling(sv)
     /\ q.fallback => q.instead = Finishing(sv.pending.before)
     /\ IF Journalling(sv) /\ sv.pending.previous.id \notin RowsOf(a) THEN q.todo = Finishing(sv.pending.before)
        ELSE \E s \in {<<>>, Recovery} : First(sv, s) /\ q.todo = s \o <<Do("decide")>>

LEMMA LoadedIs ==
  ASSUME Live
  PROVE  Loaded \in Checkpoints /\ OnFile(account, file, saved, Loaded)
<1>1. saved \in Checkpoints \cup {None}
  BY DEF Live, Typed
<1>2. CASE saved # None
  BY <1>1, <1>2 DEF Loaded, OnFile
<1>3. CASE saved = None
  <2> DEFINE b == Selection
  <2>1. Read(account, file, b) /\ b \in Selections
    BY SelectionIs DEF Read
  <2>2. Loaded = [base |-> b, managed |-> None, pending |-> None]
    BY <1>3 DEF Loaded
  <2> HIDE DEF b
  <2>3. Loaded \in Checkpoints /\ Loaded.base = b /\ Loaded.managed = None /\ Loaded.pending = None
    BY <2>1, <2>2 DEF Checkpoints, Records
  <2> QED BY <1>3, <2>1, <2>3 DEF OnFile
<1> QED BY <1>2, <1>3

LEMMA RecoveryIs ==
  ASSUME NEW s \in {<<>>, Recovery}
  PROVE  s \in Seq(StepSet)
<1>1. Do("undo") \in StepSet
  BY PlainStep DEF PlainDos
<1> QED BY <1>1, OneStep, NoSteps DEF Recovery

LEMMA SwitchBeginsIs ==
  ASSUME Live, BindingOK, NEW input \in Inputs, SwitchBegins(input)
  PROVE  /\ Resting /\ account' = account /\ file' = file
         /\ native' = (IF native = None THEN Selection ELSE native)
         /\ saved' = op'.cp /\ SwitchTo(account, file, saved, op')
<1> DEFINE cp == Loaded
           s == Interrupted(cp)
           t == s \o ForwardPlan
           b == Selection
<1>1. cp \in Checkpoints /\ OnFile(account, file, saved, cp)
  BY LoadedIs
<1>2. Read(account, file, b) /\ b \in Selections
  BY SelectionIs DEF Read
<1>3. s \in {<<>>, Recovery} /\ First(cp, s)
  BY DEF Interrupted, First
<1>4. t \in Seq(StepSet)
  <2>1. ForwardPlan \in Seq(StepSet) /\ s \in Seq(StepSet)
    BY <1>3, ForwardPlanIs, RecoveryIs DEF Plain
  <2> HIDE DEF s
  <2> QED BY <2>1
<1>5. /\ Resting /\ account' = account /\ file' = file /\ saved' = cp
      /\ native' = (IF native = None THEN b ELSE native)
      /\ Begins("switch", input, cp, t)
  BY DEF SwitchBegins, CanCall, ForwardPlan
<1> HIDE DEF cp, t, b
<1>6. op' = [call |-> "switch", want |-> input, cp |-> cp, bound |-> binding, before |-> b,
             start |-> [account |-> account, saved |-> saved], row |-> None, safe |-> FALSE, fallback |-> FALSE,
             instead |-> <<>>, todo |-> t]
  BY <1>5 DEF Begins, b
<1>7. account \in Accounts /\ saved \in Checkpoints \cup {None}
  BY DEF Live, Typed
<1>8. <<>> \in Seq(StepSet)
  BY NoSteps
<1> DEFINE st == [account |-> account, saved |-> saved]
<1>9. st \in [account : Accounts, saved : Checkpoints \cup {None}] /\ st.account = account /\ st.saved = saved
  BY <1>7
<1>10. op' = [call |-> "switch", want |-> input, cp |-> cp, bound |-> binding, before |-> b,
              start |-> st, row |-> None, safe |-> FALSE, fallback |-> FALSE, instead |-> <<>>, todo |-> t]
  BY <1>6
<1> HIDE DEF st
<1>11. op' \in Ops
  BY <1>1, <1>2, <1>4, <1>8, <1>9, <1>10 DEF Ops, Records, BindingOK
<1>12. /\ op'.call = "switch" /\ op'.cp = cp /\ op'.before = b /\ op'.row = None /\ ~op'.safe /\ op'.start = st
       /\ op'.want = input /\ ~op'.fallback /\ op'.todo = t
  BY <1>10
<1>13. Started1(account, file, saved, op', "switch", cp)
  BY <1>2, <1>9, <1>11, <1>12 DEF Started1
<1> QED BY <1>1, <1>3, <1>5, <1>12, <1>13 DEF SwitchTo, t, b

LEMMA RestoreBeginsIs ==
  ASSUME Live, BindingOK, RestoreBegins
  PROVE  Resting /\ OnlyOp /\ RestoreTo(account, file, saved, op')
<1> DEFINE b == Selection
           st == [account |-> account, saved |-> saved]
<1>1. Resting /\ OnlyOp
  BY DEF RestoreBegins, CanCall, OnlyOp
<1>2. Read(account, file, b) /\ b \in Selections
  BY SelectionIs DEF Read
<1>3. account \in Accounts /\ saved \in Checkpoints \cup {None}
  BY DEF Live, Typed
<1>4. st \in [account : Accounts, saved : Checkpoints \cup {None}] /\ st.account = account /\ st.saved = saved
  BY <1>3
<1>5. <<>> \in Seq(StepSet)
  BY NoSteps
<1>6. CASE saved = None
  <2> DEFINE t == <<Do("commit")>>
  <2>1. op' = [call |-> "restore", want |-> None, cp |-> None, bound |-> binding, before |-> b,
               start |-> st, row |-> None, safe |-> FALSE, fallback |-> FALSE, instead |-> <<>>, todo |-> t]
    BY <1>6 DEF RestoreBegins, Begins
  <2>2. t \in Seq(StepSet)
    <3>1. Do("commit") \in StepSet
      BY PlainStep DEF PlainDos
    <3> QED BY <3>1, OneStep
  <2> HIDE DEF t, st, b
  <2>3. op' \in Ops
    BY <1>2, <1>4, <1>5, <2>1, <2>2 DEF Ops, Records, BindingOK
  <2>4. /\ op'.call = "restore" /\ op'.cp = None /\ op'.before = b /\ op'.row = None /\ ~op'.safe /\ op'.start = st
        /\ ~op'.fallback /\ op'.todo = t
    BY <2>1
  <2> QED BY <1>1, <1>2, <1>4, <1>6, <2>3, <2>4 DEF RestoreTo, Started1, t
<1>7. CASE saved # None
  <2> DEFINE p == saved.pending
             journal == p # None /\ p.previous # None /\ p.add # None
             instead == IF journal THEN Finishing(p.before) ELSE <<>>
             s == Interrupted(saved)
             away == journal /\ p.previous.id \notin Rows(account)
             t == IF away THEN Finishing(p.before) ELSE s \o <<Do("decide")>>
  <2>1. op' = [call |-> "restore", want |-> None, cp |-> saved, bound |-> binding, before |-> b,
               start |-> st, row |-> None, safe |-> FALSE, fallback |-> journal, instead |-> instead, todo |-> t]
    BY <1>7 DEF RestoreBegins
  <2>2. journal = Journalling(saved) /\ journal \in BOOLEAN
    BY DEF Journalling
  <2>3. journal => Finishing(p.before) \in Seq(StepSet)
    BY <1>3, <1>7, FinishingIs, CheckpointIs
  <2>4. s \in {<<>>, Recovery} /\ First(saved, s)
    BY DEF Interrupted, First
  <2>5. s \o <<Do("decide")>> \in Seq(StepSet)
    <3>1. Do("decide") \in StepSet
      BY PlainStep DEF PlainDos
    <3>2. <<Do("decide")>> \in Seq(StepSet) /\ s \in Seq(StepSet)
      BY <2>4, <3>1, OneStep, RecoveryIs
    <3> HIDE DEF s
    <3> QED BY <3>2, Joined
  <2>6. instead \in Seq(StepSet) /\ t \in Seq(StepSet) /\ (journal => instead = Finishing(p.before))
    BY <1>5, <2>3, <2>5
  <2>7. /\ away <=> Journalling(saved) /\ saved.pending.previous.id \notin RowsOf(account)
        /\ away => t = Finishing(p.before)
        /\ ~away => t = s \o <<Do("decide")>>
    BY DEF Journalling, Rows, RowsOf
  <2> HIDE DEF journal, instead, t, s, st, b, away
  <2>8. op' \in Ops
    BY <1>2, <1>3, <1>4, <2>1, <2>2, <2>6 DEF Ops, Records, BindingOK
  <2>9. /\ op'.call = "restore" /\ op'.cp = saved /\ op'.before = b /\ op'.row = None /\ ~op'.safe /\ op'.start = st
        /\ op'.fallback = journal /\ op'.instead = instead /\ op'.todo = t
    BY <2>1
  <2>10. Started1(account, file, saved, op', "restore", saved)
    BY <1>2, <1>4, <2>8, <2>9 DEF Started1
  <2>11. (op'.fallback <=> Journalling(saved)) /\ (op'.fallback => op'.instead = Finishing(saved.pending.before))
    BY <2>2, <2>6, <2>9
  <2>12. IF Journalling(saved) /\ saved.pending.previous.id \notin RowsOf(account) THEN op'.todo = Finishing(saved.pending.before)
         ELSE \E x \in {<<>>, Recovery} : First(saved, x) /\ op'.todo = x \o <<Do("decide")>>
    BY <2>4, <2>7, <2>9
  <2> QED BY <1>1, <1>7, <2>10, <2>11, <2>12 DEF RestoreTo
<1> QED BY <1>6, <1>7

-----------------------------------------------------------------------------
(* Types: every action leaves an operation whose plan agrees with it *)

Good(q) == q \in Ops /\ Planned(q)

LEMMA PlainlyPlanned ==
  ASSUME NEW o, NEW q, NEW h, Plainly(o, q, h), h \notin {"journal", "row", "create", "undo"}
  PROVE  Good(q)
<1>1. AtStep(o, h) /\ Same(o, q) /\ q.todo = <<>> \o Tail(o.todo) /\ q.cp = o.cp /\ q.row = o.row
      /\ q.safe = o.safe /\ q.fallback = o.fallback
  BY DEF Plainly, Pops, Frame
<1>2. SameFlags(o, q) /\ SamePlans(o, q)
  BY <1>1 DEF SameFlags, SamePlans
<1>3. Planned(q)
  BY <1>1, <1>2, PopsPlanned
<1> QED BY <1>1, <1>3 DEF Good, Same

LEMMA JournalPlanned ==
  ASSUME NEW a, NEW f, NEW o, NEW q, JournalTo(a, f, o, q)
  PROVE  Good(q) /\ q.cp \in Checkpoints /\ q.cp # None
<1>1. AtStep(o, "journal") /\ Same(o, q) /\ q.todo = <<>> \o Tail(o.todo) /\ q.row = o.row
      /\ q.safe /\ q.fallback = o.fallback
  BY DEF JournalTo, Pops, Frame
<1>2. q.cp \in Checkpoints /\ q.cp.pending \in Pendings
  BY DEF JournalTo, Written
<1>3. q.cp # None /\ q.cp.pending # None
  BY <1>2, ImaAssumption
<1>4. Planned(q)
  BY <1>1, <1>3, JournalPops
<1> QED BY <1>1, <1>2, <1>3, <1>4 DEF Good, Same

LEMMA RowPlanned ==
  ASSUME NEW o, NEW q, RowTo(o, q)
  PROVE  Good(q)
<1>1. AtStep(o, "row") /\ Same(o, q) /\ q.todo = <<>> \o Tail(o.todo) /\ q.cp = o.cp /\ q.row # None
      /\ q.safe = o.safe /\ q.fallback = o.fallback
  BY DEF RowTo, Pops, Frame
<1>2. SameFlags(o, q) /\ SamePlans(o, q)
  BY <1>1 DEF SameFlags, SamePlans
<1>3. Planned(q)
  BY <1>1, <1>2, PopsPlanned
<1> QED BY <1>1, <1>3 DEF Good, Same

\* What is noted leaves the plan as it is.
LEMMA NotesPlans ==
  ASSUME NEW a, NEW o, NEW q, NEW r, NEW input, AtStep(o, "create"), Notes(a, o, q.cp, r, input)
  PROVE  SamePlans(o, q) /\ q.cp # None /\ q.cp \in Checkpoints
<1>1. o.cp # None /\ o.cp.pending # None
  BY RecordThere DEF Changing
<1>2. q.cp \in Checkpoints /\ q.cp.pending # None /\ SamePending(q.cp.pending, o.cp.pending)
  BY DEF Notes
<1>3. q.cp # None
  BY <1>2, ImaAssumption
<1> QED BY <1>1, <1>2, <1>3 DEF SamePlans, SamePending

LEMMA FoundPlanned ==
  ASSUME NEW a, NEW o, NEW q, FoundTo(a, o, q)
  PROVE  Good(q) /\ q.cp \in Checkpoints
<1>1. AtStep(o, "create") /\ Same(o, q) /\ q.todo = <<>> \o Tail(o.todo)
      /\ q.safe = o.safe /\ q.fallback = o.fallback
  BY DEF FoundTo, Pops, Frame
<1>2. SameFlags(o, q)
  BY <1>1 DEF SameFlags
<1>3. SamePlans(o, q) /\ q.cp \in Checkpoints
  BY <1>1, NotesPlans DEF FoundTo
<1>4. q.row # None /\ q.cp.managed = o.cp.managed
  BY DEF FoundTo, Notes
<1>5. Planned(q)
  BY <1>1, <1>2, <1>3, <1>4, PopsPlanned
<1> QED BY <1>1, <1>3, <1>5 DEF Good, Same

\* Only the record in memory changed.
LEMMA RecordPlanned ==
  ASSUME NEW o, NEW u, o \in Ops, Planned(o), Frame(o, u, u.cp, o.before, o.row, o.safe, o.fallback), u.todo = o.todo,
         SamePlans(o, u), o.cp # None => u.cp.managed = o.cp.managed \/ (u.cp.managed # None \/ o.call = "switch")
  PROVE  Good(u)
<1>1. Shape(o) /\ Stage(o) /\ Record(o) /\ Sorted(o.todo) /\ \A s \in Steps(o.todo) : Made(o, s)
  BY DEF Planned
<1>2. Same(o, u) /\ u.before = o.before /\ u.row = o.row /\ u.safe = o.safe /\ u.fallback = o.fallback
  BY DEF Frame
<1>3. Shape(u)
  BY <1>1, <1>2 DEF Shape, Same
<1>4. Stage(u)
  BY <1>1, <1>2 DEF Stage, Same
<1>5. Record(u)
  BY <1>1, <1>2 DEF Record, SamePlans, Same, Has, Only, Changing
<1>6. \A s \in Steps(o.todo) : s.do \in {"create", "modify"} => o.cp # None /\ o.cp.pending # None
  BY <1>1 DEF Record, Has, Changing, Only, Dos
<1>7. \A s \in Steps(u.todo) : Made(u, s)
  BY <1>1, <1>2, <1>6 DEF Made, SamePlans, Same
<1> QED BY <1>1, <1>2, <1>3, <1>4, <1>5, <1>7 DEF Good, Planned, Same

LEMMA NotingPlanned ==
  ASSUME NEW a, NEW o, NEW u, Noting(a, o, u)
  PROVE  Good(u) /\ u.todo # <<>> /\ u.cp \in Checkpoints
<1>1. AtStep(o, "create") /\ Frame(o, u, u.cp, o.before, o.row, o.safe, o.fallback) /\ u.todo = o.todo
  BY DEF Noting
<1>2. PICK r \in Records : Notes(a, o, u.cp, r, Head(o.todo).input)
  BY DEF Noting
<1>3. SamePlans(o, u) /\ u.cp.managed = o.cp.managed /\ u.cp \in Checkpoints
  <2>1. SamePlans(o, u) /\ u.cp \in Checkpoints
    BY <1>1, <1>2, NotesPlans
  <2> QED BY <1>2, <2>1 DEF Notes
<1> QED BY <1>1, <1>3, RecordPlanned DEF AtStep

LEMMA KeepingPlanned ==
  ASSUME NEW o, NEW u, KeepingAs(o, u)
  PROVE  Good(u) /\ u.todo # <<>>
<1>1. AtStep(o, "keep") /\ Frame(o, u, u.cp, o.before, o.row, o.safe, o.fallback) /\ u.todo = o.todo /\ Keeping(o, u.cp)
  BY DEF KeepingAs
<1>2. o.cp # None
  BY <1>1, RecordThere
<1>3. u.cp # None /\ u.cp.pending = o.cp.pending /\ (u.cp.managed # None \/ o.call = "switch")
  BY <1>1, ImaAssumption DEF Keeping
<1>4. SamePlans(o, u)
  BY <1>2, <1>3 DEF SamePlans
<1> QED BY <1>1, <1>3, <1>4, RecordPlanned DEF AtStep

LEMMA KeepPlanned ==
  ASSUME NEW o, NEW q, KeepTo(o, q)
  PROVE  Good(q) /\ q.cp \in Checkpoints
<1>1. AtStep(o, "keep") /\ Same(o, q) /\ q.todo = <<>> \o Tail(o.todo) /\ q.row = o.row
      /\ q.safe = o.safe /\ q.fallback = o.fallback /\ Keeping(o, q.cp)
  BY DEF KeepTo, Pops, Frame
<1>2. o.cp # None
  BY <1>1, RecordThere
<1>3. q.cp # None /\ q.cp.pending = o.cp.pending /\ q.cp \in Checkpoints
  BY <1>1, ImaAssumption DEF Keeping
<1>4. SamePlans(o, q) /\ SameFlags(o, q)
  BY <1>1, <1>2, <1>3 DEF SamePlans, SameFlags
<1>5. Planned(q)
  BY <1>1, <1>4, PopsPlanned
<1> QED BY <1>1, <1>3, <1>5 DEF Good, Same

LEMMA DonePlanned ==
  ASSUME NEW o, NEW q, NEW h \in {"clear", "settle", "forget"}, NEW m, DoneTo(o, q, h, m)
  PROVE  Good(q) /\ q.cp \in Checkpoints
<1>1. AtStep(o, h) /\ Same(o, q) /\ q.todo = <<>> \o Tail(o.todo) /\ q.row = o.row
      /\ q.safe = o.safe /\ q.fallback = o.fallback
  BY DEF DoneTo, Pops, Frame
<1>2. q.cp \in Checkpoints /\ q.cp.pending = None
  BY DEF DoneTo
<1>3. SameFlags(o, q) /\ q.cp # None
  BY <1>1, <1>2, ImaAssumption DEF SameFlags
<1>4. Planned(q)
  BY <1>1, <1>2, <1>3, Clears
<1> QED BY <1>1, <1>2, <1>4 DEF Good, Same

LEMMA FailingPlanned ==
  ASSUME NEW o, NEW q, o \in Ops, Planned(o), o.todo # <<>>, Failing(o, q)
  PROVE  Good(q)
BY FailsPlanned DEF Good, Failing, Same

LEMMA Fails1Planned ==
  ASSUME NEW o, NEW q, NEW h, Fails1(o, q, h)
  PROVE  Good(q)
BY FailingPlanned DEF Fails1, AtStep

LEMMA CreatePlanned ==
  ASSUME NEW o, NEW q, CreateTo(o, q)
  PROVE  Good(q)
<1> DEFINE c == [do |-> "create", input |-> o.want]
           E == {"create"} X == {c}
<1>1. AtStep(o, "row") /\ Same(o, q) /\ q.todo = <<c>> \o Tail(o.todo) /\ q.cp = o.cp /\ q.row = o.row
      /\ q.safe = o.safe /\ q.fallback = o.fallback
  BY DEF CreateTo, Frame
<1>2. o.want \in Inputs
  <2>1. o.call = "switch"
    BY <1>1, RecordThere DEF SwitchDos
  <2> QED BY <1>1, <2>1 DEF AtStep, Planned, Shape
<1>3. c \in StepSet /\ c.do = "create"
  BY <1>2 DEF StepSet
<1>4. \A d \in Dos(Tail(o.todo)) : Rank["row"] < Rank[d]
  BY <1>1, RestIs DEF Rest
<1>5. \A d \in Dos(Tail(o.todo)) : Precedes("create", d)
  <2> TAKE d \in Dos(Tail(o.todo))
  <2>1. d \in AllDos /\ Rank["row"] < Rank[d]
    BY <1>1, <1>4, Later
  <2>2. Rank[d] \in Nat
    BY <2>1, Ranks DEF AllDos, PlainDos
  <2> QED BY <2>1, <2>2, Ranks DEF Precedes
<1>6. <<c>> \in Seq(StepSet) /\ Sorted(<<c>>) /\ Dos(<<c>>) = E /\ Steps(<<c>>) = X
  <2> HIDE DEF c
  <2> QED BY <1>3, OneStep
<1>7. Replaced(o, q, <<c>>, E, X)
  <2> HIDE DEF c
  <2> QED BY <1>1, <1>5, <1>6 DEF Replaced
<1>8. SameFlags(o, q)
  BY <1>1 DEF SameFlags
<1>9. Planned(q)
  BY <1>1, <1>7, <1>8, Creates
<1> QED BY <1>1, <1>9 DEF Good, Same

\* The ranks of what sets and awaits preferences.
LEMMA ChoosingRanks ==
  ASSUME NEW o, NEW h, AtStep(o, h), NEW d \in Dos(Tail(o.todo))
  PROVE  /\ h \in {"select", "prefer", "native"} => Precedes("set", d)
         /\ h = "native" => Precedes("awaittargets", d)
         /\ h = "undo" => Precedes("undo", d)
<1>1. d \in AllDos /\ (Rank[h] < Rank[d] \/ (d = h /\ h \in {"set", "awaittargets"}))
  BY RestIs DEF Rest
<1>2. Rank[d] \in Nat
  BY <1>1, Ranks DEF AllDos, PlainDos
<1>3. h = "select" => Precedes("set", d)
  BY <1>1, <1>2, Ranks DEF Precedes
<1>4. h = "prefer" => Precedes("set", d)
  <2> SUFFICES ASSUME h = "prefer" PROVE Precedes("set", d)
    OBVIOUS
  <2>1. 4 < Rank[d]
    BY <1>1, Ranks
  <2>2. Rank[d] = 5 => d = "set"
    BY <1>1, Ranks DEF AllDos, PlainDos
  <2> QED BY <1>2, <2>1, <2>2, Ranks DEF Precedes
<1>5. h = "native" => Precedes("set", d) /\ Precedes("awaittargets", d)
  <2> SUFFICES ASSUME h = "native" PROVE Precedes("set", d) /\ Precedes("awaittargets", d)
    OBVIOUS
  <2>1. 8 < Rank[d]
    BY <1>1, Ranks
  <2>2. Rank[d] = 9 => d = "awaittargets"
    BY <1>1, Ranks DEF AllDos, PlainDos
  <2> QED BY <1>2, <2>1, <2>2, Ranks DEF Precedes
<1>6. h = "undo" => Precedes("undo", d)
  BY <1>1, Ranks DEF Precedes
<1> QED BY <1>3, <1>4, <1>5, <1>6

LEMMA SetsPlanned ==
  ASSUME NEW a, NEW o, NEW q, NEW h \in {"select", "prefer"}, NEW to, SetsTo(a, o, q, h, to)
  PROVE  Good(q)
<1>1. AtStep(o, h) /\ Same(o, q) /\ q.cp = o.cp /\ q.row = o.row /\ q.safe = o.safe /\ q.fallback = o.fallback
  BY DEF SetsTo, Frame
<1>2. PICK s \in Seq(StepSet) : Sets(a, to, s) /\ q.todo = s \o Tail(o.todo)
  BY DEF SetsTo
<1> DEFINE E == Dos(s) X == Steps(s)
<1>3. Sorted(s) /\ E \subseteq {"set"}
  BY <1>2 DEF Sets
<1>4. \A d \in Dos(Tail(o.todo)) : Precedes("set", d)
  BY <1>1, ChoosingRanks
<1>5. Replaced(o, q, s, E, X)
  BY <1>2, <1>3, <1>4 DEF Replaced
<1>6. SameFlags(o, q)
  BY <1>1 DEF SameFlags
<1> HIDE DEF E, X
<1>7. Planned(q)
  BY <1>1, <1>3, <1>5, <1>6, Chooses
<1> QED BY <1>1, <1>7 DEF Good, Same

LEMMA NativesJoin ==
  ASSUME NEW a, NEW to \in Targets, NEW s, Sets(a, to, s), NEW w, w = [do |-> "awaittargets", to |-> to]
  PROVE  /\ s \o <<w>> \in Seq(StepSet) /\ Sorted(s \o <<w>>)
         /\ Steps(s \o <<w>>) = Steps(s) \cup {w} /\ Dos(s \o <<w>>) = Dos(s) \cup {"awaittargets"}
         /\ w \in StepSet /\ w.do = "awaittargets" /\ w.to = to
<1>1. w \in StepSet /\ w.do = "awaittargets" /\ w.to = to
  BY DEF StepSet
<1>2. <<w>> \in Seq(StepSet) /\ Steps(<<w>>) = {w} /\ Dos(<<w>>) = {"awaittargets"} /\ Sorted(<<w>>)
  BY <1>1, OneStep
<1>3. s \in Seq(StepSet) /\ Sorted(s) /\ Dos(s) \subseteq {"set"}
  BY DEF Sets
<1>4. \A x \in Dos(s), y \in Dos(<<w>>) : Precedes(x, y)
  BY <1>2, <1>3, Ranks DEF Precedes
<1>5. /\ s \o <<w>> \in Seq(StepSet) /\ Sorted(s \o <<w>>)
      /\ Steps(s \o <<w>>) = Steps(s) \cup Steps(<<w>>) /\ Dos(s \o <<w>>) = Dos(s) \cup Dos(<<w>>)
  BY <1>2, <1>3, <1>4, ThenSteps
<1> QED BY <1>1, <1>2, <1>5

LEMMA NativePlanned ==
  ASSUME NEW a, NEW o, NEW q, NativeTo(a, o, q)
  PROVE  Good(q)
<1>1. AtStep(o, "native") /\ Same(o, q) /\ q.cp = o.cp /\ q.row = o.row /\ q.safe = o.safe /\ q.fallback = o.fallback
  BY DEF NativeTo, Frame
<1>2. PICK s \in Seq(StepSet), to \in Targets :
        Natives(a, o, to) /\ Sets(a, to, s) /\ q.todo = (s \o <<[do |-> "awaittargets", to |-> to]>>) \o Tail(o.todo)
  BY DEF NativeTo
<1> DEFINE w == [do |-> "awaittargets", to |-> to]
           r == s \o <<w>>
           E == Dos(r) X == Steps(r)
<1>3. r \in Seq(StepSet) /\ Sorted(r) /\ E \subseteq {"set", "awaittargets"}
  <2>1. r \in Seq(StepSet) /\ Sorted(r) /\ Dos(r) = Dos(s) \cup {"awaittargets"}
    <3>1. Sets(a, to, s) /\ w = [do |-> "awaittargets", to |-> to]
      BY <1>2
    <3> HIDE DEF w
    <3> QED BY <3>1, NativesJoin
  <2>2. Dos(s) \subseteq {"set"}
    BY <1>2 DEF Sets
  <2> QED BY <2>1, <2>2
<1>4. q.todo = r \o Tail(o.todo)
  BY <1>2
<1>5. \A d \in Dos(Tail(o.todo)) : Precedes("set", d) /\ Precedes("awaittargets", d)
  BY <1>1, ChoosingRanks
<1> HIDE DEF r
<1>6. Replaced(o, q, r, E, X)
  BY <1>3, <1>4, <1>5 DEF Replaced
<1>7. SameFlags(o, q)
  BY <1>1 DEF SameFlags
<1> HIDE DEF E, X
<1>8. Planned(q)
  BY <1>1, <1>3, <1>6, <1>7, Chooses
<1> QED BY <1>1, <1>8 DEF Good, Same

LEMMA RemapPlanned ==
  ASSUME NEW o, NEW q, Pops(o, q, "remap", o.cp, q.before, o.row, o.safe, o.fallback)
  PROVE  Good(q)
<1>1. AtStep(o, "remap") /\ Same(o, q) /\ q.todo = <<>> \o Tail(o.todo) /\ q.cp = o.cp /\ q.row = o.row
      /\ q.safe = o.safe /\ q.fallback = o.fallback
  BY DEF Pops, Frame
<1>2. SameFlags(o, q) /\ SamePlans(o, q)
  BY <1>1 DEF SameFlags, SamePlans
<1>3. Planned(q)
  BY <1>1, <1>2, PopsPlanned
<1> QED BY <1>1, <1>3 DEF Good, Same

LEMMA AimPlanned ==
  ASSUME NEW o, NEW q, NEW at, Pops(o, q, "aim", o.cp, at, o.row, o.safe, FALSE)
  PROVE  Good(q)
<1>1. AtStep(o, "aim") /\ Same(o, q) /\ q.todo = <<>> \o Tail(o.todo) /\ q.cp = o.cp /\ q.row = o.row
      /\ q.safe = o.safe /\ ~q.fallback
  BY DEF Pops, Frame
<1>2. SameFlags(o, q) /\ SamePlans(o, q)
  BY <1>1 DEF SameFlags, SamePlans
<1>3. Planned(q)
  BY <1>1, <1>2, PopsPlanned
<1> QED BY <1>1, <1>3 DEF Good, Same

\* What recovery is to do comes before all that follows it.
LEMMA RecoveryRanks ==
  ASSUME NEW o, AtStep(o, "undo"), NEW e \in RecoveryDos, NEW d \in Dos(Tail(o.todo))
  PROVE  Precedes(e, d)
<1>1. d \in AllDos /\ Rank["undo"] < Rank[d]
  BY RestIs DEF Rest
<1>2. d \notin RecoveryDos \cup {"aim", "forget"}
  <2>1. "undo" \in Dos(o.todo) /\ d \in Dos(o.todo)
    BY RestIs DEF Rest
  <2> QED BY <2>1 DEF AtStep, Planned, Shape, Has
<1>3. d \notin {"rejournal", "undo"}
  BY Later
<1>4. Rank[d] \in Nat /\ Rank[d] >= 12
  BY <1>1, <1>2, <1>3, Ranks DEF AllDos, PlainDos, RecoveryDos
<1>5. Rank[e] \in Nat /\ Rank[e] <= 11
  BY Ranks DEF RecoveryDos
<1> QED BY <1>4, <1>5 DEF Precedes

LEMMA UndoPlanned ==
  ASSUME NEW a, NEW o, NEW q, UndoTo(a, o, q)
  PROVE  Good(q)
<1> DEFINE p == o.cp.pending prev == p.previous
<1>1. AtStep(o, "undo") /\ Same(o, q) /\ q.cp = o.cp /\ q.safe = o.safe /\ q.fallback = o.fallback /\ ~o.safe
  BY RecordThere DEF UndoTo, Frame, SafeDos, SwitchDos
<1>2. PICK s \in Seq(StepSet) : q.todo = s \o Tail(o.todo) /\ Sorted(s) /\ UndoSteps(a, p, q.row, Dos(s), Steps(s))
  BY DEF UndoTo
<1> DEFINE E == Dos(s) X == Steps(s)
<1>3. E \subseteq RecoveryDos
  BY <1>2 DEF UndoSteps, RestDos, NativeDos, RecoveryDos
<1>4. /\ Has(s, {"modify", "remap"}) => prev # None
      /\ Has(s, {"remap"}) /\ ~Has(s, {"create"}) => q.row # None
  BY <1>2 DEF UndoSteps, RestDos, NativeDos, Has
<1>5. \A x \in X : Made(q, x)
  <2>1. \A F : \A x \in Plains(F) : x.do \in F
    BY DEF Plains, Do
  <2> DEFINE m == [do |-> "modify", id |-> prev.id, input |-> prev.input]
             c == [do |-> "create", input |-> prev.input]
             D(i) == [do |-> "delete", id |-> i]
  <2>2. /\ m.do = "modify" /\ m.id = prev.id /\ m.input = prev.input /\ c.do = "create" /\ c.input = prev.input
        /\ \A i : D(i).do = "delete"
    OBVIOUS
  <2>3. \/ X = Plains(RestDos)
        \/ prev # None /\ X = Plains(RestDos) \cup {m}
        \/ X = Plains(RestDos \cup {"remap"})
        \/ prev # None /\ X = Plains(RestDos \cup {"remap"}) \cup {c}
        \/ X = Plains(NativeDos)
        \/ \E i \in Ids : X = Plains(NativeDos) \cup {D(i)}
    BY <1>2 DEF UndoSteps
  <2> HIDE DEF X, m, c, D
  <2>4. \A x \in X : \/ x.do \in RestDos \cup NativeDos \cup {"remap", "delete"}
                     \/ prev # None /\ (x = m \/ x = c)
    <3>1. X = Plains(RestDos) => \A x \in X : x.do \in RestDos
      BY <2>1
    <3>2. X = Plains(RestDos) \cup {m} => \A x \in X : x.do \in RestDos \/ x = m
      BY <2>1
    <3>3. X = Plains(RestDos \cup {"remap"}) => \A x \in X : x.do \in RestDos \cup {"remap"}
      BY <2>1
    <3>4. X = Plains(RestDos \cup {"remap"}) \cup {c} => \A x \in X : x.do \in RestDos \cup {"remap"} \/ x = c
      BY <2>1
    <3>5. X = Plains(NativeDos) => \A x \in X : x.do \in NativeDos
      BY <2>1
    <3>6. \A i \in Ids : X = Plains(NativeDos) \cup {D(i)} => \A x \in X : x.do \in NativeDos \cup {"delete"}
      BY <2>1, <2>2
    <3> QED BY <2>3, <3>1, <3>2, <3>3, <3>4, <3>5, <3>6
  <2> HIDE DEF p, prev
  <2>5. \A x \in X : \/ x.do \notin {"create", "modify"}
                     \/ prev # None /\ (x = m \/ x = c)
    BY <2>4 DEF RestDos, NativeDos
  <2>6. q.cp.pending.previous = prev /\ ~q.safe
    BY <1>1 DEF p, prev
  <2> QED BY <2>2, <2>5, <2>6 DEF Made
<1>6. SameFlags(o, q)
  BY <1>1 DEF SameFlags
<1>7. Replaced(o, q, s, E, X)
  BY <1>1, <1>2, <1>3, RecoveryRanks DEF Replaced
<1> HIDE DEF E, X
<1>8. Planned(q)
  BY <1>1, <1>3, <1>4, <1>5, <1>6, <1>7, Undoes
<1> QED BY <1>1, <1>8 DEF Good, Same

LEMMA EndsPlanned ==
  ASSUME NEW o, NEW q, NEW d \in {"commit", "fail"}, EndsTo(o, q, d)
  PROVE  Good(q)
<1>1. AtStep(o, "decide") /\ Same(o, q) /\ q.cp = o.cp /\ q.safe = o.safe /\ ~q.fallback /\ q.todo = <<Do(d)>>
  BY DEF EndsTo, Frame
<1>2. ~o.safe /\ o.call = "restore"
  BY <1>1, DecidesLast
<1>3. Planned(q)
  BY <1>1, <1>2, Ends DEF AtStep
<1> QED BY <1>1, <1>3 DEF Good, Same

LEMMA ReturnPlanned ==
  ASSUME NEW a, NEW f, NEW o, NEW q, ReturnTo(a, f, o, q)
  PROVE  Good(q) /\ q.cp \in Checkpoints
<1>1. AtStep(o, "decide") /\ Same(o, q) /\ q.safe /\ ~q.fallback /\ q.todo = ReturnPlan
  BY DEF ReturnTo, Frame
<1>2. q.cp \in Checkpoints /\ q.cp.pending \in Pendings /\ q.cp.managed = o.cp.managed /\ o.cp.managed # None
  BY DEF ReturnTo, Written, TakenOver
<1>3. q.cp # None /\ q.cp.pending # None
  BY <1>2, ImaAssumption
<1>4. Planned(q)
  BY <1>1, <1>2, <1>3, DecidesToReturn
<1> QED BY <1>1, <1>2, <1>4 DEF Good, Same

\* The binding is back.
LEMMA FailedPlanned ==
  ASSUME NEW o, NEW q, AtStep(o, "fail"), Frame(o, q, o.cp, o.before, o.row, o.safe, o.fallback), q.todo = <<Do("failed")>>
  PROVE  Good(q)
<1>1. Same(o, q) /\ q.cp = o.cp /\ q.safe = o.safe /\ q.fallback = o.fallback
  BY DEF Frame
<1>2. ~o.safe
  BY RecordThere DEF SafeDos, SwitchDos
<1>3. Plain(q.todo, {"failed"})
  <2>1. Do("failed") \in StepSet /\ Do("failed").do = "failed"
    BY PlainStep DEF PlainDos
  <2> QED BY <2>1, OneStep DEF Plain
<1>4. Dos(q.todo) = {"failed"}
  BY <1>3 DEF Plain
<1>5. Shape(o) /\ Stage(o) /\ Record(o)
  BY DEF AtStep, Planned
<1>6. Shape(q)
  BY <1>1, <1>4, <1>5 DEF Shape, Same, SwitchDos, RecoveryDos, Has
<1>7. Stage(q)
  BY <1>1, <1>2, <1>4, <1>5 DEF Stage, Same, SwitchDos, Has
<1>8. Record(q)
  BY <1>1, <1>2, <1>4, <1>5 DEF Record, Same, Changing, Has, Only
<1>9. Planned(q)
  BY <1>1, <1>3, <1>6, <1>7, <1>8, Replans DEF Same
<1> QED BY <1>1, <1>9 DEF Good, Same

LEMMA SwitchToPlanned ==
  ASSUME NEW a, NEW f, NEW sv \in Checkpoints \cup {None}, NEW q, SwitchTo(a, f, sv, q)
  PROVE  Good(q) /\ q.cp \in Checkpoints
<1>1. q \in Ops /\ q.call = "switch" /\ q.want \in Inputs /\ ~q.safe /\ ~q.fallback
  BY DEF SwitchTo, Started1
<1>2. q.cp \in Checkpoints /\ q.cp # None
  <2>1. q.cp \in Checkpoints
    BY DEF SwitchTo, OnFile
  <2> QED BY <2>1, ImaAssumption
<1>3. PICK s \in {<<>>, Recovery} : First(q.cp, s) /\ q.todo = s \o ForwardPlan
  BY DEF SwitchTo
<1>4. s = <<>> \/ (s = Recovery /\ q.cp.pending # None)
  BY <1>3 DEF First
<1>5. Planned(q)
  BY <1>1, <1>2, <1>3, <1>4, SwitchPlanned
<1> QED BY <1>1, <1>2, <1>5 DEF Good

LEMMA RestoreToPlanned ==
  ASSUME NEW a, NEW f, NEW sv \in Checkpoints \cup {None}, NEW q, RestoreTo(a, f, sv, q)
  PROVE  Good(q)
<1>1. q \in Ops /\ q.call = "restore" /\ ~q.safe
  BY DEF RestoreTo, Started1
<1>2. CASE q.cp = None /\ ~q.fallback /\ q.todo = <<Do("commit")>>
  <2>1. Plain(q.todo, {"commit"})
    <3>1. Do("commit") \in StepSet /\ Do("commit").do = "commit"
      BY PlainStep DEF PlainDos
    <3> QED BY <1>2, <3>1, OneStep DEF Plain
  <2>2. Dos(q.todo) = {"commit"}
    BY <2>1 DEF Plain
  <2>3. Shape(q)
    BY <1>1, <2>2 DEF Shape, SwitchDos, RecoveryDos, Has
  <2>4. Stage(q)
    BY <1>1, <1>2, <2>2 DEF Stage, SwitchDos, Has
  <2>5. Record(q)
    BY <1>1, <1>2, <2>2 DEF Record, Changing, Has, Only
  <2>6. Planned(q)
    BY <1>1, <2>1, <2>3, <2>4, <2>5, Replans
  <2> QED BY <1>1, <2>6 DEF Good
<1>3. CASE /\ q.cp = sv /\ sv # None /\ (q.fallback <=> Journalling(sv))
           /\ q.fallback => q.instead = Finishing(sv.pending.before)
           /\ IF Journalling(sv) /\ sv.pending.previous.id \notin RowsOf(a) THEN q.todo = Finishing(sv.pending.before)
              ELSE \E s \in {<<>>, Recovery} : First(sv, s) /\ q.todo = s \o <<Do("decide")>>
  <2>1. Journalling(sv) => sv.pending # None /\ sv.pending.before \in Selections
    BY <1>3, CheckpointIs DEF Journalling
  <2>2. CASE Journalling(sv) /\ q.todo = Finishing(sv.pending.before)
    <3>1. Planned(q)
      BY <1>1, <1>3, <2>1, <2>2, Finishes
    <3> QED BY <1>1, <3>1 DEF Good
  <2>3. ASSUME NEW s \in {<<>>, Recovery}, First(sv, s), q.todo = s \o <<Do("decide")>>
        PROVE  Good(q)
    <3>1. s = <<>> \/ (s = Recovery /\ q.cp.pending # None)
      BY <1>3, <2>3 DEF First
    <3>2. q.fallback => \E at \in Selections : q.instead = Finishing(at)
      BY <1>3, <2>1
    <3>3. Planned(q)
      BY <1>1, <1>3, <2>3, <3>1, <3>2, RestorePlanned
    <3> QED BY <1>1, <3>3 DEF Good
  <2> QED BY <1>3, <2>2, <2>3
<1> QED BY <1>2, <1>3 DEF RestoreTo, Started1

LEMMA IdleIs == ~Running(Idle)
BY DEF Running, Idle

\* One row of each configuration: no request makes a second one.
LEMMA DistinctStays ==
  ASSUME NEW a, NEW b, Distinct(a)
  PROVE  /\ b = a => Distinct(b)
         /\ \A s, id : IsSet(a, b, s, id) => Distinct(b)
         /\ \A input, ours : IsAdded(a, b, input, ours) /\ (\A i \in RowsOf(a) : a.rows[i] # input) => Distinct(b)
         /\ \A id, input, ours :
              IsModified(a, b, id, input, ours) /\ (\A i \in RowsOf(a) : a.rows[i] # input) => Distinct(b)
         /\ \A id : IsDeleted(a, b, id) => Distinct(b)
<1>1. b = a => Distinct(b)
  OBVIOUS
<1>2. ASSUME NEW s, NEW id, IsSet(a, b, s, id)
      PROVE  Distinct(b)
  BY <1>2 DEF Distinct, IsSet, RowsOf
<1>3. ASSUME NEW input, NEW ours, IsAdded(a, b, input, ours), \A i \in RowsOf(a) : a.rows[i] # input
      PROVE  Distinct(b)
  BY <1>3 DEF Distinct, IsAdded
<1>4. ASSUME NEW id, NEW input, NEW ours, IsModified(a, b, id, input, ours), \A i \in RowsOf(a) : a.rows[i] # input
      PROVE  Distinct(b)
  BY <1>4 DEF Distinct, IsModified
<1>5. ASSUME NEW id, IsDeleted(a, b, id)
      PROVE  Distinct(b)
  BY <1>5 DEF Distinct, IsDeleted
<1> QED BY <1>1, <1>2, <1>3, <1>4, <1>5

LEMMA StaysLive ==
  ASSUME Live, account' \in Accounts, Distinct(account'), native' \in Selections \cup {None},
         file' = file \/ file' \in [Scenes -> Ids \cup {Official, None}],
         saved' = saved \/ saved' \in Checkpoints, Good(op') \/ op' = Idle
  PROVE  Live'
BY IdleIs DEF Live, Typed, Good

LEMMA OnlyOpLive ==
  ASSUME Live, OnlyOp, Good(op') \/ op' = Idle
  PROVE  Live'
BY StaysLive DEF Live, Typed, OnlyOp

LEMMA RecordLive ==
  ASSUME Live, AccountStays, RestStays, Good(op'), saved' = saved \/ saved' \in Checkpoints
  PROVE  Live'
BY StaysLive DEF Live, Typed, AccountStays, RestStays

LEMMA RequestLive ==
  ASSUME Live, RestStays, saved' = saved, account' \in Accounts, Distinct(account'), Good(op')
  PROVE  Live'
BY StaysLive DEF Live, Typed, RestStays

LEMMA RequestedLive ==
  ASSUME Live, RestStays, saved' = saved, NEW done, NEW h \in {"set", "modify", "delete"}, Requested(done, op, op', h),
         done => account' \in Accounts /\ Distinct(account')
  PROVE  Live'
<1>1. Good(op')
  <2>1. h \notin {"journal", "row", "create", "undo"}
    OBVIOUS
  <2> QED BY <2>1, PlainlyPlanned, Fails1Planned DEF Requested
<1>2. account' \in Accounts /\ Distinct(account')
  BY DEF Requested, AccountStays, Live, Typed
<1> QED BY <1>1, <1>2, RequestLive

LEMMA AwaitedLive ==
  ASSUME Live, OnlyOp, NEW pref, NEW row, NEW h \in {"await", "awaitbefore", "awaittargets"},
         Awaited(pref, row, op, op', h)
  PROVE  Live'
<1>1. Plainly(op, op', h) \/ Fails1(op, op', h)
  BY DEF Awaited
<1>2. h \notin {"journal", "row", "create", "undo"}
  OBVIOUS
<1>3. Good(op')
  BY <1>1, <1>2, PlainlyPlanned, Fails1Planned
<1> QED BY <1>3, OnlyOpLive

LEMMA WroteLive ==
  ASSUME Live, NEW to \in [Scenes -> Ids \cup {Official, None}], NEW h \in {"write", "writebefore"}, WroteTo(to, op, op', h)
  PROVE  Live'
<1>1. Plainly(op, op', h) \/ Fails1(op, op', h)
  BY DEF WroteTo
<1>2. h \notin {"journal", "row", "create", "undo"}
  OBVIOUS
<1>3. Good(op')
  BY <1>1, <1>2, PlainlyPlanned, Fails1Planned
<1>4. account' \in Accounts /\ Distinct(account') /\ native' \in Selections \cup {None} /\ saved' = saved
      /\ (file' = file \/ file' \in [Scenes -> Ids \cup {Official, None}])
  BY DEF WroteTo, Live, Typed
<1> QED BY <1>3, <1>4, StaysLive

LEMMA SwitchStepLive ==
  ASSUME Live, SwitchStep
  PROVE  Live'
<1>1. CASE Journal
  <2>1. Good(op') /\ (saved' = saved \/ saved' \in Checkpoints)
    BY <1>1, JournalIs, JournalPlanned, Fails1Planned
  <2> QED BY <1>1, <2>1, JournalIs, RecordLive
<1>2. CASE RowKept
  BY <1>2, RowKeptIs, RowPlanned, OnlyOpLive
<1>3. CASE RowModified
  <2>1. RestStays /\ saved' = saved
    BY <1>3, RowModifiedIs
  <2>2. Good(op')
    BY <1>3, RowModifiedIs, RowPlanned, Fails1Planned
  <2>3. account' \in Accounts /\ Distinct(account')
    <3>1. account' \in Accounts
      BY <1>3, RowModifiedIs DEF ModifiedAt, IsModified, AccountStays, Live, Typed
    <3>2. Distinct(account')
      BY <1>3, RowModifiedIs, DistinctStays DEF ModifiedAt, AccountStays, Live, Typed
    <3> QED BY <3>1, <3>2
  <2> QED BY <2>1, <2>2, <2>3, RequestLive
<1>4. CASE RowOther
  BY <1>4, RowOtherIs, CreatePlanned, OnlyOpLive
<1>5. CASE RowFound
  <2>1. Good(op') /\ (saved' = saved \/ saved' \in Checkpoints)
    <3>1. CASE Fails1(op, op', "create") /\ saved' = saved
      BY <3>1, Fails1Planned
    <3>2. CASE saved' = op'.cp /\ FoundTo(account, op, op')
      BY <3>2, FoundPlanned
    <3>3. ASSUME NEW u \in Ops, Noting(account, op, u), Failing(u, op'), saved' = saved
          PROVE  Good(op')
      <4>1. Good(u) /\ u.todo # <<>>
        BY <3>3, NotingPlanned
      <4> QED BY <3>3, <4>1, FailingPlanned DEF Good
    <3> QED BY <1>5, <3>1, <3>2, <3>3, RowFoundIs
  <2> QED BY <1>5, <2>1, RowFoundIs, RecordLive
<1>6. CASE RowAdded
  <2>1. RestStays /\ saved' = saved
    BY <1>6, RowAddedIs
  <2>2. Good(op')
    <3>1. Good(op)
      BY <1>6, RowAddedIs DEF AtStep, Good
    <3> QED BY <1>6, <3>1, RowAddedIs, Fails1Planned
  <2>3. account' \in Accounts /\ Distinct(account')
    <3>1. account' \in Accounts
      BY <1>6, RowAddedIs DEF IsAdded, AccountStays, Live, Typed
    <3>2. Distinct(account')
      BY <1>6, RowAddedIs, DistinctStays DEF AccountStays, Live, Typed
    <3> QED BY <3>1, <3>2
  <2> QED BY <2>1, <2>2, <2>3, RequestLive
<1>7. CASE Selects
  BY <1>7, SelectsIs, SetsPlanned, OnlyOpLive
<1>8. CASE Set
  <2>1. SetAt(account, account', Head(op.todo)) => account' \in Accounts /\ Distinct(account')
    BY DistinctStays DEF SetAt, IsSet, Live, Typed
  <2> QED BY <1>8, <2>1, SetStepIs, RequestedLive
<1>9. CASE SelectionWritten
  <2>1. At("write") /\ Write(Everywhere(op.row.id))
    BY <1>9 DEF SelectionWritten
  <2>2. Everywhere(op.row.id) \in [Scenes -> Ids \cup {Official, None}]
    <3>1. AtStep(op, "write") /\ op \in Ops
      BY <2>1, AtIs
    <3>2. op.row # None /\ op.row \in Records
      BY <3>1, RecordThere, OpIs
    <3> QED BY <3>2, RecordIs DEF Everywhere
  <2> QED BY <2>1, <2>2, WriteIs, WroteLive
<1>10. CASE SelectionAwaited
  <2>1. At("await") /\ Await(Everywhere(op.row.id), op.row)
    BY <1>10 DEF SelectionAwaited
  <2> QED BY <2>1, AwaitIs, AwaitedLive
<1>11. CASE Keep
  <2>1. Good(op') /\ (saved' = saved \/ saved' \in Checkpoints)
    <3>1. CASE saved' = op'.cp /\ KeepTo(op, op')
      BY <3>1, KeepPlanned
    <3>2. ASSUME NEW u \in Ops, KeepingAs(op, u), Failing(u, op'), saved' = saved
          PROVE  Good(op')
      <4>1. Good(u) /\ u.todo # <<>>
        BY <3>2, KeepingPlanned
      <4> QED BY <3>2, <4>1, FailingPlanned DEF Good
    <3> QED BY <1>11, <3>1, <3>2, KeepIs
  <2> QED BY <1>11, <2>1, KeepIs, RecordLive
<1>12. CASE Commit
  BY <1>12, CommitIs, PlainlyPlanned, Fails1Planned, OnlyOpLive
<1>13. CASE Clear
  <2>1. Good(op') /\ (saved' = saved \/ saved' \in Checkpoints)
    BY <1>13, ClearIs, DonePlanned, Fails1Planned
  <2> QED BY <1>13, <2>1, ClearIs, RecordLive
<1> QED BY <1>1, <1>2, <1>3, <1>4, <1>5, <1>6, <1>7, <1>8, <1>9, <1>10, <1>11, <1>12, <1>13 DEF SwitchStep

LEMMA RecoveryStepLive ==
  ASSUME Live, RecoveryStep
  PROVE  Live'
<1>1. CASE Rejournal
  <2>1. Good(op')
    BY <1>1, RejournalIs, PlainlyPlanned, Fails1Planned
  <2>2. saved' = saved \/ saved' \in Checkpoints
    <3>1. op.cp \in Checkpoints
      <4>1. At("rejournal")
        BY <1>1 DEF Rejournal
      <4> QED BY <4>1, AtIs, RecordThere
    <3> QED BY <1>1, <3>1, RejournalIs
  <2> QED BY <1>1, <2>1, <2>2, RejournalIs, RecordLive
<1>2. CASE Undo
  BY <1>2, UndoIs, UndoPlanned, Fails1Planned, OnlyOpLive
<1>3. CASE Modify
  <2>1. ModifiedAt(account, account', Head(op.todo), {}) => account' \in Accounts /\ Distinct(account')
    <3>1. ModifiedAt(account, account', Head(op.todo), {}) => account' \in Accounts
      BY DEF ModifiedAt, IsModified
    <3>2. ModifiedAt(account, account', Head(op.todo), {}) => Distinct(account')
      BY DistinctStays DEF ModifiedAt, Live, Typed
    <3> QED BY <3>1, <3>2
  <2> QED BY <1>3, <2>1, ModifyStepIs, RequestedLive
<1>4. CASE Remap
  BY <1>4, RemapIs, RemapPlanned, OnlyOpLive
<1>5. CASE Prefer
  BY <1>5, PreferIs, SetsPlanned, OnlyOpLive
<1>6. CASE Delete
  <2>1. IsDeleted(account, account', Head(op.todo).id) => account' \in Accounts /\ Distinct(account')
    BY DistinctStays DEF IsDeleted, Live, Typed
  <2> QED BY <1>6, <2>1, DeleteStepIs, RequestedLive
<1>7. CASE Native
  BY <1>7, NativeIs, NativePlanned, OnlyOpLive
<1>8. CASE TargetsAwaited
  <2>1. At("awaittargets") /\ Await(Head(op.todo).to, None)
    BY <1>8 DEF TargetsAwaited
  <2> QED BY <2>1, AwaitIs, AwaitedLive
<1>9. CASE BeforeAwaited
  <2>1. At("awaitbefore") /\ Await(op.before.pref, op.row)
    BY <1>9 DEF BeforeAwaited
  <2> QED BY <2>1, AwaitIs, AwaitedLive
<1>10. CASE BeforeWritten
  <2>1. At("writebefore") /\ Write(op.before.file)
    BY <1>10 DEF BeforeWritten
  <2>2. op.before.file \in [Scenes -> Ids \cup {Official, None}]
    BY <2>1, AtIs, BeforeIs
  <2> QED BY <2>1, <2>2, WriteIs, WroteLive
<1>11. CASE Settle
  <2>1. Good(op') /\ (saved' = saved \/ saved' \in Checkpoints)
    BY <1>11, SettleIs, DonePlanned, Fails1Planned
  <2> QED BY <1>11, <2>1, SettleIs, RecordLive
<1> QED BY <1>1, <1>2, <1>3, <1>4, <1>5, <1>6, <1>7, <1>8, <1>9, <1>10, <1>11 DEF RecoveryStep

LEMMA RestoreStepLive ==
  ASSUME Live, RestoreStep
  PROVE  Live'
<1>1. CASE Aim
  BY <1>1, AimIs, AimPlanned, OnlyOpLive
<1>2. CASE Forget
  <2>1. Good(op') /\ (saved' = saved \/ saved' \in Checkpoints)
    BY <1>2, ForgetIs, DonePlanned, Fails1Planned
  <2> QED BY <1>2, <2>1, ForgetIs, RecordLive
<1>3. CASE Decide
  <2>1. Good(op') /\ (saved' = saved \/ saved' \in Checkpoints)
    BY <1>3, DecideIs, EndsPlanned, ReturnPlanned
  <2> QED BY <1>3, <2>1, DecideIs, RecordLive
<1> QED BY <1>1, <1>2, <1>3 DEF RestoreStep

-----------------------------------------------------------------------------
(* What the user does *)

\* A row made by hand may come to look like that of an unfinished switch.
UserTo(a, b) ==
  \/ \E s \in Scenes, id \in SelectableIn(a) : IsSet(a, b, s, id)
  \/ \E input \in Inputs :
       /\ a.next \in Ids /\ \A i \in RowsOf(a) : a.rows[i] # input
       /\ IsAdded(a, b, input, ByHand(a.next, input))
  \/ \E id \in RowsOf(a) : IsDeleted(a, b, id)
  \/ \E id \in RowsOf(a), input \in Inputs :
       /\ \A i \in RowsOf(a) : a.rows[i] # input
       /\ IsModified(a, b, id, input, ByHand(id, input))

LEMMA UserActsIs ==
  ASSUME Live, UserActs
  PROVE  /\ Resting /\ op' = op /\ RestStays /\ saved' = saved /\ binding' = binding
         /\ UserTo(account, account')
<1>1. Resting /\ op' = op /\ RestStays /\ saved' = saved /\ binding' = binding
  BY DEF UserActs, RestStays
<1>2. account \in Accounts /\ RowsOf(account) \subseteq Ids
  BY AccountIs DEF Live, Typed
<1>3. CASE \E s \in Scenes, id \in Selectable : account' = [account EXCEPT !.pref[s] = id]
  <2>1. PICK s \in Scenes, id \in Selectable : account' = [account EXCEPT !.pref[s] = id]
    BY <1>3
  <2>2. id \in SelectableIn(account) /\ id \in Preferences
    BY <1>2 DEF Selectable, SelectableIn, Rows, RowsOf, Preferences
  <2>3. IsSet(account, account', s, id)
    BY <1>2, <2>1, <2>2, SetIs
  <2> QED BY <1>1, <2>2, <2>3 DEF UserTo
<1>4. ASSUME NEW input \in Inputs, Accepts([do |-> "add", input |-> input]),
             account' \in Outcomes([do |-> "add", input |-> input])
      PROVE  UserTo(account, account')
  <2> DEFINE c == [do |-> "add", input |-> input]
  <2>1. c.do = "add" /\ c.input = input /\ Accepts(c) /\ account' \in Outcomes(c)
    BY <1>4
  <2> HIDE DEF c
  <2>2. /\ \A i \in RowsOf(account) : account.rows[i] # input
        /\ account.next \in Ids /\ IsAdded(account, account', input, ByHand(account.next, input))
    BY <1>1, <1>2, <2>1, AddRequest
  <2> QED BY <2>2 DEF UserTo
<1>5. ASSUME NEW id \in Rows(account), account' \in Outcomes([do |-> "delete", id |-> id])
      PROVE  UserTo(account, account')
  <2> DEFINE c == [do |-> "delete", id |-> id]
  <2>1. c.do = "delete" /\ c.id = id /\ account' \in Outcomes(c)
    BY <1>5
  <2> HIDE DEF c
  <2>2. IsDeleted(account, account', id)
    BY <1>2, <2>1, DeleteRequest
  <2> QED BY <2>2 DEF UserTo, Rows, RowsOf
<1>6. ASSUME NEW id \in Rows(account), NEW input \in Inputs, Accepts([do |-> "modify", id |-> id, input |-> input]),
             account' \in Outcomes([do |-> "modify", id |-> id, input |-> input])
      PROVE  UserTo(account, account')
  <2> DEFINE c == [do |-> "modify", id |-> id, input |-> input]
  <2>1. c.do = "modify" /\ c.id = id /\ c.input = input /\ Accepts(c) /\ account' \in Outcomes(c)
    BY <1>6
  <2>2. id \in RowsOf(account) /\ id \in Ids
    BY <1>2 DEF Rows, RowsOf
  <2> HIDE DEF c
  <2>3. ModifiedAt(account, account', c, ByHand(id, input))
    BY <1>1, <1>2, <2>1, <2>2, ModifyRequest
  <2> QED BY <2>1, <2>2, <2>3 DEF UserTo, ModifiedAt
<1>7. \/ \E s \in Scenes, id \in Selectable : account' = [account EXCEPT !.pref[s] = id]
      \/ \E input \in Inputs : Accepts([do |-> "add", input |-> input])
                              /\ account' \in Outcomes([do |-> "add", input |-> input])
      \/ \E id \in Rows(account) : account' \in Outcomes([do |-> "delete", id |-> id])
      \/ \E id \in Rows(account), input \in Inputs :
          Accepts([do |-> "modify", id |-> id, input |-> input])
          /\ account' \in Outcomes([do |-> "modify", id |-> id, input |-> input])
  BY DEF UserActs
<1> QED BY <1>1, <1>3, <1>4, <1>5, <1>6, <1>7

LEMMA UserTyped ==
  ASSUME Live, UserActs
  PROVE  account' \in Accounts /\ Distinct(account')
<1>1. account' \in Accounts
  BY UserActsIs DEF UserTo, IsSet, IsAdded, IsDeleted, IsModified
<1>2. Distinct(account')
  BY UserActsIs, DistinctStays DEF UserTo, Live, Typed
<1> QED BY <1>1, <1>2

-----------------------------------------------------------------------------
(* Types: every step of the specification *)

LEMMA NextLive ==
  ASSUME Live, BindingOK, [Next]_vars
  PROVE  Live' /\ BindingOK'
<1>1. CASE UNCHANGED vars
  BY <1>1 DEF vars, Live, Typed, BindingOK
<1>2. ASSUME NEW input \in Inputs, SwitchBegins(input)
      PROVE  Live' /\ BindingOK'
  <2>1. account' = account /\ file' = file /\ saved' = op'.cp /\ SwitchTo(account, file, saved, op')
        /\ native' = (IF native = None THEN Selection ELSE native)
    BY <1>2, SwitchBeginsIs
  <2>2. Good(op') /\ op'.cp \in Checkpoints
    BY <2>1, SwitchToPlanned DEF Live, Typed
  <2>3. native' \in Selections \cup {None}
    BY <2>1, SelectionIs DEF Read, Live, Typed
  <2>4. Live'
    BY <2>1, <2>2, <2>3, StaysLive DEF Live, Typed
  <2>5. binding' = binding
    BY <1>2 DEF SwitchBegins
  <2> QED BY <2>4, <2>5 DEF BindingOK
<1>3. CASE RestoreBegins
  <2>1. OnlyOp /\ RestoreTo(account, file, saved, op')
    BY <1>3, RestoreBeginsIs
  <2>2. Good(op')
    BY <2>1, RestoreToPlanned DEF Live, Typed
  <2>3. binding' = binding
    BY <1>3 DEF RestoreBegins
  <2> QED BY <2>1, <2>2, <2>3, OnlyOpLive DEF BindingOK
<1>4. CASE SwitchStep
  <2>1. CASE Commit
    <3>1. op.want \in Inputs \cup {None}
      BY <2>1, AtIs, OpIs DEF Commit
    <3>2. BindingOK'
      BY <2>1, <3>1 DEF Commit, BindingOK
    <3> QED BY <1>4, <3>2, SwitchStepLive
  <2>2. CASE ~Commit
    <3>1. binding' = binding
      BY <1>4, <2>2 DEF SwitchStep, Journal, RowKept, RowModified, RowOther, RowFound, RowAdded, Selects, Set,
                        SelectionWritten, Write, SelectionAwaited, Await, Keep, Clear
    <3> QED BY <1>4, <3>1, SwitchStepLive DEF BindingOK
  <2> QED BY <2>1, <2>2
<1>5. CASE RecoveryStep
  <2>1. binding' = binding
    BY <1>5 DEF RecoveryStep, Rejournal, Undo, Modify, Remap, Prefer, Delete, Native, TargetsAwaited,
                BeforeAwaited, Await, BeforeWritten, Write, Settle
  <2> QED BY <1>5, <2>1, RecoveryStepLive DEF BindingOK
<1>6. CASE RestoreStep
  <2>1. binding' = binding
    BY <1>6 DEF RestoreStep, Aim, Forget, Decide
  <2> QED BY <1>6, <2>1, RestoreStepLive DEF BindingOK
<1>7. CASE Failed
  <2>1. Good(op') /\ OnlyOp
    BY <1>7, FailedIs, FailedPlanned
  <2>2. At("fail")
    BY <1>7 DEF Failed
  <2>3. op.bound \in Inputs \cup {None}
    BY <2>2, AtIs, OpIs
  <2>4. BindingOK'
    BY <1>7, <2>3 DEF Failed, BindingOK
  <2> QED BY <2>1, <2>4, OnlyOpLive
<1>8. CASE Returned
  <2>1. OnlyOp /\ op' = Idle /\ binding' = binding
    BY <1>8 DEF Returned, OnlyOp
  <2> QED BY <2>1, OnlyOpLive DEF BindingOK
<1>9. CASE UserActs
  <2>1. account' \in Accounts /\ Distinct(account')
    BY <1>9, UserTyped
  <2>2. op' = op /\ RestStays /\ saved' = saved /\ binding' = binding
    BY <1>9, UserActsIs
  <2> QED BY <2>1, <2>2 DEF RestStays, Live, Typed, BindingOK
<1>10. CASE Crash
  <2>1. OnlyOp /\ op' = Idle /\ binding' = binding
    BY <1>10 DEF Crash, OnlyOp
  <2> QED BY <2>1, OnlyOpLive DEF BindingOK
<1> QED BY <1>1, <1>2, <1>3, <1>4, <1>5, <1>6, <1>7, <1>8, <1>9, <1>10 DEF Next

LEMMA InitAccount ==
  ASSUME Init
  PROVE  /\ account \in Accounts /\ Distinct(account) /\ file \in [Scenes -> Ids \cup {Official, None}]
         /\ account.ours = {} /\ \A i \in RowsOf(account) : i < account.next
         /\ \A s \in Scenes : account.pref[s] \in Ids => account.pref[s] < account.next
<1>1. PICK rows \in {[i \in {} |-> None]} \cup [{1} -> Inputs] :
        \E pref \in [Scenes -> DOMAIN rows \cup {Official, Empty}], chosen \in DOMAIN rows \cup {Official, None} :
          /\ account = [rows |-> rows, pref |-> pref, next |-> Cardinality(DOMAIN rows) + 1, ours |-> {}]
          /\ file = [s \in Scenes |-> chosen]
  BY DEF Init
<1>2. PICK pref \in [Scenes -> DOMAIN rows \cup {Official, Empty}], chosen \in DOMAIN rows \cup {Official, None} :
        /\ account = [rows |-> rows, pref |-> pref, next |-> Cardinality(DOMAIN rows) + 1, ours |-> {}]
        /\ file = [s \in Scenes |-> chosen]
  BY <1>1
<1> DEFINE n == Cardinality(DOMAIN rows) + 1
<1>3. 1 \in Ids
  BY ImaAssumption DEF Ids
<1>4. \/ DOMAIN rows = {} /\ rows \in [{} -> Inputs] /\ n = 1
      \/ DOMAIN rows = {1} /\ rows \in [{1} -> Inputs] /\ n = 2
  <2>1. CASE rows = [i \in {} |-> None]
    BY <2>1, FS_EmptySet
  <2>2. CASE rows \in [{1} -> Inputs]
    <3>1. DOMAIN rows = {1}
      BY <2>2
    <3>2. Cardinality({1}) = 1
      BY FS_Singleton
    <3>3. n = 2
      BY <3>1, <3>2
    <3> QED BY <2>2, <3>1, <3>3
  <2> QED BY <2>1, <2>2
<1>5. rows \in UNION {[S -> Inputs] : S \in SUBSET Ids} /\ DOMAIN rows \subseteq Ids
  BY <1>3, <1>4
<1>6. pref \in [Scenes -> Preferences]
  BY <1>5 DEF Preferences
<1>7. n \in Nat /\ \A i \in DOMAIN rows : i < n
  BY <1>4
<1> HIDE DEF n
<1>8. account = [rows |-> rows, pref |-> pref, next |-> n, ours |-> {}]
  BY <1>2 DEF n
<1>9. account \in Accounts /\ account.rows = rows /\ account.pref = pref /\ account.next = n /\ account.ours = {}
  BY <1>5, <1>6, <1>7, <1>8 DEF Accounts
<1>10. \A s \in Scenes : pref[s] \in Ids => pref[s] < n
  <2>1. Official \notin Ids /\ Empty \notin Ids
    BY ImaAssumption DEF Ids
  <2> QED BY <1>7, <2>1
<1>11. file \in [Scenes -> Ids \cup {Official, None}]
  BY <1>2, <1>5
<1>12. \A i \in DOMAIN rows, j \in DOMAIN rows : i = j
  BY <1>4
<1> QED BY <1>7, <1>9, <1>10, <1>11, <1>12 DEF RowsOf, Distinct

LEMMA InitLive == ASSUME Init PROVE Live /\ BindingOK
<1>1. op = Idle /\ saved = None /\ binding = None /\ native = None
  BY DEF Init
<1> QED BY <1>1, InitAccount, IdleIs DEF Live, Typed, BindingOK

\* The account, the local choice, the checkpoint, the binding and the selection
\* of before the first switch are what their types say, whatever requests and
\* saves failed and whenever AT-Switch stopped: no step of a switch, of a restore
\* or of their recovery (binding.rs) reads a journal or a row that is not there.
THEOREM ImaTypeOK == Spec => []TypeOK
<1>1. Init => Live /\ BindingOK
  BY InitLive
<1>2. (Live /\ BindingOK) /\ [Next]_vars => (Live /\ BindingOK)'
  BY NextLive
<1>3. Live /\ BindingOK => TypeOK
  BY DEF Live, Typed, BindingOK, TypeOK
<1> QED BY <1>1, <1>2, <1>3, PTL DEF Spec

-----------------------------------------------------------------------------
(* Whose rows are whose: what requests do *)

\* b has what a has, and any row more is one that AT-Switch made, ...
Widens(a, b) ==
  /\ b \in Accounts /\ a.next <= b.next /\ a.ours \subseteq b.ours
  /\ RowsOf(b) \ b.ours \subseteq RowsOf(a) \ a.ours
  /\ (\A i \in RowsOf(a) : i < a.next) => \A i \in RowsOf(b) : i < b.next
\* ... and what is foreign to the journal p is as it was.
Leaves(a, b, p) == \A i \in Foreign(b, p) : b.rows[i] = a.rows[i]

LEMMA RequestWidens ==
  ASSUME NEW a \in Accounts, NEW b
  PROVE  /\ \A s, id : IsSet(a, b, s, id) => Widens(a, b) /\ \A p : Leaves(a, b, p)
         /\ \A input : a.next \in Ids /\ IsAdded(a, b, input, {a.next}) => Widens(a, b) /\ \A p : Leaves(a, b, p)
         /\ \A id, input : IsModified(a, b, id, input, {}) => Widens(a, b) /\ \A p : id \in p.ids => Leaves(a, b, p)
         /\ \A id : IsDeleted(a, b, id) => Widens(a, b) /\ \A p : Leaves(a, b, p)
<1>1. a.next \in Nat /\ RowsOf(a) \subseteq Ids /\ Ids \subseteq Nat
  BY AccountIs DEF Ids
<1>2. ASSUME NEW s, NEW id, IsSet(a, b, s, id)
      PROVE  Widens(a, b) /\ \A p : Leaves(a, b, p)
  <2>1. b.rows = a.rows /\ b.next = a.next /\ b.ours = a.ours /\ RowsOf(b) = RowsOf(a) /\ b \in Accounts
    BY <1>2 DEF IsSet, RowsOf
  <2> QED BY <1>1, <2>1 DEF Widens, Leaves
<1>3. ASSUME NEW input, a.next \in Ids, IsAdded(a, b, input, {a.next})
      PROVE  Widens(a, b) /\ \A p : Leaves(a, b, p)
  <2>1. /\ RowsOf(b) = RowsOf(a) \cup {a.next} /\ b.next = a.next + 1 /\ b.ours = a.ours \cup {a.next} /\ b \in Accounts
        /\ \A i \in RowsOf(b) : b.rows[i] = IF i = a.next THEN input ELSE a.rows[i]
    BY <1>3 DEF IsAdded
  <2> DEFINE n == a.next
  <2>2. n \in Nat /\ n <= n + 1 /\ n < n + 1 /\ \A i \in Nat : i < n => i < n + 1
    BY <1>1
  <2>3. RowsOf(b) \ b.ours \subseteq RowsOf(a) \ a.ours /\ a.ours \subseteq b.ours
    BY <2>1
  <2>4. (\A i \in RowsOf(a) : i < n) => \A i \in RowsOf(b) : i < n + 1
    BY <1>1, <2>1, <2>2
  <2>5. b.next = n + 1 /\ b \in Accounts
    BY <2>1
  <2>6. Widens(a, b)
    BY <2>2, <2>3, <2>4, <2>5 DEF Widens
  <2> QED BY <2>1, <2>6 DEF Leaves, Foreign
<1>4. ASSUME NEW id, NEW input, IsModified(a, b, id, input, {})
      PROVE  Widens(a, b) /\ \A p : id \in p.ids => Leaves(a, b, p)
  <2>1. /\ RowsOf(b) = RowsOf(a) /\ b.next = a.next /\ b.ours = a.ours /\ b \in Accounts
        /\ \A i \in RowsOf(b) : b.rows[i] = IF i = id THEN input ELSE a.rows[i]
    BY <1>4 DEF IsModified
  <2>2. Widens(a, b)
    BY <1>1, <2>1 DEF Widens
  <2> QED BY <2>1, <2>2 DEF Leaves, Foreign
<1>5. ASSUME NEW id, IsDeleted(a, b, id)
      PROVE  Widens(a, b) /\ \A p : Leaves(a, b, p)
  <2>1. /\ RowsOf(b) = RowsOf(a) \ {id} /\ b.next = a.next /\ b.ours = a.ours /\ b \in Accounts
        /\ \A i \in RowsOf(b) : b.rows[i] = a.rows[i]
    BY <1>5 DEF IsDeleted
  <2>2. Widens(a, b)
    BY <1>1, <2>1 DEF Widens
  <2> QED BY <2>1, <2>2 DEF Leaves, Foreign
<1> QED BY <1>2, <1>3, <1>4, <1>5

LEMMA JournalStays ==
  ASSUME NEW a \in Accounts, NEW b, NEW p \in Pendings, Widens(a, b), Leaves(a, b, p), JournalOK(a, p)
  PROVE  JournalOK(b, p) /\ Foreign(b, p) \subseteq Foreign(a, p)
<1>1. a.next \in Nat /\ b.next \in Nat /\ p.ids \subseteq Nat
  BY AccountIs DEF Widens, Pendings, Ids
<1>2. Foreign(b, p) \subseteq Foreign(a, p)
  BY DEF Widens, Foreign
<1>3. \A i \in p.ids : i < b.next
  BY <1>1 DEF JournalOK, Widens
<1> QED BY <1>2, <1>3 DEF JournalOK, Leaves

\* The journals that are on file and in memory.
Journals(sv, o) ==
  (IF sv # None /\ sv.pending # None THEN {sv.pending} ELSE {})
    \cup (IF Running(o) /\ o.cp # None /\ o.cp.pending # None THEN {o.cp.pending} ELSE {})

LEMMA OwnWidens ==
  ASSUME NEW a, NEW b, NEW f, NEW sv, NEW n, NEW o, Typed(a, f, sv, n, o), OwnOK(a, sv, o), Widens(a, b),
         \A p \in Journals(sv, o) : Leaves(a, b, p)
  PROVE  OwnOK(b, sv, o)
<1>1. a \in Accounts /\ sv \in Checkpoints \cup {None} /\ (Running(o) => o \in Ops)
  BY NotIdle DEF Typed
<1>2. \A i \in RowsOf(b) : i < b.next
  BY DEF OwnOK, Widens
<1>3. \A r : Owned(a, r) => Owned(b, r)
  BY DEF Owned, Widens
<1>4. \A cp : RecordsOwned(a, cp) => RecordsOwned(b, cp)
  BY <1>3 DEF RecordsOwned
<1>5. sv # None /\ sv.pending # None => sv.pending \in Pendings /\ sv.pending \in Journals(sv, o)
  BY <1>1, CheckpointIs DEF Journals
<1>6. sv # None => RecordsOwned(b, sv) /\ (sv.pending # None => JournalOK(b, sv.pending))
  <2>1. sv # None => RecordsOwned(b, sv)
    BY <1>4 DEF OwnOK
  <2>2. ASSUME sv # None, sv.pending # None
        PROVE  JournalOK(b, sv.pending)
    BY <1>1, <1>5, <2>2, JournalStays DEF OwnOK
  <2> QED BY <2>1, <2>2
<1>7. ASSUME Running(o)
      PROVE  OpOwned(b, sv, o)
  <2>1. OpOwned(a, sv, o)
    BY <1>7 DEF OwnOK
  <2>2. Planned(o) /\ Owned(b, o.row)
    BY <1>3, <2>1 DEF OpOwned
  <2>3. \A s \in Steps(o.todo) : s.do = "delete" => s.id \in b.ours
    BY <2>1 DEF OpOwned, Widens
  <2>4. ASSUME o.cp # None
        PROVE  /\ sv # None /\ RecordsOwned(b, o.cp)
               /\ o.cp.pending = None <=> sv.pending = None
    BY <1>4, <2>1, <2>4 DEF OpOwned
  <2>5. ASSUME o.cp # None, o.cp.pending # None
        PROVE  /\ SamePending(o.cp.pending, sv.pending) /\ JournalOK(b, o.cp.pending)
               /\ o.safe => Foreign(b, o.cp.pending) = {}
    <3>1. o.cp.pending \in Pendings /\ o.cp.pending \in Journals(sv, o)
      BY <1>1, <1>7, <2>5, OpIs, CheckpointIs DEF Journals
    <3>2. JournalOK(b, o.cp.pending) /\ Foreign(b, o.cp.pending) \subseteq Foreign(a, o.cp.pending)
      BY <1>1, <2>1, <2>5, <3>1, JournalStays DEF OpOwned
    <3>3. SamePending(o.cp.pending, sv.pending) /\ (o.safe => Foreign(a, o.cp.pending) = {})
      BY <2>1, <2>5 DEF OpOwned
    <3>4. o.safe => Foreign(b, o.cp.pending) = {}
      BY <3>2, <3>3
    <3> QED BY <3>2, <3>3, <3>4
  <2> QED BY <2>2, <2>3, <2>4, <2>5 DEF OpOwned
<1> QED BY <1>2, <1>6, <1>7 DEF OwnOK

-----------------------------------------------------------------------------
(* Whose rows are whose: what becomes of an operation *)

\* No row more is to be deleted.
Drops(o, q) == \A s \in Steps(q.todo) : s.do = "delete" => s \in Steps(o.todo)

LEMMA DropsNext ==
  ASSUME NEW o, NEW q, NEW h, AtStep(o, h), NEW s \in Seq(StepSet), q.todo = s \o Tail(o.todo), "delete" \notin Dos(s)
  PROVE  Drops(o, q)
<1>1. Tail(o.todo) \in Seq(StepSet) /\ Steps(Tail(o.todo)) \subseteq Steps(o.todo)
  BY RestIs DEF Rest
<1>2. Steps(q.todo) = Steps(s) \cup Steps(Tail(o.todo))
  BY <1>1, Joined
<1>3. \A x \in Steps(s) : x.do # "delete"
  BY DEF Dos
<1> QED BY <1>1, <1>2, <1>3 DEF Drops

LEMMA DropsPops ==
  ASSUME NEW o, NEW q, NEW h, AtStep(o, h), q.todo = <<>> \o Tail(o.todo)
  PROVE  Drops(o, q)
BY NoSteps, DropsNext

LEMMA DropsFailing ==
  ASSUME NEW o, NEW q, Good(o), Failing(o, q)
  PROVE  \A s \in Steps(q.todo) : s.do # "delete"
<1>1. CASE q.todo = RollbackPlan
  BY <1>1, RollbackPlanIs DEF Plain, Dos
<1>2. CASE o.fallback /\ q.todo = o.instead
  <2>1. PICK at \in Selections : o.instead = Finishing(at)
    BY <1>2 DEF Good, Planned, Stage
  <2> QED BY <1>2, <2>1, FinishingIs
<1>3. CASE q.todo = <<Do("fail")>>
  <2>1. Do("fail") \in StepSet /\ Do("fail").do = "fail"
    BY PlainStep DEF PlainDos
  <2> QED BY <1>3, <2>1, OneStep
<1> QED BY <1>1, <1>2, <1>3 DEF Failing

\* The record stays, in memory and on file.
LEMMA OwnSame ==
  ASSUME NEW a, NEW sv, NEW o, NEW q, OwnOK(a, sv, o), Running(o), Good(q), Drops(o, q),
         q.cp = o.cp, Owned(a, q.row), q.safe => o.safe
  PROVE  OwnOK(a, sv, q)
<1>1. OpOwned(a, sv, o)
  BY DEF OwnOK
<1>2. \A s \in Steps(q.todo) : s.do = "delete" => s.id \in a.ours
  BY <1>1 DEF OpOwned, Drops
<1>3. OpOwned(a, sv, q)
  BY <1>1, <1>2 DEF OpOwned, Good
<1> QED BY <1>3 DEF OwnOK

\* The record of the operation is on file.
LEMMA OwnRecord ==
  ASSUME NEW a, NEW q, \A i \in RowsOf(a) : i < a.next, Good(q), Owned(a, q.row),
         \A s \in Steps(q.todo) : s.do = "delete" => s.id \in a.ours,
         q.cp # None, RecordsOwned(a, q.cp),
         q.cp.pending # None => JournalOK(a, q.cp.pending) /\ (q.safe => Foreign(a, q.cp.pending) = {})
  PROVE  OwnOK(a, q.cp, q)
<1>1. OpOwned(a, q.cp, q)
  BY DEF OpOwned, SamePending, Good
<1> QED BY <1>1 DEF OwnOK

LEMMA OwnIdle ==
  ASSUME NEW a, NEW sv, NEW o, NEW q, OwnOK(a, sv, o), ~Running(q)
  PROVE  OwnOK(a, sv, q)
BY DEF OwnOK

LEMMA OwnFailing ==
  ASSUME NEW a, NEW sv, NEW o, NEW q, OwnOK(a, sv, o), Good(o), o.todo # <<>>, Failing(o, q)
  PROVE  OwnOK(a, sv, q)
<1>1. Good(q)
  BY FailingPlanned DEF Good
<1>2. Drops(o, q)
  BY DropsFailing DEF Drops
<1>3. q.cp = o.cp /\ q.row = o.row /\ ~q.safe
  BY DEF Failing
<1>4. Running(o)
  BY IsRunning DEF Good
<1>5. Owned(a, q.row)
  BY <1>3, <1>4 DEF OwnOK, OpOwned
<1> QED BY <1>1, <1>2, <1>3, <1>4, <1>5, OwnSame

LEMMA OwnFails ==
  ASSUME NEW a, NEW sv, NEW o, NEW q, NEW h, OwnOK(a, sv, o), Fails1(o, q, h)
  PROVE  OwnOK(a, sv, q)
BY OwnFailing DEF Fails1, AtStep, Good

\* A step leaves the record, and the row or one that is owned too.
LEMMA OwnPops ==
  ASSUME NEW a, NEW sv, NEW o, NEW q, NEW h, NEW before, NEW row, NEW fallback, OwnOK(a, sv, o), Good(q),
         Pops(o, q, h, o.cp, before, row, o.safe, fallback), Owned(a, row) \/ row = o.row
  PROVE  OwnOK(a, sv, q)
<1>1. AtStep(o, h) /\ q.todo = <<>> \o Tail(o.todo) /\ q.cp = o.cp /\ q.row = row /\ q.safe = o.safe
  BY DEF Pops, Frame
<1>2. Running(o)
  BY <1>1, IsRunning DEF AtStep
<1>3. Owned(a, q.row)
  BY <1>1, <1>2 DEF OwnOK, OpOwned
<1> QED BY <1>1, <1>2, <1>3, DropsPops, OwnSame

LEMMA OwnPlainly ==
  ASSUME NEW a, NEW sv, NEW o, NEW q, NEW h, OwnOK(a, sv, o), Good(q), Plainly(o, q, h)
  PROVE  OwnOK(a, sv, q)
BY OwnPops DEF Plainly

\* More steps come, and none deletes a row.
LEMMA OwnSteps ==
  ASSUME NEW a, NEW sv, NEW o, NEW q, NEW h, NEW s \in Seq(StepSet), OwnOK(a, sv, o), Good(q), AtStep(o, h),
         Frame(o, q, o.cp, o.before, o.row, o.safe, o.fallback), q.todo = s \o Tail(o.todo), "delete" \notin Dos(s)
  PROVE  OwnOK(a, sv, q)
<1>1. q.cp = o.cp /\ q.row = o.row /\ q.safe = o.safe
  BY DEF Frame
<1>2. Running(o)
  BY IsRunning DEF AtStep
<1>3. Owned(a, q.row)
  BY <1>1, <1>2 DEF OwnOK, OpOwned
<1> QED BY <1>1, <1>2, <1>3, DropsNext, OwnSame

LEMMA OwnSets ==
  ASSUME NEW a, NEW sv, NEW o, NEW q, NEW h, NEW to, OwnOK(a, sv, o), Good(q), SetsTo(a, o, q, h, to)
  PROVE  OwnOK(a, sv, q)
<1>1. PICK s \in Seq(StepSet) : Sets(a, to, s) /\ q.todo = s \o Tail(o.todo)
  BY DEF SetsTo
<1>2. "delete" \notin Dos(s)
  BY <1>1 DEF Sets
<1> QED BY <1>1, <1>2, OwnSteps DEF SetsTo

LEMMA OwnNative ==
  ASSUME NEW a, NEW sv, NEW o, NEW q, OwnOK(a, sv, o), Good(q), NativeTo(a, o, q)
  PROVE  OwnOK(a, sv, q)
<1>1. PICK s \in Seq(StepSet), to \in Targets :
        Sets(a, to, s) /\ q.todo = (s \o <<[do |-> "awaittargets", to |-> to]>>) \o Tail(o.todo)
  BY DEF NativeTo
<1> DEFINE w == [do |-> "awaittargets", to |-> to]
           t == s \o <<w>>
<1>2. w \in StepSet /\ w.do = "awaittargets"
  BY DEF StepSet
<1> HIDE DEF w
<1>3. <<w>> \in Seq(StepSet) /\ Dos(<<w>>) = {"awaittargets"}
  BY <1>2, OneStep
<1>4. t \in Seq(StepSet) /\ Dos(t) = Dos(s) \cup {"awaittargets"}
  BY <1>3, Joined
<1>5. "delete" \notin Dos(t)
  BY <1>1, <1>4 DEF Sets
<1>6. q.todo = t \o Tail(o.todo)
  BY <1>1 DEF w
<1> HIDE DEF t
<1> QED BY <1>4, <1>5, <1>6, OwnSteps DEF NativeTo

LEMMA OwnCreate ==
  ASSUME NEW a, NEW sv, NEW o, NEW q, OwnOK(a, sv, o), Good(q), CreateTo(o, q)
  PROVE  OwnOK(a, sv, q)
<1> DEFINE c == [do |-> "create", input |-> o.want]
<1>1. AtStep(o, "row") /\ o.want \in Inputs
  <2>1. AtStep(o, "row") /\ o.call = "switch"
    BY RecordThere DEF CreateTo, SwitchDos
  <2> QED BY <2>1 DEF AtStep, Planned, Shape
<1>2. c \in StepSet /\ c.do = "create"
  BY <1>1 DEF StepSet
<1>3. q.todo = <<c>> \o Tail(o.todo)
  BY DEF CreateTo
<1> HIDE DEF c
<1>4. <<c>> \in Seq(StepSet) /\ "delete" \notin Dos(<<c>>)
  BY <1>2, OneStep
<1> QED BY <1>1, <1>3, <1>4, OwnSteps DEF CreateTo

-----------------------------------------------------------------------------
(* Whose rows are whose: records *)

\* The record of a running operation.
OwnedRecord(a, sv, o) ==
  /\ Running(o) /\ OpOwned(a, sv, o) /\ \A i \in RowsOf(a) : i < a.next
  /\ o.cp # None => sv # None /\ RecordsOwned(a, o.cp)

LEMMA OwnedAt ==
  ASSUME NEW a, NEW sv, NEW o, NEW h, OwnOK(a, sv, o), AtStep(o, h)
  PROVE  OwnedRecord(a, sv, o)
<1>1. Running(o)
  BY IsRunning DEF AtStep
<1> QED BY <1>1 DEF OwnOK, OpOwned, OwnedRecord

LEMMA WrittenOwn ==
  ASSUME NEW a, NEW f, NEW cp, NEW to, NEW add, Written(a, f, cp, to, add), RecordsOwned(a, cp),
         \A i \in RowsOf(a) : i < a.next
  PROVE  to # None /\ RecordsOwned(a, to) /\ JournalOK(a, to.pending) /\ Foreign(a, to.pending) = {}
<1> DEFINE p == to.pending
<1>1. /\ to \in Checkpoints /\ to.managed = cp.managed /\ p.ids = RowsOf(a) /\ p.created = None
      /\ ReadRow(a, cp.managed, p.previous)
  BY DEF Written
<1>2. Owned(a, cp.managed)
  BY DEF RecordsOwned
<1>3. Owned(a, p.previous) /\ (p.previous # None => p.previous.id \in RowsOf(a))
  BY <1>1, <1>2 DEF ReadRow, Owned
<1>4. Owned(a, p.created)
  BY <1>1 DEF Owned
<1>5. Foreign(a, p) = {}
  BY <1>1 DEF Foreign
<1> HIDE DEF p
<1>6. JournalOK(a, p)
  BY <1>1, <1>3, <1>5 DEF JournalOK
<1>7. RecordsOwned(a, to)
  BY <1>1, <1>2, <1>3, <1>4 DEF RecordsOwned, p
<1> QED BY <1>1, <1>5, <1>6, <1>7, CheckpointIs DEF p

LEMMA OwnJournal ==
  ASSUME NEW a, NEW f, NEW sv, NEW o, NEW q, OwnOK(a, sv, o), Good(q), JournalTo(a, f, o, q)
  PROVE  OwnOK(a, q.cp, q)
<1>1. AtStep(o, "journal") /\ q.todo = <<>> \o Tail(o.todo) /\ q.row = o.row
  BY DEF JournalTo, Pops, Frame
<1>2. OwnedRecord(a, sv, o) /\ o.cp # None
  BY <1>1, OwnedAt, RecordThere
<1>3. Drops(o, q)
  BY <1>1, DropsPops
<1>4. q.cp # None /\ RecordsOwned(a, q.cp) /\ JournalOK(a, q.cp.pending) /\ Foreign(a, q.cp.pending) = {}
  BY <1>2, WrittenOwn DEF JournalTo, OwnedRecord
<1>5. Owned(a, q.row) /\ \A s \in Steps(q.todo) : s.do = "delete" => s.id \in a.ours
  BY <1>1, <1>2, <1>3 DEF OwnedRecord, OpOwned, Drops
<1>6. \A i \in RowsOf(a) : i < a.next
  BY <1>2 DEF OwnedRecord
<1> QED BY <1>4, <1>5, <1>6, OwnRecord

LEMMA OwnReturn ==
  ASSUME NEW a, NEW f, NEW sv, NEW o, NEW q, OwnOK(a, sv, o), Good(q), ReturnTo(a, f, o, q)
  PROVE  OwnOK(a, q.cp, q)
<1>1. AtStep(o, "decide") /\ q.todo = ReturnPlan /\ q.row = o.row
  BY DEF ReturnTo, Frame
<1>2. OwnedRecord(a, sv, o) /\ o.cp # None
  BY <1>1, OwnedAt, RecordThere
<1>3. \A s \in Steps(q.todo) : s.do # "delete"
  BY <1>1, ReturnPlanIs DEF Plain, Dos
<1>4. q.cp # None /\ RecordsOwned(a, q.cp) /\ JournalOK(a, q.cp.pending) /\ Foreign(a, q.cp.pending) = {}
  BY <1>2, WrittenOwn DEF ReturnTo, OwnedRecord
<1>5. Owned(a, q.row) /\ \A i \in RowsOf(a) : i < a.next
  BY <1>1, <1>2 DEF OwnedRecord, OpOwned
<1> QED BY <1>3, <1>4, <1>5, OwnRecord

LEMMA OwnRow ==
  ASSUME NEW a, NEW sv, NEW o, NEW q, OwnOK(a, sv, o), Good(q), RowTo(o, q)
  PROVE  OwnOK(a, sv, q)
<1>1. Pops(o, q, "row", o.cp, o.before, q.row, o.safe, o.fallback) /\ AtStep(o, "row")
  BY DEF RowTo, Pops
<1>2. o.cp # None /\ o.cp.pending # None
  BY <1>1, RecordThere DEF SwitchDos
<1>3. Owned(a, o.cp.pending.previous)
  BY <1>1, <1>2, OwnedAt DEF OwnedRecord, RecordsOwned
<1>4. Owned(a, q.row)
  BY <1>3 DEF RowTo, Owned
<1> QED BY <1>1, <1>4, OwnPops

\* A row that is new and looks like the one to be made is AT-Switch's.
LEMMA NotesOwn ==
  ASSUME NEW a, NEW sv, NEW o, NEW cp, NEW r, OwnOK(a, sv, o), AtStep(o, "create"), Notes(a, o, cp, r, Head(o.todo).input)
  PROVE  /\ Owned(a, r) /\ cp # None /\ cp.pending # None /\ RecordsOwned(a, cp) /\ JournalOK(a, cp.pending)
         /\ o.safe => Foreign(a, cp.pending) = {}
         /\ sv # None /\ sv.pending # None /\ SamePending(cp.pending, sv.pending)
<1> DEFINE p == o.cp.pending x == Head(o.todo).input
<1>1. OwnedRecord(a, sv, o) /\ o.cp # None /\ p # None
  BY OwnedAt, RecordThere DEF Changing
<1>2. /\ JournalOK(a, p) /\ (o.safe => Foreign(a, p) = {}) /\ RecordsOwned(a, o.cp)
      /\ sv # None /\ sv.pending # None /\ SamePending(p, sv.pending)
  BY <1>1 DEF OwnedRecord, OpOwned
<1>3. Owned(a, o.cp.managed) /\ Owned(a, p.previous) /\ Owned(a, p.created)
  BY <1>1, <1>2 DEF RecordsOwned
<1>4. ~o.safe => p.previous # None /\ x = p.previous.input
  <2>1. Head(o.todo) \in Steps(o.todo) /\ Head(o.todo).do = "create"
    BY RestIs DEF Rest, AtStep
  <2>2. Made(o, Head(o.todo))
    BY <2>1 DEF AtStep, Planned
  <2> QED BY <2>1, <2>2 DEF Made
<1>5. Notes(a, o, cp, r, x)
  OBVIOUS
<1> HIDE DEF p, x
<1>6. /\ r \in Records /\ r # None /\ r.selected /\ r.id \in RowsOf(a) /\ a.rows[r.id] = x
      /\ r.own <=> r.id \notin p.ids
      /\ cp \in Checkpoints /\ cp.managed = o.cp.managed /\ cp.pending # None
      /\ SamePending(cp.pending, p) /\ cp.pending.created = IF r.own THEN r ELSE p.created
  BY <1>5 DEF Notes, p
<1>7. Owned(a, r)
  <2> SUFFICES ASSUME r.own, r.id \notin a.ours PROVE FALSE
    BY DEF Owned
  <2>1. r.id \in Foreign(a, p)
    BY <1>6 DEF Foreign
  <2>2. ~o.safe /\ p.previous # None /\ a.rows[r.id] = p.previous.input
    BY <1>2, <1>4, <1>6, <2>1
  <2> QED BY <1>2, <2>1, <2>2 DEF JournalOK
<1>8. cp.pending.ids = p.ids /\ cp.pending.previous = p.previous /\ cp.pending.add = p.add
  BY <1>6 DEF SamePending
<1>9. RecordsOwned(a, cp)
  BY <1>3, <1>6, <1>7, <1>8 DEF RecordsOwned
<1>10. Foreign(a, cp.pending) = Foreign(a, p)
  BY <1>8 DEF Foreign
<1>11. JournalOK(a, cp.pending)
  BY <1>2, <1>6, <1>8, <1>10 DEF JournalOK
<1>12. SamePending(cp.pending, sv.pending)
  BY <1>2, <1>6 DEF SamePending
<1>13. cp # None
  BY <1>6, CheckpointIs
<1> QED BY <1>2, <1>6, <1>7, <1>9, <1>10, <1>11, <1>12, <1>13

LEMMA OwnFound ==
  ASSUME NEW a, NEW sv, NEW o, NEW q, OwnOK(a, sv, o), Good(q), FoundTo(a, o, q)
  PROVE  OwnOK(a, q.cp, q)
<1>1. AtStep(o, "create") /\ q.todo = <<>> \o Tail(o.todo) /\ q.safe = o.safe /\ Notes(a, o, q.cp, q.row, Head(o.todo).input)
  BY DEF FoundTo, Pops, Frame
<1>2. OwnedRecord(a, sv, o) /\ Drops(o, q)
  BY <1>1, OwnedAt, DropsPops
<1>3. \A s \in Steps(q.todo) : s.do = "delete" => s.id \in a.ours
  BY <1>2 DEF OwnedRecord, OpOwned, Drops
<1>4. \A i \in RowsOf(a) : i < a.next
  BY <1>2 DEF OwnedRecord
<1> QED BY <1>1, <1>3, <1>4, NotesOwn, OwnRecord

\* What is found is noted in memory only, ...
LEMMA OwnNoting ==
  ASSUME NEW a, NEW sv, NEW o, NEW u, OwnOK(a, sv, o), Good(u), Noting(a, o, u)
  PROVE  OwnOK(a, sv, u)
<1>1. /\ AtStep(o, "create") /\ u.todo = o.todo /\ u.safe = o.safe /\ u.row = o.row
      /\ \E r \in Records : Notes(a, o, u.cp, r, Head(o.todo).input)
  BY DEF Noting, Frame
<1>2. OwnedRecord(a, sv, o)
  BY <1>1, OwnedAt
<1>3. /\ u.cp # None /\ u.cp.pending # None /\ RecordsOwned(a, u.cp) /\ JournalOK(a, u.cp.pending)
      /\ u.safe => Foreign(a, u.cp.pending) = {}
      /\ sv # None /\ sv.pending # None /\ SamePending(u.cp.pending, sv.pending)
  BY <1>1, NotesOwn
<1>4. Owned(a, u.row) /\ \A s \in Steps(u.todo) : s.do = "delete" => s.id \in a.ours
  BY <1>1, <1>2 DEF OwnedRecord, OpOwned
<1>5. OpOwned(a, sv, u)
  BY <1>3, <1>4 DEF OpOwned, Good
<1> QED BY <1>5 DEF OwnOK

\* ... and so is what is kept.
LEMMA KeptOwn ==
  ASSUME NEW a, NEW sv, NEW o, NEW cp, OwnOK(a, sv, o), AtStep(o, "keep"), Keeping(o, cp)
  PROVE  /\ cp # None /\ RecordsOwned(a, cp) /\ cp.pending = o.cp.pending /\ cp.pending # None
         /\ OwnedRecord(a, sv, o) /\ o.cp # None
<1>1. OwnedRecord(a, sv, o) /\ o.cp # None /\ o.cp.pending # None
  <2>1. o.safe
    BY RecordThere
  <2> QED BY <2>1, OwnedAt, RecordThere
<1>2. RecordsOwned(a, o.cp) /\ Owned(a, o.row) /\ Owned(a, o.cp.managed)
  BY <1>1 DEF OwnedRecord, OpOwned, RecordsOwned
<1>3. o.call = "restore" => o.cp.managed # None
  BY RecordThere
<1>4. cp \in Checkpoints /\ cp.pending = o.cp.pending
  BY DEF Keeping
<1>5. Owned(a, cp.managed)
  <2>1. o.call \in {"switch", "restore"}
    BY OpIs DEF AtStep
  <2>2. CASE o.call = "switch"
    <3>1. cp.managed = o.row
      BY <2>2 DEF Keeping
    <3> QED BY <1>2, <3>1
  <2>3. CASE o.call = "restore"
    <3>1. cp.managed # None /\ cp.managed.id = o.cp.managed.id /\ cp.managed.own = o.cp.managed.own
      BY <2>3 DEF Keeping
    <3> QED BY <1>2, <1>3, <2>3, <3>1 DEF Owned
  <2> QED BY <2>1, <2>2, <2>3
<1>6. RecordsOwned(a, cp)
  BY <1>2, <1>4, <1>5 DEF RecordsOwned
<1> QED BY <1>1, <1>4, <1>6, CheckpointIs

LEMMA OwnKeep ==
  ASSUME NEW a, NEW sv, NEW o, NEW q, OwnOK(a, sv, o), Good(q), KeepTo(o, q)
  PROVE  OwnOK(a, q.cp, q)
<1>1. AtStep(o, "keep") /\ q.todo = <<>> \o Tail(o.todo) /\ q.safe = o.safe /\ q.row = o.row /\ Keeping(o, q.cp)
  BY DEF KeepTo, Pops, Frame
<1>2. /\ q.cp # None /\ RecordsOwned(a, q.cp) /\ q.cp.pending = o.cp.pending /\ q.cp.pending # None
      /\ OwnedRecord(a, sv, o) /\ o.cp # None
  BY <1>1, KeptOwn
<1>3. Drops(o, q)
  BY <1>1, DropsPops
<1>4. /\ JournalOK(a, q.cp.pending) /\ (q.safe => Foreign(a, q.cp.pending) = {}) /\ Owned(a, q.row)
      /\ \A s \in Steps(q.todo) : s.do = "delete" => s.id \in a.ours
  BY <1>1, <1>2, <1>3 DEF OwnedRecord, OpOwned, Drops
<1>5. \A i \in RowsOf(a) : i < a.next
  BY <1>2 DEF OwnedRecord
<1> QED BY <1>2, <1>4, <1>5, OwnRecord

LEMMA OwnKeeping ==
  ASSUME NEW a, NEW sv, NEW o, NEW u, OwnOK(a, sv, o), Good(u), KeepingAs(o, u)
  PROVE  OwnOK(a, sv, u)
<1>1. AtStep(o, "keep") /\ u.todo = o.todo /\ u.safe = o.safe /\ u.row = o.row /\ Keeping(o, u.cp)
  BY DEF KeepingAs, Frame
<1>2. /\ u.cp # None /\ RecordsOwned(a, u.cp) /\ u.cp.pending = o.cp.pending /\ u.cp.pending # None
      /\ OwnedRecord(a, sv, o) /\ o.cp # None
  BY <1>1, KeptOwn
<1>3. OpOwned(a, sv, u)
  BY <1>1, <1>2 DEF OwnedRecord, OpOwned, Good
<1> QED BY <1>3 DEF OwnOK

LEMMA OwnDone ==
  ASSUME NEW a, NEW sv, NEW o, NEW q, NEW h, NEW m, OwnOK(a, sv, o), Good(q), DoneTo(o, q, h, m), Owned(a, m)
  PROVE  OwnOK(a, q.cp, q)
<1>1. /\ AtStep(o, h) /\ q.todo = <<>> \o Tail(o.todo) /\ q.row = o.row
      /\ q.cp \in Checkpoints /\ q.cp.managed = m /\ q.cp.pending = None
  BY DEF DoneTo, Pops, Frame
<1>2. OwnedRecord(a, sv, o) /\ Drops(o, q)
  BY <1>1, OwnedAt, DropsPops
<1>3. Owned(a, q.row) /\ \A s \in Steps(q.todo) : s.do = "delete" => s.id \in a.ours
  BY <1>1, <1>2 DEF OwnedRecord, OpOwned, Drops
<1>4. RecordsOwned(a, q.cp) /\ q.cp # None
  BY <1>1, CheckpointIs DEF RecordsOwned
<1>5. \A i \in RowsOf(a) : i < a.next
  BY <1>2 DEF OwnedRecord
<1> QED BY <1>1, <1>3, <1>4, <1>5, OwnRecord

LEMMA OwnRejournal ==
  ASSUME NEW a, NEW sv, NEW o, NEW q, OwnOK(a, sv, o), Good(q), Plainly(o, q, "rejournal")
  PROVE  OwnOK(a, o.cp, q)
<1>1. AtStep(o, "rejournal") /\ q.cp = o.cp
  BY DEF Plainly, Pops, Frame
<1>2. OwnOK(a, sv, q)
  BY OwnPlainly
<1>3. o.cp # None /\ Running(q)
  BY <1>1, RecordThere, IsRunning DEF Good
<1>4. OpOwned(a, sv, q) /\ \A i \in RowsOf(a) : i < a.next
  BY <1>2, <1>3 DEF OwnOK
<1> QED BY <1>1, <1>3, <1>4, OwnRecord DEF OpOwned, Good

\* recover_pending deletes only a row that AT-Switch made.
LEMMA OwnUndo ==
  ASSUME NEW a, NEW sv, NEW o, NEW q, OwnOK(a, sv, o), Good(q), UndoTo(a, o, q)
  PROVE  OwnOK(a, sv, q)
<1> DEFINE p == o.cp.pending
<1>1. AtStep(o, "undo") /\ q.cp = o.cp /\ q.safe = o.safe
  BY DEF UndoTo, Frame
<1>2. PICK s \in Seq(StepSet) : q.todo = s \o Tail(o.todo) /\ UndoSteps(a, p, q.row, Dos(s), Steps(s))
  BY DEF UndoTo
<1>3. OwnedRecord(a, sv, o) /\ o.cp # None /\ p # None
  BY <1>1, OwnedAt, RecordThere DEF Changing
<1>4. Owned(a, p.previous) /\ Owned(a, p.created) /\ JournalOK(a, p)
  BY <1>3 DEF OwnedRecord, OpOwned, RecordsOwned
<1> HIDE DEF p
<1>5. Owned(a, q.row)
  BY <1>2, <1>4 DEF UndoSteps, Owned
<1>6. \A x \in Steps(s) : x.do = "delete" => \E i \in Ids : CandidatesIn(a, p, {i}) /\ x.id = i /\ p.previous = None
  <2>1. \A E : \A x \in Plains(E) : x.do \in E
    BY DEF Plains, Do
  <2>2. "delete" \notin RestDos /\ "delete" \notin NativeDos /\ "delete" \notin RestDos \cup {"remap"}
    BY DEF RestDos, NativeDos
  <2>3. \A x \in Plains(RestDos) \cup Plains(RestDos \cup {"remap"}) \cup Plains(NativeDos) : x.do # "delete"
    BY <2>1, <2>2
  <2> DEFINE m == [do |-> "modify", id |-> p.previous.id, input |-> p.previous.input]
             c == [do |-> "create", input |-> p.previous.input]
  <2>4. m.do # "delete" /\ c.do # "delete"
    OBVIOUS
  <2>5. CASE Steps(s) \subseteq Plains(RestDos) \cup Plains(RestDos \cup {"remap"}) \cup Plains(NativeDos) \cup {m, c}
    BY <2>3, <2>4, <2>5
  <2>6. ASSUME NEW i \in Ids, CandidatesIn(a, p, {i}), Steps(s) = Plains(NativeDos) \cup {[do |-> "delete", id |-> i]},
               p.previous = None
        PROVE  \A x \in Steps(s) : x.do = "delete" => CandidatesIn(a, p, {i}) /\ x.id = i /\ p.previous = None
    BY <2>3, <2>6
  <2>7. \/ Steps(s) \subseteq Plains(RestDos) \cup Plains(RestDos \cup {"remap"}) \cup Plains(NativeDos) \cup {m, c}
        \/ /\ p.previous = None
           /\ \E i \in Ids : CandidatesIn(a, p, {i}) /\ Steps(s) = Plains(NativeDos) \cup {[do |-> "delete", id |-> i]}
    BY <1>2 DEF UndoSteps
  <2> QED BY <2>5, <2>6, <2>7
<1>7. ASSUME NEW i, CandidatesIn(a, p, {i}), p.previous = None
      PROVE  i \in a.ours
  <2>1. CASE p.created # None
    BY <1>4, <1>7, <2>1 DEF CandidatesIn, JournalOK, Owned
  <2>2. CASE p.created = None
    <3>1. i \in RowsOf(a) \ p.ids /\ a.rows[i] = p.add
      BY <1>7, <2>2 DEF CandidatesIn
    <3> QED BY <1>4, <3>1 DEF JournalOK, Foreign
  <2> QED BY <2>1, <2>2
<1>8. Tail(o.todo) \in Seq(StepSet) /\ Steps(Tail(o.todo)) \subseteq Steps(o.todo)
  BY <1>1, RestIs DEF Rest
<1>9. Steps(q.todo) = Steps(s) \cup Steps(Tail(o.todo))
  BY <1>2, <1>8, Joined
<1>10. \A x \in Steps(q.todo) : x.do = "delete" => x.id \in a.ours
  BY <1>3, <1>6, <1>7, <1>8, <1>9 DEF OwnedRecord, OpOwned
<1>11. OpOwned(a, sv, q)
  BY <1>1, <1>3, <1>5, <1>10 DEF OwnedRecord, OpOwned, Good
<1> QED BY <1>11 DEF OwnOK

\* A new operation takes up the record that is on file.
LEMMA OwnSwitchBegins ==
  ASSUME NEW a, NEW f, NEW sv, NEW o, NEW q, OwnOK(a, sv, o), Good(q), SwitchTo(a, f, sv, q)
  PROVE  OwnOK(a, q.cp, q)
<1>1. q.row = None /\ ~q.safe /\ OnFile(a, f, sv, q.cp)
  BY DEF SwitchTo, Started1
<1>2. PICK s \in {<<>>, Recovery} : q.todo = s \o ForwardPlan
  BY DEF SwitchTo
<1>3. Steps(s \o ForwardPlan) = Steps(s) \cup Steps(ForwardPlan)
  BY RecoveryIs, ForwardPlanIs, Joined DEF Plain
<1>4. \A x \in Steps(s) : x.do # "delete"
  <2>1. Do("undo") \in StepSet /\ Do("undo").do = "undo"
    BY PlainStep DEF PlainDos
  <2> QED BY <2>1, OneStep, NoSteps DEF Recovery
<1>5. \A x \in Steps(ForwardPlan) : x.do # "delete"
  BY ForwardPlanIs DEF Plain, Dos
<1>6. \A x \in Steps(q.todo) : x.do = "delete" => x.id \in a.ours
  BY <1>2, <1>3, <1>4, <1>5
<1>7. q.cp # None /\ RecordsOwned(a, q.cp) /\ (q.cp.pending # None => JournalOK(a, q.cp.pending))
  <2>1. CASE sv # None
    BY <1>1, <2>1 DEF OnFile, OwnOK
  <2>2. CASE sv = None
    <3>1. q.cp \in Checkpoints /\ q.cp.managed = None /\ q.cp.pending = None
      BY <1>1, <2>2 DEF OnFile
    <3> QED BY <3>1, CheckpointIs DEF RecordsOwned, Owned
  <2> QED BY <2>1, <2>2
<1>8. Owned(a, q.row) /\ \A i \in RowsOf(a) : i < a.next
  BY <1>1 DEF Owned, OwnOK
<1> QED BY <1>1, <1>6, <1>7, <1>8, OwnRecord

LEMMA OwnRestoreBegins ==
  ASSUME NEW a, NEW f, NEW sv \in Checkpoints \cup {None}, NEW o, NEW q, OwnOK(a, sv, o), Good(q), RestoreTo(a, f, sv, q)
  PROVE  OwnOK(a, sv, q)
<1>1. q.row = None /\ ~q.safe /\ q.cp = sv
  BY DEF RestoreTo, Started1
<1>2. \A x \in Steps(q.todo) : x.do # "delete"
  <2>1. ASSUME NEW d \in {"commit", "decide", "undo"}
        PROVE  <<Do(d)>> \in Seq(StepSet) /\ \A x \in Steps(<<Do(d)>>) : x.do # "delete"
    <3>1. Do(d) \in StepSet /\ Do(d).do = d
      BY PlainStep DEF PlainDos
    <3> QED BY <3>1, OneStep
  <2>2. CASE q.todo = <<Do("commit")>>
    BY <2>1, <2>2
  <2>3. ASSUME NEW s \in {<<>>, Recovery}, q.todo = s \o <<Do("decide")>>
        PROVE  \A x \in Steps(q.todo) : x.do # "delete"
    <3>1. s \in Seq(StepSet) /\ \A x \in Steps(s) : x.do # "delete"
      BY <2>1, RecoveryIs, NoSteps DEF Recovery
    <3> QED BY <2>1, <2>3, <3>1, Joined
  <2>4. CASE sv # None /\ Journalling(sv) /\ q.todo = Finishing(sv.pending.before)
    <3>1. sv.pending.before \in Selections
      BY <2>4, CheckpointIs DEF Journalling
    <3> QED BY <2>4, <3>1, FinishingIs
  <2> QED BY <2>2, <2>3, <2>4 DEF RestoreTo
<1>3. sv # None => RecordsOwned(a, sv) /\ (sv.pending # None => JournalOK(a, sv.pending) /\ SamePending(sv.pending, sv.pending))
  BY DEF OwnOK, SamePending
<1>4. Planned(q) /\ Owned(a, q.row)
  BY <1>1 DEF Good, Owned
<1>5. OpOwned(a, sv, q)
  BY <1>1, <1>2, <1>3, <1>4 DEF OpOwned
<1> QED BY <1>5 DEF OwnOK

-----------------------------------------------------------------------------
(* Whose rows are whose: every step of the specification *)

Owns == OwnOK(account, saved, op)

LEMMA OwnAccount ==
  ASSUME Live, Owns, \/ account' = account
                     \/ Widens(account, account') /\ \A p : Leaves(account, account', p)
  PROVE  OwnOK(account', saved, op)
<1>1. CASE account' = account
  BY <1>1 DEF Owns
<1>2. CASE Widens(account, account') /\ \A p : Leaves(account, account', p)
  BY <1>2, OwnWidens DEF Live, Owns
<1> QED BY <1>1, <1>2

\* The row that was managed is in the account that the journal is about.
LEMMA OwnModified ==
  ASSUME Live, Owns, NEW h, AtStep(op, h), op.cp # None, op.cp.pending # None, op.cp.pending.previous # None,
         NEW c, c.id = op.cp.pending.previous.id, ModifiedAt(account, account', c, {})
  PROVE  OwnOK(account', saved, op)
<1>1. OwnedRecord(account, saved, op)
  BY OwnedAt DEF Owns
<1>2. c.id \in op.cp.pending.ids
  BY <1>1 DEF OwnedRecord, OpOwned, JournalOK
<1>3. saved.pending # None => saved.pending.ids = op.cp.pending.ids
  BY <1>1 DEF OwnedRecord, OpOwned, SamePending
<1>4. \A p \in Journals(saved, op) : c.id \in p.ids
  BY <1>2, <1>3 DEF Journals
<1>5. IsModified(account, account', c.id, c.input, {})
  BY DEF ModifiedAt
<1>6. Widens(account, account') /\ \A p : c.id \in p.ids => Leaves(account, account', p)
  BY <1>5, RequestWidens DEF Live, Typed
<1> QED BY <1>4, <1>6, OwnWidens DEF Live, Owns

LEMMA OwnRequested ==
  ASSUME Live, Owns, saved' = saved, NEW done, NEW h \in {"set", "modify", "delete"}, Requested(done, op, op', h),
         done => OwnOK(account', saved, op)
  PROVE  Owns'
<1>1. OwnOK(account', saved, op)
  BY OwnAccount DEF Requested, AccountStays
<1>2. CASE Plainly(op, op', h)
  <2>1. h \notin {"journal", "row", "create", "undo"}
    OBVIOUS
  <2>2. Good(op')
    BY <1>2, <2>1, PlainlyPlanned
  <2> QED BY <1>1, <1>2, <2>2, OwnPlainly DEF Owns
<1>3. CASE Fails1(op, op', h)
  BY <1>1, <1>3, OwnFails DEF Owns
<1> QED BY <1>2, <1>3 DEF Requested

LEMMA OwnPlainStep ==
  ASSUME Live, Owns, account' = account, saved' = saved, NEW h,
         \/ Plainly(op, op', h) /\ h \notin {"journal", "row", "create", "undo"}
         \/ Fails1(op, op', h)
  PROVE  Owns'
<1>1. CASE Plainly(op, op', h) /\ h \notin {"journal", "row", "create", "undo"}
  BY <1>1, PlainlyPlanned, OwnPlainly DEF Owns
<1>2. CASE Fails1(op, op', h)
  BY <1>2, OwnFails DEF Owns
<1> QED BY <1>1, <1>2

LEMMA OwnWrote ==
  ASSUME Live, Owns, NEW h \in {"write", "writebefore"}, NEW to, WroteTo(to, op, op', h)
  PROVE  Owns'
<1>1. h \notin {"journal", "row", "create", "undo"}
  OBVIOUS
<1> QED BY <1>1, OwnPlainStep DEF WroteTo

LEMMA OwnAwaited ==
  ASSUME Live, Owns, OnlyOp, NEW h \in {"await", "awaitbefore", "awaittargets"}, NEW pref, NEW row, Awaited(pref, row, op, op', h)
  PROVE  Owns'
<1>1. h \notin {"journal", "row", "create", "undo"}
  OBVIOUS
<1> QED BY <1>1, OwnPlainStep DEF Awaited, OnlyOp

LEMMA SwitchStepOwns ==
  ASSUME Live, Owns, SwitchStep
  PROVE  Owns'
<1>1. CASE Journal
  <2>1. account' = account
    BY <1>1, JournalIs DEF AccountStays
  <2>2. CASE saved' = op'.cp /\ JournalTo(account, file, op, op')
    BY <2>1, <2>2, JournalPlanned, OwnJournal DEF Owns
  <2>3. CASE saved' = saved /\ Fails1(op, op', "journal")
    BY <2>1, <2>3, OwnPlainStep
  <2> QED BY <1>1, <2>2, <2>3, JournalIs
<1>2. CASE RowKept
  <2>1. OnlyOp /\ RowTo(op, op')
    BY <1>2, RowKeptIs
  <2>2. Good(op')
    BY <2>1, RowPlanned
  <2> QED BY <2>1, <2>2, OwnRow DEF Owns, OnlyOp
<1>3. CASE RowModified
  <2> DEFINE p == op.cp.pending.previous
             c == [do |-> "modify", id |-> p.id, input |-> op.want]
  <2>1. /\ saved' = saved /\ AtStep(op, "row") /\ p # None
        /\ \/ ModifiedAt(account, account', c, {}) /\ (RowTo(op, op') \/ Fails1(op, op', "row"))
           \/ AccountStays /\ Fails1(op, op', "row")
    BY <1>3, RowModifiedIs
  <2>2. op.cp # None /\ op.cp.pending # None
    BY <2>1, RecordThere DEF SwitchDos
  <2>3. c.id = p.id
    OBVIOUS
  <2> HIDE DEF c
  <2>4. OwnOK(account', saved, op)
    BY <2>1, <2>2, <2>3, OwnModified, OwnAccount DEF AccountStays
  <2>5. CASE RowTo(op, op')
    BY <2>1, <2>4, <2>5, RowPlanned, OwnRow DEF Owns
  <2>6. CASE Fails1(op, op', "row")
    BY <2>1, <2>4, <2>6, OwnFails DEF Owns
  <2> QED BY <2>1, <2>5, <2>6
<1>4. CASE RowOther
  <2>1. OnlyOp /\ CreateTo(op, op')
    BY <1>4, RowOtherIs
  <2>2. Good(op')
    BY <2>1, CreatePlanned
  <2> QED BY <2>1, <2>2, OwnCreate DEF Owns, OnlyOp
<1>5. CASE RowFound
  <2>1. account' = account
    BY <1>5, RowFoundIs DEF AccountStays
  <2>2. CASE saved' = saved /\ Fails1(op, op', "create")
    BY <2>1, <2>2, OwnPlainStep
  <2>3. CASE saved' = op'.cp /\ FoundTo(account, op, op')
    BY <2>1, <2>3, FoundPlanned, OwnFound DEF Owns
  <2>4. ASSUME NEW u \in Ops, Noting(account, op, u), Failing(u, op'), saved' = saved
        PROVE  Owns'
    <3>1. Good(u) /\ u.todo # <<>>
      BY <2>4, NotingPlanned
    <3>2. OwnOK(account, saved, u)
      BY <2>4, <3>1, OwnNoting DEF Owns
    <3> QED BY <2>1, <2>4, <3>1, <3>2, OwnFailing DEF Owns
  <2> QED BY <1>5, <2>2, <2>3, <2>4, RowFoundIs
<1>6. CASE RowAdded
  <2>1. /\ saved' = saved /\ AtStep(op, "create")
        /\ \/ AccountStays /\ Fails1(op, op', "create")
           \/ /\ account.next \in Ids /\ IsAdded(account, account', Head(op.todo).input, {account.next})
              /\ op' = op \/ Fails1(op, op', "create")
    BY <1>6, RowAddedIs
  <2>2. account.next \in Ids /\ IsAdded(account, account', Head(op.todo).input, {account.next}) =>
          Widens(account, account') /\ \A p : Leaves(account, account', p)
    BY RequestWidens DEF Live, Typed
  <2>3. OwnOK(account', saved, op)
    BY <2>1, <2>2, OwnAccount DEF AccountStays
  <2>4. CASE op' = op
    BY <2>1, <2>3, <2>4 DEF Owns
  <2>5. CASE Fails1(op, op', "create")
    BY <2>1, <2>3, <2>5, OwnFails DEF Owns
  <2> QED BY <2>1, <2>4, <2>5
<1>7. CASE Selects
  <2>1. OnlyOp /\ SetsTo(account, op, op', "select", Everywhere(op.row.id))
    BY <1>7, SelectsIs
  <2>2. Good(op')
    BY <1>7, SelectsIs, SetsPlanned
  <2> QED BY <2>1, <2>2, OwnSets DEF Owns, OnlyOp
<1>8. CASE Set
  <2>1. SetAt(account, account', Head(op.todo)) => OwnOK(account', saved, op)
    <3>1. SetAt(account, account', Head(op.todo)) => Widens(account, account') /\ \A p : Leaves(account, account', p)
      BY RequestWidens DEF SetAt, Live, Typed
    <3> QED BY <3>1, OwnAccount
  <2> QED BY <1>8, <2>1, SetStepIs, OwnRequested
<1>9. CASE SelectionWritten
  <2>1. At("write") /\ Write(Everywhere(op.row.id))
    BY <1>9 DEF SelectionWritten
  <2> QED BY <2>1, WriteIs, OwnWrote
<1>10. CASE SelectionAwaited
  <2>1. At("await") /\ Await(Everywhere(op.row.id), op.row)
    BY <1>10 DEF SelectionAwaited
  <2> QED BY <2>1, AwaitIs, OwnAwaited
<1>11. CASE Keep
  <2>1. account' = account
    BY <1>11, KeepIs DEF AccountStays
  <2>2. CASE saved' = op'.cp /\ KeepTo(op, op')
    BY <2>1, <2>2, KeepPlanned, OwnKeep DEF Owns
  <2>3. ASSUME NEW u \in Ops, KeepingAs(op, u), Failing(u, op'), saved' = saved
        PROVE  Owns'
    <3>1. Good(u) /\ u.todo # <<>>
      BY <2>3, KeepingPlanned
    <3>2. OwnOK(account, saved, u)
      BY <2>3, <3>1, OwnKeeping DEF Owns
    <3> QED BY <2>1, <2>3, <3>1, <3>2, OwnFailing DEF Owns
  <2> QED BY <1>11, <2>2, <2>3, KeepIs
<1>12. CASE Commit
  BY <1>12, CommitIs, OwnPlainStep DEF OnlyOp
<1>13. CASE Clear
  <2>1. account' = account
    BY <1>13, ClearIs DEF AccountStays
  <2>2. CASE saved' = op'.cp /\ DoneTo(op, op', "clear", op.cp.managed)
    <3>1. Good(op')
      BY <2>2, DonePlanned
    <3>2. OwnedRecord(account, saved, op) /\ op.cp # None
      <4>1. AtStep(op, "clear")
        BY <2>2 DEF DoneTo, Pops
      <4> QED BY <4>1, OwnedAt, RecordThere DEF Owns
    <3>3. Owned(account, op.cp.managed)
      BY <3>2 DEF OwnedRecord, RecordsOwned
    <3> QED BY <2>1, <2>2, <3>1, <3>3, OwnDone DEF Owns
  <2>3. CASE saved' = saved /\ Fails1(op, op', "clear")
    BY <2>1, <2>3, OwnPlainStep
  <2> QED BY <1>13, <2>2, <2>3, ClearIs
<1> QED BY <1>1, <1>2, <1>3, <1>4, <1>5, <1>6, <1>7, <1>8, <1>9, <1>10, <1>11, <1>12, <1>13 DEF SwitchStep

LEMMA RecoveryStepOwns ==
  ASSUME Live, Owns, RecoveryStep
  PROVE  Owns'
<1>1. CASE Rejournal
  <2>1. account' = account
    BY <1>1, RejournalIs DEF AccountStays
  <2>2. CASE saved' = op.cp /\ Plainly(op, op', "rejournal")
    BY <2>1, <2>2, PlainlyPlanned, OwnRejournal DEF Owns
  <2>3. CASE saved' = saved /\ Fails1(op, op', "rejournal")
    BY <2>1, <2>3, OwnPlainStep
  <2> QED BY <1>1, <2>2, <2>3, RejournalIs
<1>2. CASE Undo
  <2>1. OnlyOp /\ (UndoTo(account, op, op') \/ Fails1(op, op', "undo"))
    BY <1>2, UndoIs
  <2>2. CASE UndoTo(account, op, op')
    BY <2>1, <2>2, UndoPlanned, OwnUndo DEF Owns, OnlyOp
  <2>3. CASE Fails1(op, op', "undo")
    BY <2>1, <2>3, OwnPlainStep DEF OnlyOp
  <2> QED BY <2>1, <2>2, <2>3
<1>3. CASE Modify
  <2>1. AtStep(op, "modify") /\ Head(op.todo).do = "modify"
    BY <1>3, AtIs DEF Modify, At
  <2>2. op.cp # None /\ op.cp.pending # None /\ op.cp.pending.previous # None
    BY <2>1, RecordThere DEF Changing
  <2>3. Head(op.todo).id = op.cp.pending.previous.id
    <3>1. Head(op.todo) \in Steps(op.todo)
      BY <2>1, RestIs DEF Rest
    <3>2. Made(op, Head(op.todo))
      BY <2>1, <3>1 DEF AtStep, Planned
    <3> QED BY <2>1, <3>2 DEF Made
  <2>4. ModifiedAt(account, account', Head(op.todo), {}) => OwnOK(account', saved, op)
    BY <2>1, <2>2, <2>3, OwnModified
  <2> QED BY <1>3, <2>4, ModifyStepIs, OwnRequested
<1>4. CASE Remap
  <2>1. OnlyOp /\ Pops(op, op', "remap", op.cp, op'.before, op.row, op.safe, op.fallback)
    BY <1>4, RemapIs
  <2>2. Good(op')
    BY <1>4, RemapIs, RemapPlanned
  <2> QED BY <2>1, <2>2, OwnPops DEF Owns, OnlyOp
<1>5. CASE Prefer
  <2>1. OnlyOp /\ SetsTo(account, op, op', "prefer", op.before.pref)
    BY <1>5, PreferIs
  <2>2. Good(op')
    BY <2>1, SetsPlanned
  <2> QED BY <2>1, <2>2, OwnSets DEF Owns, OnlyOp
<1>6. CASE Delete
  <2>1. IsDeleted(account, account', Head(op.todo).id) => OwnOK(account', saved, op)
    <3>1. IsDeleted(account, account', Head(op.todo).id) =>
            Widens(account, account') /\ \A p : Leaves(account, account', p)
      BY RequestWidens DEF Live, Typed
    <3> QED BY <3>1, OwnAccount
  <2> QED BY <1>6, <2>1, DeleteStepIs, OwnRequested
<1>7. CASE Native
  <2>1. OnlyOp /\ NativeTo(account, op, op')
    BY <1>7, NativeIs
  <2>2. Good(op')
    BY <2>1, NativePlanned
  <2> QED BY <2>1, <2>2, OwnNative DEF Owns, OnlyOp
<1>8. CASE TargetsAwaited
  <2>1. At("awaittargets") /\ Await(Head(op.todo).to, None)
    BY <1>8 DEF TargetsAwaited
  <2> QED BY <2>1, AwaitIs, OwnAwaited
<1>9. CASE BeforeAwaited
  <2>1. At("awaitbefore") /\ Await(op.before.pref, op.row)
    BY <1>9 DEF BeforeAwaited
  <2> QED BY <2>1, AwaitIs, OwnAwaited
<1>10. CASE BeforeWritten
  <2>1. At("writebefore") /\ Write(op.before.file)
    BY <1>10 DEF BeforeWritten
  <2> QED BY <2>1, WriteIs, OwnWrote
<1>11. CASE Settle
  <2>1. account' = account
    BY <1>11, SettleIs DEF AccountStays
  <2>2. CASE saved' = op'.cp /\ DoneTo(op, op', "settle", op.row)
    <3>1. Good(op')
      BY <2>2, DonePlanned
    <3>2. AtStep(op, "settle")
      BY <2>2 DEF DoneTo, Pops
    <3>3. Owned(account, op.row)
      BY <3>2, OwnedAt DEF Owns, OwnedRecord, OpOwned
    <3> QED BY <2>1, <2>2, <3>1, <3>3, OwnDone DEF Owns
  <2>3. CASE saved' = saved /\ Fails1(op, op', "settle")
    BY <2>1, <2>3, OwnPlainStep
  <2> QED BY <1>11, <2>2, <2>3, SettleIs
<1> QED BY <1>1, <1>2, <1>3, <1>4, <1>5, <1>6, <1>7, <1>8, <1>9, <1>10, <1>11 DEF RecoveryStep

LEMMA RestoreStepOwns ==
  ASSUME Live, Owns, RestoreStep
  PROVE  Owns'
<1>1. CASE Aim
  <2>1. OnlyOp /\ Pops(op, op', "aim", op.cp, Head(op.todo).at, op.row, op.safe, FALSE)
    BY <1>1, AimIs
  <2>2. Good(op')
    BY <2>1, AimPlanned
  <2> QED BY <2>1, <2>2, OwnPops DEF Owns, OnlyOp
<1>2. CASE Forget
  <2>1. account' = account
    BY <1>2, ForgetIs DEF AccountStays
  <2>2. CASE saved' = op'.cp /\ DoneTo(op, op', "forget", None)
    <3>1. Good(op') /\ Owned(account, None)
      BY <2>2, DonePlanned DEF Owned
    <3> QED BY <2>1, <2>2, <3>1, OwnDone DEF Owns
  <2>3. CASE saved' = saved /\ Fails1(op, op', "forget")
    BY <2>1, <2>3, OwnPlainStep
  <2> QED BY <1>2, <2>2, <2>3, ForgetIs
<1>3. CASE Decide
  <2>1. account' = account
    BY <1>3, DecideIs DEF AccountStays
  <2>2. ASSUME NEW d \in {"commit", "fail"}, EndsTo(op, op', d), saved' = saved
        PROVE  Owns'
    <3>1. /\ AtStep(op, "decide") /\ op'.todo = <<Do(d)>> /\ op'.cp = op.cp /\ op'.row = op.row /\ op'.safe = op.safe
      BY <2>2 DEF EndsTo, Frame
    <3>2. Good(op')
      BY <2>2, EndsPlanned
    <3>3. \A s \in Steps(op'.todo) : s.do # "delete"
      <4>1. Do(d) \in StepSet /\ Do(d).do = d
        BY PlainStep DEF PlainDos
      <4> QED BY <3>1, <4>1, OneStep
    <3>4. Drops(op, op')
      BY <3>3 DEF Drops
    <3>5. Running(op) /\ OwnedRecord(account, saved, op)
      BY <3>1, OwnedAt DEF Owns, OwnedRecord
    <3>6. Owned(account, op'.row)
      BY <3>1, <3>5 DEF OwnedRecord, OpOwned
    <3>7. OwnOK(account, saved, op')
      BY <3>1, <3>2, <3>4, <3>5, <3>6, OwnSame DEF Owns
    <3> QED BY <2>1, <2>2, <3>7 DEF Owns
  <2>3. CASE saved' = op'.cp /\ ReturnTo(account, file, op, op')
    BY <2>1, <2>3, ReturnPlanned, OwnReturn DEF Owns
  <2> QED BY <1>3, <2>2, <2>3, DecideIs
<1> QED BY <1>1, <1>2, <1>3 DEF RestoreStep

LEMMA RestingIs ==
  ASSUME Live, Resting
  PROVE  op = Idle /\ ~Running(op)
BY DEF Live, Typed, Resting, Ops, Running, Idle

\* A row that the user makes is not foreign to the journal, or does not look
\* like one that is to be made.
LEMMA UserOwns ==
  ASSUME Live, Owns, UserActs
  PROVE  Owns'
<1> DEFINE a == account b == account'
<1>1. Resting /\ op' = op /\ saved' = saved /\ UserTo(a, b)
  BY UserActsIs
<1>2. ~Running(op)
  BY <1>1, RestingIs
<1>3. a \in Accounts /\ saved \in Checkpoints \cup {None} /\ a.next \in Nat
  BY AccountIs DEF Live, Typed
<1> DEFINE p == saved.pending
           Unlike(x) == saved # None /\ p # None => p.add # x /\ (p.previous # None => p.previous.input # x)
<1>4. \A i, x : i \notin ByHand(i, x) => Unlike(x) \/ i \in p.ids
  BY <1>1 DEF ByHand, Expected
<1>5. (\A i \in RowsOf(a) : i < a.next) /\ (saved # None => RecordsOwned(a, saved) /\ (p # None => JournalOK(a, p)))
  BY DEF Owns, OwnOK
<1>6. saved # None /\ p # None => p \in Pendings /\ p.ids \subseteq Ids
  BY <1>3, CheckpointIs
<1> HIDE DEF a, b, p, Unlike
<1>7. CASE Widens(a, b) /\ \A q : Leaves(a, b, q)
  <2>1. OwnOK(b, saved, op)
    BY <1>7, OwnAccount DEF a, b
  <2> QED BY <1>1, <2>1 DEF Owns, b
<1>8. ASSUME a.next <= b.next, a.ours \subseteq b.ours, b.next \in Nat, \A i \in RowsOf(b) : i < b.next,
             \A i \in RowsOf(b) \ b.ours :
               \/ i \in RowsOf(a) \ a.ours /\ b.rows[i] = a.rows[i]
               \/ Unlike(b.rows[i]) \/ i \in p.ids
      PROVE  Owns'
  <2>1. \A r : Owned(a, r) => Owned(b, r)
    BY <1>8 DEF Owned
  <2>2. saved # None => RecordsOwned(b, saved)
    BY <1>5, <2>1 DEF RecordsOwned
  <2>3. ASSUME saved # None, p # None
        PROVE  JournalOK(b, p)
    <3>1. JournalOK(a, p) /\ p.ids \subseteq Nat
      BY <1>5, <1>6, <2>3 DEF Ids
    <3>2. \A i \in p.ids : i < b.next
      BY <1>3, <1>8, <3>1 DEF JournalOK
    <3>3. \A i \in Foreign(b, p) : b.rows[i] # p.add /\ (p.previous # None => b.rows[i] # p.previous.input)
      <4> TAKE i \in Foreign(b, p)
      <4>1. i \in RowsOf(b) \ b.ours /\ i \notin p.ids
        BY DEF Foreign
      <4>2. CASE i \in RowsOf(a) \ a.ours /\ b.rows[i] = a.rows[i]
        <5>1. i \in Foreign(a, p)
          BY <4>1, <4>2 DEF Foreign
        <5> QED BY <3>1, <4>2, <5>1 DEF JournalOK
      <4>3. CASE Unlike(b.rows[i])
        BY <2>3, <4>3 DEF Unlike
      <4> QED BY <1>8, <4>1, <4>2, <4>3
    <3> QED BY <3>1, <3>2, <3>3 DEF JournalOK
  <2>4. OwnOK(b, saved, op)
    BY <1>2, <1>8, <2>2, <2>3 DEF OwnOK, p
  <2> QED BY <1>1, <2>4 DEF Owns, b
<1>9. ASSUME NEW input \in Inputs, a.next \in Ids, IsAdded(a, b, input, ByHand(a.next, input))
      PROVE  Owns'
  <2> DEFINE n == a.next h == ByHand(a.next, input)
  <2>1. /\ RowsOf(b) = RowsOf(a) \cup {n} /\ b.next = n + 1 /\ b.ours = a.ours \cup h
        /\ \A i \in RowsOf(b) : b.rows[i] = IF i = n THEN input ELSE a.rows[i]
    BY <1>9 DEF IsAdded
  <2>2. n \notin h => Unlike(input) \/ n \in p.ids
    BY <1>4
  <2>3. RowsOf(a) \subseteq Nat /\ n \in Nat
    BY <1>3, AccountIs DEF Ids
  <2> HIDE DEF h, n
  <2>4. \A i \in RowsOf(b) : i < b.next
    <3>1. \A i \in RowsOf(a) : i < n
      BY <1>5 DEF n
    <3> QED BY <2>1, <2>3, <3>1
  <2>5. a.next <= b.next /\ b.next \in Nat
    BY <2>1, <2>3 DEF n
  <2>6. \A i \in RowsOf(b) \ b.ours :
          \/ i \in RowsOf(a) \ a.ours /\ b.rows[i] = a.rows[i]
          \/ Unlike(b.rows[i]) \/ i \in p.ids
    <3> TAKE i \in RowsOf(b) \ b.ours
    <3>1. CASE i = n
      <4>1. b.rows[i] = input /\ n \notin h
        BY <2>1, <3>1
      <4> QED BY <2>2, <3>1, <4>1
    <3>2. CASE i # n
      BY <2>1, <3>2
    <3> QED BY <3>1, <3>2
  <2> QED BY <1>8, <2>1, <2>4, <2>5, <2>6
<1>10. ASSUME NEW id \in RowsOf(a), NEW input \in Inputs, IsModified(a, b, id, input, ByHand(id, input))
       PROVE  Owns'
  <2> DEFINE h == ByHand(id, input)
  <2>1. /\ RowsOf(b) = RowsOf(a) /\ b.next = a.next /\ b.ours = a.ours \cup h
        /\ \A i \in RowsOf(b) : b.rows[i] = IF i = id THEN input ELSE a.rows[i]
    BY <1>10 DEF IsModified
  <2>2. id \notin h => Unlike(input) \/ id \in p.ids
    BY <1>4
  <2> HIDE DEF h
  <2>3. a.next <= b.next /\ b.next \in Nat /\ \A i \in RowsOf(b) : i < b.next
    BY <1>3, <1>5, <2>1
  <2>4. \A i \in RowsOf(b) \ b.ours :
          \/ i \in RowsOf(a) \ a.ours /\ b.rows[i] = a.rows[i]
          \/ Unlike(b.rows[i]) \/ i \in p.ids
    BY <2>1, <2>2
  <2> QED BY <1>8, <2>1, <2>3, <2>4
<1>11. CASE \E s \in Scenes, id \in SelectableIn(a) : IsSet(a, b, s, id)
  BY <1>3, <1>7, <1>11, RequestWidens
<1>12. CASE \E id \in RowsOf(a) : IsDeleted(a, b, id)
  BY <1>3, <1>7, <1>12, RequestWidens
<1> QED BY <1>1, <1>9, <1>10, <1>11, <1>12 DEF UserTo

LEMMA NextOwns ==
  ASSUME Live, BindingOK, Owns, [Next]_vars
  PROVE  Owns'
<1>1. CASE UNCHANGED vars
  BY <1>1 DEF vars, Owns
<1>2. ASSUME NEW input \in Inputs, SwitchBegins(input)
      PROVE  Owns'
  <2>1. account' = account /\ saved' = op'.cp /\ SwitchTo(account, file, saved, op')
    BY <1>2, SwitchBeginsIs
  <2>2. Good(op')
    BY <2>1, SwitchToPlanned DEF Live, Typed
  <2> QED BY <2>1, <2>2, OwnSwitchBegins DEF Owns
<1>3. CASE RestoreBegins
  <2>1. OnlyOp /\ RestoreTo(account, file, saved, op')
    BY <1>3, RestoreBeginsIs
  <2>2. Good(op')
    BY <2>1, RestoreToPlanned DEF Live, Typed
  <2> QED BY <2>1, <2>2, OwnRestoreBegins DEF Owns, OnlyOp, Live, Typed
<1>4. CASE Failed
  <2>1. /\ OnlyOp /\ AtStep(op, "fail") /\ Frame(op, op', op.cp, op.before, op.row, op.safe, op.fallback)
        /\ op'.todo = <<Do("failed")>>
    BY <1>4, FailedIs
  <2>2. Good(op')
    BY <2>1, FailedPlanned
  <2>3. Drops(op, op')
    <3>1. Do("failed") \in StepSet /\ Do("failed").do = "failed"
      BY PlainStep DEF PlainDos
    <3> QED BY <2>1, <3>1, OneStep DEF Drops
  <2>4. OwnedRecord(account, saved, op)
    BY <2>1, OwnedAt DEF Owns
  <2>5. op'.cp = op.cp /\ op'.safe = op.safe /\ Owned(account, op'.row) /\ Running(op)
    BY <2>1, <2>4 DEF Frame, OwnedRecord, OpOwned
  <2>6. OwnOK(account, saved, op')
    BY <2>2, <2>3, <2>5, OwnSame DEF Owns
  <2> QED BY <2>1, <2>6 DEF Owns, OnlyOp
<1>5. CASE Returned \/ Crash
  <2>1. account' = account /\ saved' = saved /\ op' = Idle
    BY <1>5 DEF Returned, Crash
  <2> QED BY <2>1, IdleIs, OwnIdle DEF Owns
<1> QED BY <1>1, <1>2, <1>3, <1>4, <1>5, SwitchStepOwns, RecoveryStepOwns, RestoreStepOwns, UserOwns DEF Next

LEMMA InitOwns == ASSUME Init PROVE Owns
<1>1. op = Idle /\ saved = None
  BY DEF Init
<1> QED BY <1>1, InitAccount, IdleIs DEF Owns, OwnOK

-----------------------------------------------------------------------------
(* What AT-Switch does with the rows of the user *)

LEMMA AllRowsStay ==
  ASSUME \/ account' = account
         \/ \E s, id : IsSet(account, account', s, id)
         \/ \E input : account.next \in Ids /\ account.next \notin RowsOf(account)
                       /\ IsAdded(account, account', input, {account.next})
  PROVE  RowsStay
<1>1. CASE account' = account
  BY <1>1 DEF RowsStay, Rows
<1>2. ASSUME NEW s, NEW id, IsSet(account, account', s, id)
      PROVE  RowsStay
  <2>1. account'.rows = account.rows
    BY <1>2 DEF IsSet
  <2> QED BY <2>1 DEF RowsStay, Rows
<1>3. ASSUME NEW input, account.next \notin RowsOf(account), IsAdded(account, account', input, {account.next})
      PROVE  RowsStay
  <2>1. /\ DOMAIN account'.rows = RowsOf(account) \cup {account.next}
        /\ \A i \in RowsOf(account) : account'.rows[i] = account.rows[i]
    BY <1>3 DEF IsAdded, RowsOf
  <2> QED BY <2>1 DEF RowsStay, Rows, RowsOf
<1> QED BY <1>1, <1>2, <1>3

\* Deletion and modification are for rows that AT-Switch made, but that the row
\* of before the operation gets back what it was.
LEMMA RowsStayNext ==
  ASSUME Live, Owns, [Next]_vars
  PROVE  RowsStay
<1>1. \A i \in RowsOf(account) : i < account.next
  BY DEF Owns, OwnOK
<1>2. account.next \notin RowsOf(account)
  <2>1. account.next \in Nat
    BY AccountIs DEF Live, Typed
  <2> QED BY <1>1, <2>1
<1>3. CASE account' = account
  BY <1>3, AllRowsStay
<1>4. CASE RowModified
  <2> DEFINE p == op.cp.pending.previous
             c == [do |-> "modify", id |-> p.id, input |-> op.want]
  <2>1. /\ AtStep(op, "row") /\ p # None /\ p.own
        /\ ModifiedAt(account, account', c, {}) \/ AccountStays
    BY <1>4, RowModifiedIs
  <2>2. op.cp # None /\ op.cp.pending # None
    BY <2>1, RecordThere DEF SwitchDos
  <2>3. p.id \in account.ours
    <3>1. RecordsOwned(account, op.cp)
      BY <2>1, <2>2, OwnedAt DEF Owns, OwnedRecord
    <3> QED BY <2>1, <2>2, <3>1 DEF RecordsOwned, Owned
  <2>4. CASE ModifiedAt(account, account', c, {})
    <3>1. /\ DOMAIN account'.rows = RowsOf(account)
          /\ \A i \in RowsOf(account) : i # p.id => account'.rows[i] = account.rows[i]
      BY <2>4 DEF ModifiedAt, IsModified, RowsOf
    <3> QED BY <2>3, <3>1 DEF RowsStay, Rows, RowsOf
  <2> QED BY <1>3, <2>1, <2>4 DEF AccountStays
<1>5. CASE RowAdded
  BY <1>2, <1>3, <1>5, RowAddedIs, AllRowsStay DEF AccountStays
<1>6. CASE Set
  <2>1. AccountStays \/ SetAt(account, account', Head(op.todo))
    BY <1>6, SetStepIs DEF Requested
  <2> QED BY <1>3, <2>1, AllRowsStay DEF AccountStays, SetAt
<1>7. CASE Modify
  <2> DEFINE c == Head(op.todo) p == op.cp.pending
  <2>1. AccountStays \/ ModifiedAt(account, account', c, {})
    BY <1>7, ModifyStepIs DEF Requested
  <2>2. AtStep(op, "modify") /\ c.do = "modify" /\ c \in Steps(op.todo)
    <3>1. AtStep(op, "modify")
      BY <1>7, AtIs DEF Modify
    <3> QED BY <3>1, RestIs DEF Rest, AtStep
  <2>3. p # None /\ p.previous # None
    BY <2>2, RecordThere DEF Changing
  <2>4. c.id = p.previous.id /\ c.input = p.previous.input
    BY <2>2 DEF AtStep, Planned, Made
  <2>5. CASE ModifiedAt(account, account', c, {})
    <3>1. /\ DOMAIN account'.rows = RowsOf(account)
          /\ \A i \in RowsOf(account) : account'.rows[i] = IF i = c.id THEN c.input ELSE account.rows[i]
      BY <2>5 DEF ModifiedAt, IsModified, RowsOf
    <3> HIDE DEF c
    <3>2. \A i \in RowsOf(account) : account'.rows[i] = account.rows[i] \/ Undone(i)
      BY <2>3, <2>4, <3>1 DEF Undone
    <3> QED BY <3>1, <3>2 DEF RowsStay, Rows, RowsOf
  <2> QED BY <1>3, <2>1, <2>5 DEF AccountStays
<1>8. CASE Delete
  <2> DEFINE c == Head(op.todo)
  <2>1. AccountStays \/ IsDeleted(account, account', c.id)
    BY <1>8, DeleteStepIs DEF Requested
  <2>2. AtStep(op, "delete") /\ c.do = "delete" /\ c \in Steps(op.todo)
    <3>1. AtStep(op, "delete")
      BY <1>8, AtIs, DeleteAt
    <3> QED BY <3>1, RestIs DEF Rest, AtStep
  <2>3. c.id \in account.ours
    BY <2>2, OwnedAt DEF Owns, OwnedRecord, OpOwned
  <2>4. CASE IsDeleted(account, account', c.id)
    <3>1. /\ DOMAIN account'.rows = RowsOf(account) \ {c.id}
          /\ \A i \in DOMAIN account'.rows : account'.rows[i] = account.rows[i]
      BY <2>4 DEF IsDeleted, RowsOf
    <3> HIDE DEF c
    <3> QED BY <2>3, <3>1 DEF RowsStay, Rows, RowsOf
  <2> QED BY <1>3, <2>1, <2>4 DEF AccountStays
<1>9. CASE UserActs
  BY <1>9 DEF UserActs, RowsStay
<1>10. CASE UNCHANGED vars
  BY <1>3, <1>10 DEF vars
<1>11. ASSUME Next, ~RowModified, ~RowAdded, ~Set, ~Modify, ~Delete, ~UserActs
       PROVE  account' = account
  BY <1>11 DEF Next, SwitchBegins, RestoreBegins, SwitchStep, RecoveryStep, RestoreStep, Failed, Returned, Crash,
               Journal, RowKept, RowOther, RowFound, Selects, SelectionWritten, Write, SelectionAwaited, Await, Keep,
               Commit, Clear, Rejournal, Undo, Remap, Prefer, Native, TargetsAwaited, BeforeAwaited, BeforeWritten,
               Settle, Aim, Forget, Decide
<1> QED BY <1>3, <1>4, <1>5, <1>6, <1>7, <1>8, <1>9, <1>10, <1>11

\* A model of the user's own is never deleted by AT-Switch (delete_model in
\* recover_pending, binding.rs) nor changed, but back to what it was when the
\* operation that is undone began (update_model), whatever requests and saves
\* failed, whenever AT-Switch stopped, and whatever the user did in between.
THEOREM ImaUsersRowsStay == Spec => UsersRowsStay
<1>1. Init => Live /\ BindingOK /\ Owns
  BY InitLive, InitOwns
<1>2. (Live /\ BindingOK /\ Owns) /\ [Next]_vars => (Live /\ BindingOK /\ Owns)'
  BY NextLive, NextOwns
<1>3. (Live /\ BindingOK /\ Owns) /\ [Next]_vars => [RowsStay]_vars
  BY RowsStayNext
<1> QED BY <1>1, <1>2, <1>3, PTL DEF Spec, UsersRowsStay

-----------------------------------------------------------------------------
(* What a failed operation leaves.  The invariant is of operations that found *)
(* no journal (Clean).                                                        *)

Recovering(o) == Has(o.todo, {"settle"})

\* Every preference that names a model has been put back.
PrefsBack(before, a) == \A s \in Scenes : before.pref[s] # Empty => a.pref[s] = before.pref[s]

\* The account goes on from where the operation found it.
Follows(a, o) ==
  /\ \A s \in Scenes : Started(o).pref[s] \in Ids => Started(o).pref[s] < Started(o).next
  /\ Started(o).next <= a.next
  /\ \A i \in RowsOf(Started(o)) : i < Started(o).next
  /\ \A i \in RowsOf(a) : i < Started(o).next => i \in RowsOf(Started(o))

Compensated(a, o) ==
  /\ \A i \in RowsOf(Started(o)) : i \in RowsOf(a) /\ a.rows[i] = Started(o).rows[i]
  /\ RowsOf(a) = RowsOf(Started(o)) \/ Beside(o)
  /\ \A s \in Scenes : Started(o).pref[s] \in SelectableIn(a) => a.pref[s] = Started(o).pref[s]

\* What the switch with the journal p leaves of the account b, and adds to it.
RowsKept(a, p, b) ==
  \A i \in RowsOf(b) :
    /\ i \in RowsOf(a)
    /\ a.rows[i] = b.rows[i] \/ (p.previous # None /\ i = p.previous.id)
NewRows(a, p) ==
  /\ \A i \in RowsOf(a) \ p.ids : a.rows[i] = p.add
  /\ \A i \in RowsOf(a) \ p.ids, k \in RowsOf(a) \ p.ids : i = k
  /\ p.created # None => RowsOf(a) \ p.ids \subseteq {p.created.id}

\* The journal p tells how the account was.
Tells(o, p) ==
  /\ p.ids = RowsOf(Started(o))
  /\ \A s \in Scenes : Started(o).pref[s] \in p.ids \cup {Official} => p.before.pref[s] = Started(o).pref[s]
  /\ p.previous # None => p.previous.input = Started(o).rows[p.previous.id] /\ Beside(o)
  /\ p.previous = None /\ o.call = "switch" => p.add = o.want
JournalOf(a, o, p) == Tells(o, p) /\ RowsKept(a, p, Started(o)) /\ (p.previous = None => NewRows(a, p))

HasJournal(o) == o.cp # None /\ o.cp.pending # None

\* The operation can be undone, or there is nothing to undo.
Undoable(a, o) ==
  /\ Follows(a, o) /\ ~o.fallback
  /\ HasJournal(o) => JournalOf(a, o, o.cp.pending)
  /\ ~HasJournal(o) /\ o.todo # <<>> => Compensated(a, o)

\* How far the undoing has come.
Undoing(a, o, p) ==
  /\ Has(o.todo, {"create"}) => o.safe /\ ~Has(o.todo, {"row"})
  /\ Has(o.todo, {"row", "create"}) /\ o.safe => p.created = None
  /\ Recovering(o) /\ ~Has(o.todo, {"undo"}) => o.before = p.before
  /\ Recovering(o) /\ ~Has(o.todo, {"undo", "modify"}) =>
       \A i \in RowsOf(Started(o)) : a.rows[i] = Started(o).rows[i]
  /\ Recovering(o) /\ p.previous = None /\ ~Has(o.todo, {"undo", "delete"}) => RowsOf(a) = p.ids
  /\ \A s \in Steps(o.todo) :
       s.do = "delete" => p.previous = None /\ s.id \notin p.ids /\ RowsOf(a) \ p.ids \subseteq {s.id}

\* An await remains after every change of preferences, and names what it awaits.
Awaiting(a, o) ==
  /\ Recovering(o) /\ Has(o.todo, Changing) => Has(o.todo, {"undo", "awaitbefore", "native", "awaittargets"})
  /\ Recovering(o) /\ ~Has(o.todo, Changing \cup {"awaitbefore", "awaittargets"}) => PrefsBack(o.before, a)
  /\ \A s \in Steps(o.todo) :
       s.do = "awaittargets" => \A x \in Scenes : o.before.pref[x] # Empty => s.to[x] = o.before.pref[x]

\* Nothing has been done before the journal is written.
Untouched(a, o) ==
  /\ ~Has(o.todo, {"aim", "forget", "remap"})
  /\ Has(o.todo, {"journal", "decide"}) => a = Started(o) /\ ~HasJournal(o) /\ o.cp # None
                                          /\ (o.cp.managed # None => Beside(o))

Compensating(a, o) ==
  /\ Undoable(a, o) /\ Untouched(a, o) /\ Awaiting(a, o)
  /\ o.todo # <<>> => IF HasJournal(o) THEN Undoing(a, o, o.cp.pending) ELSE ~Recovering(o)

PrefsKnown(a) == \A s \in Scenes : a.pref[s] \in Ids => a.pref[s] < a.next

\* Under a journal that is written and not undone.
LEMMA SafeCompensates ==
  ASSUME NEW b, NEW q, Good(q), q.safe, Undoable(b, q),
         Has(q.todo, {"create"}) => ~Has(q.todo, {"row"}),
         Has(q.todo, {"row", "create"}) /\ HasJournal(q) => q.cp.pending.created = None,
         \A s \in Steps(q.todo) :
           s.do = "awaittargets" => \A x \in Scenes : q.before.pref[x] # Empty => s.to[x] = q.before.pref[x]
  PROVE  Compensating(b, q)
<1>1. Dos(q.todo) \subseteq SafeDos /\ \A s \in Steps(q.todo) : s.do \in Dos(q.todo)
  BY DEF Good, Planned, Stage, Only, Dos
<1>2. /\ "settle" \notin SafeDos /\ "aim" \notin SafeDos /\ "forget" \notin SafeDos /\ "remap" \notin SafeDos
      /\ "journal" \notin SafeDos /\ "decide" \notin SafeDos /\ "delete" \notin SafeDos
  BY DEF SafeDos, SwitchDos
<1>3. ~Recovering(q) /\ Untouched(b, q)
  BY <1>1, <1>2 DEF Recovering, Untouched, Has
<1>4. Awaiting(b, q)
  BY <1>3 DEF Awaiting
<1>5. ASSUME HasJournal(q) PROVE Undoing(b, q, q.cp.pending)
  BY <1>1, <1>2, <1>3, <1>5 DEF Undoing
<1> QED BY <1>3, <1>4, <1>5 DEF Compensating

\* At the end, or with all of the undoing still to be done.
LEMMA QuietCompensates ==
  ASSUME NEW b, NEW o, NEW q, Undoable(b, o), o.todo # <<>>, Same(o, q), q.cp = o.cp, ~q.fallback,
         Dos(q.todo) \subseteq {"commit", "fail", "failed", "rejournal", "undo"}
  PROVE  Compensating(b, q)
<1>1. \A s \in Steps(q.todo) : s.do \in Dos(q.todo)
  BY DEF Dos
<1>2. ~Recovering(q) /\ Untouched(b, q)
  BY DEF Recovering, Untouched, Has
<1>3. Awaiting(b, q)
  BY <1>1, <1>2 DEF Awaiting
<1>4. HasJournal(q) => Undoing(b, q, q.cp.pending)
  BY <1>1, <1>2 DEF Undoing, Has
<1>5. Undoable(b, q)
  BY DEF Undoable, HasJournal, Same, JournalOf, Tells, Beside, Compensated, Follows, Started
<1> QED BY <1>2, <1>3, <1>4, <1>5 DEF Compensating

\* A step fails.
LEMMA FailingCompensates ==
  ASSUME NEW b, NEW o, NEW q, Good(o), o.todo # <<>>, Undoable(b, o), Failing(o, q)
  PROVE  Compensating(b, q)
<1>1. ~o.fallback
  BY DEF Undoable
<1>2. CASE q.todo = RollbackPlan
  <2>1. Dos(q.todo) = {"rejournal", "undo", "fail"}
    BY <1>2, RollbackPlanIs DEF Plain
  <2> QED BY <1>1, <2>1, QuietCompensates DEF Failing
<1>3. CASE q.todo = <<Do("fail")>>
  <2>1. Dos(q.todo) = {"fail"}
    BY <1>3, OneStep, PlainStep DEF PlainDos
  <2> QED BY <1>1, <2>1, QuietCompensates DEF Failing
<1> QED BY <1>1, <1>2, <1>3 DEF Failing

LEMMA Compensates1 ==
  ASSUME NEW a, NEW o, NEW q, NEW h, Compensating(a, o), Fails1(o, q, h)
  PROVE  Compensating(a, q)
BY FailingCompensates DEF Fails1, AtStep, Good, Compensating

\* What holds when a step of the plan begins.
Begun(a, o, h) == AtStep(o, h) /\ Compensating(a, o) /\ \E sv : OwnOK(a, sv, o)

LEMMA BegunIs ==
  ASSUME NEW a \in Accounts, NEW o, NEW h, Begun(a, o, h)
  PROVE  /\ Good(o) /\ Started(o) \in Accounts /\ o.todo # <<>> /\ Undoable(a, o)
         /\ h \in Changing \cup {"rejournal"} \/ o.safe => HasJournal(o)
         /\ HasJournal(o) => /\ o.cp.pending \in Pendings /\ JournalOK(a, o.cp.pending) /\ Undoing(a, o, o.cp.pending)
                             /\ JournalOf(a, o, o.cp.pending)
         /\ ~HasJournal(o) => ~Recovering(o) /\ Compensated(a, o)
         /\ h \in Dos(o.todo) /\ Head(o.todo) \in Steps(o.todo) /\ \A i \in RowsOf(a) : i < a.next
<1>1. o \in Ops /\ Planned(o) /\ o.todo # <<>> /\ Head(o.todo).do = h
  BY DEF Begun, AtStep
<1>2. Started(o) \in Accounts /\ o.todo \in Seq(StepSet) /\ o.cp \in Checkpoints \cup {None}
  BY <1>1, OpIs
<1>3. h \in Dos(o.todo) /\ Head(o.todo) \in Steps(o.todo)
  BY <1>1, <1>2, HeadTail
<1>4. PICK sv : OwnOK(a, sv, o)
  BY DEF Begun
<1>5. OpOwned(a, sv, o) /\ \A i \in RowsOf(a) : i < a.next
  BY <1>1, <1>4, IsRunning DEF OwnOK
<1>6. HasJournal(o) => o.cp.pending \in Pendings /\ JournalOK(a, o.cp.pending)
  BY <1>2, <1>5, CheckpointIs DEF OpOwned, HasJournal
<1>7. Record(o)
  BY <1>1 DEF Planned
<1>8. h \in Changing \cup {"rejournal"} \/ o.safe => HasJournal(o)
  <2>1. o.cp = None => ~o.safe /\ h \notin Changing \cup {"rejournal"}
    BY <1>3, <1>7 DEF Record, Only, Changing
  <2>2. o.cp # None /\ (h \in Changing \cup {"rejournal"} \/ o.safe) => o.cp.pending # None
    BY <1>1, <1>3, <1>7 DEF Record, Has
  <2> QED BY <2>1, <2>2 DEF HasJournal
<1>9. Undoable(a, o) /\ (IF HasJournal(o) THEN Undoing(a, o, o.cp.pending) ELSE ~Recovering(o))
  BY <1>1 DEF Begun, Compensating
<1> QED BY <1>1, <1>2, <1>3, <1>5, <1>6, <1>8, <1>9 DEF Good, Undoable

\* The requests leave the operation undoable: a preference is set, ...
LEMMA SetUndoable ==
  ASSUME NEW a, NEW b, NEW o, NEW s, NEW id, Undoable(a, o), HasJournal(o), IsSet(a, b, s, id)
  PROVE  Undoable(b, o)
BY DEF IsSet, Undoable, JournalOf, Follows, RowsKept, NewRows, RowsOf

\* ... a row is added, ...
LEMMA AddedUndoable ==
  ASSUME NEW a \in Accounts, NEW b, NEW o, Begun(a, o, "create"), IsAdded(a, b, Head(o.todo).input, {a.next}),
         \A i \in RowsOf(a) : a.rows[i] # Head(o.todo).input
  PROVE  Undoable(b, o) /\ o.safe
<1> DEFINE p == o.cp.pending input == Head(o.todo).input new == RowsOf(a) \ p.ids
<1>1. /\ HasJournal(o) /\ Undoable(a, o) /\ JournalOf(a, o, p) /\ Undoing(a, o, p) /\ JournalOK(a, p)
      /\ Started(o) \in Accounts /\ "create" \in Dos(o.todo) /\ Head(o.todo) \in Steps(o.todo) /\ Good(o)
  BY BegunIs DEF Changing
<1>2. o.safe /\ p.created = None
  BY <1>1 DEF Undoing, Has
<1>3. o.call = "switch" /\ input = o.want
  BY <1>1, <1>2 DEF Good, Planned, Made, Begun, AtStep
<1>4. RowsOf(b) = RowsOf(a) \cup {a.next} /\ \A i \in RowsOf(b) : b.rows[i] = IF i = a.next THEN input ELSE a.rows[i]
  BY DEF IsAdded
<1>5. /\ a.next \in Nat /\ b.next = a.next + 1 /\ Started(o).next \in Nat
      /\ RowsOf(Started(o)) \subseteq Ids /\ RowsOf(a) \subseteq Ids
  BY <1>1, AccountIs DEF IsAdded
<1>6. Follows(a, o)
  BY <1>1 DEF Undoable
<1>7. Follows(b, o)
  <2>1. Started(o).next <= a.next /\ a.next <= b.next /\ ~(a.next < Started(o).next)
    BY <1>5, <1>6 DEF Follows
  <2>2. Started(o).next <= b.next
    BY <1>5, <2>1
  <2> QED BY <1>4, <1>6, <2>1, <2>2 DEF Follows
<1>8. a.next \notin RowsOf(Started(o)) /\ a.next \notin p.ids
  <2>1. \A i \in RowsOf(Started(o)) : i # a.next
    BY <1>5, <1>6 DEF Follows, Ids
  <2> QED BY <1>1, <2>1 DEF JournalOf, Tells
<1>9. RowsKept(b, p, Started(o))
  BY <1>1, <1>4, <1>8 DEF JournalOf, RowsKept
<1>10. ASSUME p.previous = None PROVE NewRows(b, p)
  <2>1. p.add = input /\ NewRows(a, p)
    BY <1>1, <1>3, <1>10 DEF JournalOf, Tells
  <2>2. new = {}
    BY <2>1 DEF NewRows
  <2>3. \A i \in RowsOf(b) \ p.ids : i = a.next
    BY <1>4, <2>2
  <2> QED BY <1>2, <1>4, <2>1, <2>3 DEF NewRows
<1>11. JournalOf(b, o, p)
  BY <1>1, <1>9, <1>10 DEF JournalOf
<1> QED BY <1>1, <1>2, <1>7, <1>11 DEF Undoable

\* ... the managed row is changed, ...
LEMMA ModifiedUndoable ==
  ASSUME NEW a, NEW b, NEW o, NEW c, Undoable(a, o), HasJournal(o), ModifiedAt(a, b, c, {}),
         o.cp.pending.previous # None, c.id = o.cp.pending.previous.id
  PROVE  Undoable(b, o)
<1> DEFINE p == o.cp.pending
<1>1. RowsOf(b) = RowsOf(a) /\ b.next = a.next /\ \A i \in RowsOf(a) : i # c.id => b.rows[i] = a.rows[i]
  BY DEF ModifiedAt, IsModified
<1>2. Follows(b, o)
  BY <1>1 DEF Undoable, Follows
<1>3. RowsKept(b, p, Started(o))
  BY <1>1 DEF Undoable, JournalOf, RowsKept
<1> QED BY <1>2, <1>3 DEF Undoable, JournalOf

\* ... or the added one deleted.
LEMMA DeletedUndoable ==
  ASSUME NEW a, NEW b, NEW o, NEW id, Undoable(a, o), HasJournal(o), IsDeleted(a, b, id),
         o.cp.pending.previous = None, id \notin o.cp.pending.ids
  PROVE  Undoable(b, o)
<1> DEFINE p == o.cp.pending
<1>1. RowsOf(b) = RowsOf(a) \ {id} /\ b.next = a.next /\ \A i \in RowsOf(b) : b.rows[i] = a.rows[i]
  BY DEF IsDeleted
<1>2. Follows(b, o)
  BY <1>1 DEF Undoable, Follows
<1>3. RowsKept(b, p, Started(o))
  BY <1>1 DEF Undoable, JournalOf, Tells, RowsKept
<1>4. NewRows(b, p)
  BY <1>1 DEF Undoable, JournalOf, NewRows
<1> QED BY <1>2, <1>3, <1>4 DEF Undoable, JournalOf

LEMMA SameUndoable ==
  ASSUME NEW b, NEW o, NEW q, Undoable(b, o), o.todo # <<>>, Same(o, q), q.cp = o.cp, q.fallback = o.fallback
  PROVE  Undoable(b, q) /\ (HasJournal(q) <=> HasJournal(o)) /\ Started(q) = Started(o)
BY DEF Undoable, HasJournal, Same, JournalOf, Tells, Beside, Compensated, Follows, Started

LEMMA PopsIsRest ==
  ASSUME NEW o, NEW q, NEW h, AtStep(o, h), q.todo = <<>> \o Tail(o.todo)
  PROVE  /\ Dos(o.todo) = {h} \cup Dos(q.todo) /\ Steps(o.todo) = {Head(o.todo)} \cup Steps(q.todo)
         /\ Dos(q.todo) = Dos(Tail(o.todo)) /\ \A s \in Steps(q.todo) : s.do \in Dos(q.todo)
         /\ q.todo # <<>> => Dos(q.todo) # {}
<1>1. Rest(o, h, Dos(Tail(o.todo)), Steps(Tail(o.todo)))
  BY RestIs
<1>2. Remains(q, Dos(Tail(o.todo)), Steps(Tail(o.todo)))
  BY PoppedIs
<1>3. \A s \in Steps(q.todo) : s.do \in Dos(q.todo)
  BY DEF Dos
<1> QED BY <1>1, <1>2, <1>3 DEF Rest, Remains

\* A step is done, and what it changes in the account with it.
LEMMA PopCompensates ==
  ASSUME NEW a \in Accounts, NEW b, NEW o, NEW q, NEW h, NEW row, Begun(a, o, h), Undoable(b, o),
         Pops(o, q, h, o.cp, o.before, row, o.safe, o.fallback), b = a \/ h \in Changing,
         h \notin {"undo", "native", "journal", "decide", "row", "create", "aim", "remap", "settle"},
         h \in {"awaitbefore", "awaittargets"} => PrefsBack(o.before, b),
         \A i \in RowsOf(Started(o)) : b.rows[i] = IF h = "modify" THEN Started(o).rows[i] ELSE a.rows[i],
         RowsOf(b) = IF h = "delete" THEN o.cp.pending.ids ELSE RowsOf(a)
  PROVE  Compensating(b, q)
<1> DEFINE D == Dos(q.todo) p == o.cp.pending
<1>1. /\ Dos(o.todo) = {h} \cup D /\ Steps(q.todo) \subseteq Steps(o.todo) /\ \A s \in Steps(q.todo) : s.do \in D
  <2>1. AtStep(o, h) /\ q.todo = <<>> \o Tail(o.todo)
    BY DEF Pops
  <2> QED BY <2>1, PopsIsRest
<1>2. \A d \in D : /\ h = "awaitbefore" => d \notin {"undo", "modify", "create", "remap", "prefer", "set", "delete"}
                   /\ h = "awaittargets" => d \notin {"undo", "modify", "create", "remap", "prefer", "set", "delete", "native"}
                   /\ h = "delete" => d # "delete"
  <2>1. AtStep(o, h) /\ q.todo = <<>> \o Tail(o.todo)
    BY DEF Pops
  <2>2. Dos(q.todo) = Dos(Tail(o.todo))
    BY <2>1, PopsIsRest
  <2> QED BY <2>1, <2>2, Later
<1>3. Same(o, q) /\ q.cp = o.cp /\ q.before = o.before /\ q.safe = o.safe /\ q.fallback = o.fallback
  BY DEF Pops, Frame
<1>4. /\ HasJournal(o) => Undoing(a, o, p)
      /\ ~HasJournal(o) => ~Recovering(o)
      /\ h \in Changing => HasJournal(o)
      /\ o.todo # <<>> /\ Awaiting(a, o) /\ Untouched(a, o)
  BY BegunIs DEF Begun, Compensating
<1>5. Undoable(b, q) /\ (HasJournal(q) <=> HasJournal(o)) /\ Started(q) = Started(o)
  BY <1>3, <1>4, SameUndoable
<1> HIDE DEF D, p
<1>6. Untouched(b, q)
  <2>1. ~Has(q.todo, {"aim", "forget", "remap"})
    BY <1>1, <1>4 DEF Untouched, Has, D
  <2>2. Has(q.todo, {"journal", "decide"}) => Has(o.todo, {"journal", "decide"})
    BY <1>1 DEF Has, D
  <2> QED BY <1>3, <1>4, <1>5, <2>1, <2>2 DEF Untouched, Same, Beside
<1>7. Recovering(q) => Recovering(o)
  BY <1>1 DEF Recovering, Has, D
<1>8. Awaiting(b, q)
  <2>1. Recovering(q) /\ Has(q.todo, Changing) => Has(q.todo, {"undo", "awaitbefore", "native", "awaittargets"})
    <3>1. Has(q.todo, Changing) => Has(o.todo, Changing)
      BY <1>1 DEF Has, D
    <3>2. h \in {"awaitbefore", "awaittargets"} /\ Has(q.todo, Changing) => "native" \in D
      BY <1>2 DEF Has, D, Changing
    <3> QED BY <1>1, <1>4, <1>7, <3>1, <3>2 DEF Awaiting, Has, D
  <2>2. ASSUME Recovering(q), ~Has(q.todo, Changing \cup {"awaitbefore", "awaittargets"}) PROVE PrefsBack(q.before, b)
    <3>1. CASE h \in {"awaitbefore", "awaittargets"}
      BY <1>3, <3>1
    <3>2. CASE h \in Changing
      BY <1>1, <1>4, <1>7, <2>2, <3>2 DEF Awaiting, Has, D, Changing
    <3>3. CASE h \notin Changing \cup {"awaitbefore", "awaittargets"}
      BY <1>1, <1>3, <1>4, <1>7, <2>2, <3>3 DEF Awaiting, Has, D
    <3> QED BY <3>1, <3>2, <3>3
  <2> QED BY <1>1, <1>3, <1>4, <2>1, <2>2 DEF Awaiting
<1>9. ASSUME HasJournal(q) PROVE Undoing(b, q, p)
  <2>1. Undoing(a, o, p)
    BY <1>4, <1>5, <1>9
  <2>2. \A X : Has(q.todo, X) => Has(o.todo, X)
    BY <1>1 DEF Has, D
  <2>3. \A X : h \notin X /\ ~Has(q.todo, X) => ~Has(o.todo, X)
    BY <1>1 DEF Has, D
  <2>4. /\ Has(q.todo, {"create"}) => q.safe /\ ~Has(q.todo, {"row"})
        /\ Has(q.todo, {"row", "create"}) /\ q.safe => p.created = None
    BY <1>3, <2>1, <2>2 DEF Undoing
  <2>5. Recovering(q) /\ ~Has(q.todo, {"undo"}) => q.before = p.before
    BY <1>3, <1>7, <2>1, <2>3 DEF Undoing
  <2>6. Recovering(q) /\ ~Has(q.todo, {"undo", "modify"}) =>
          \A i \in RowsOf(Started(q)) : b.rows[i] = Started(q).rows[i]
    BY <1>5, <1>7, <2>1, <2>3 DEF Undoing
  <2>7. Recovering(q) /\ p.previous = None /\ ~Has(q.todo, {"undo", "delete"}) => RowsOf(b) = p.ids
    BY <1>7, <2>1, <2>3 DEF Undoing, p
  <2>8. \A s \in Steps(q.todo) : s.do = "delete" => p.previous = None /\ s.id \notin p.ids /\ RowsOf(b) \ p.ids \subseteq {s.id}
    <3>1. CASE h = "delete"
      BY <1>1, <1>2, <3>1
    <3>2. CASE h # "delete"
      BY <1>1, <2>1, <3>2 DEF Undoing
    <3> QED BY <3>1, <3>2
  <2> QED BY <2>4, <2>5, <2>6, <2>7, <2>8 DEF Undoing
<1>10. ~HasJournal(q) => ~Recovering(q)
  BY <1>4, <1>5, <1>7
<1> QED BY <1>3, <1>5, <1>6, <1>8, <1>9, <1>10 DEF Compensating, p

\* Under the journal: a step is done ...
LEMMA SafePopCompensates ==
  ASSUME NEW b, NEW a \in Accounts, NEW o, NEW q, NEW h, NEW cp, NEW row, Begun(a, o, h), o.safe, Good(q),
         Pops(o, q, h, cp, o.before, row, o.safe, o.fallback), Undoable(b, q),
         h \notin {"row", "create"} => cp.pending = o.cp.pending
  PROVE  Compensating(b, q)
<1> DEFINE D == Dos(q.todo)
<1>1. /\ Dos(o.todo) = {h} \cup D /\ Steps(q.todo) \subseteq Steps(o.todo)
  <2>1. AtStep(o, h) /\ q.todo = <<>> \o Tail(o.todo)
    BY DEF Pops
  <2> QED BY <2>1, PopsIsRest
<1>2. \A d \in D : (h = "create" => d # "create") /\ (h = "row" => d # "row")
  <2>1. AtStep(o, h) /\ q.todo = <<>> \o Tail(o.todo)
    BY DEF Pops
  <2>2. Dos(q.todo) = Dos(Tail(o.todo))
    BY <2>1, PopsIsRest
  <2> QED BY <2>1, <2>2, Later
<1>3. Same(o, q) /\ q.before = o.before /\ q.safe /\ q.cp = cp
  BY DEF Pops, Frame
<1>4. HasJournal(o) /\ Undoing(a, o, o.cp.pending) /\ Awaiting(a, o)
  BY BegunIs DEF Begun, Compensating
<1> HIDE DEF D
<1>5. Has(q.todo, {"create"}) => ~Has(q.todo, {"row"})
  BY <1>1, <1>4 DEF Undoing, Has, D
<1>6. Has(q.todo, {"row", "create"}) /\ HasJournal(q) => q.cp.pending.created = None
  <2>1. Has(o.todo, {"row", "create"}) => o.cp.pending.created = None
    BY <1>4 DEF Undoing
  <2>2. CASE h \notin {"row", "create"}
    BY <1>1, <1>3, <2>1, <2>2 DEF Has, D
  <2>3. CASE h = "create"
    BY <1>1, <1>2, <1>4, <2>3 DEF Undoing, Has, D
  <2>4. CASE h = "row"
    BY <1>1, <1>2, <1>4, <2>4 DEF Undoing, Has, D
  <2> QED BY <2>2, <2>3, <2>4
<1>7. \A s \in Steps(q.todo) :
        s.do = "awaittargets" => \A x \in Scenes : q.before.pref[x] # Empty => s.to[x] = q.before.pref[x]
  BY <1>1, <1>3, <1>4 DEF Awaiting
<1> QED BY <1>3, <1>5, <1>6, <1>7, SafeCompensates

\* ... or replaced by the steps s.
Splits(o, q, h, s) ==
  /\ Dos(q.todo) = Dos(s) \cup Dos(Tail(o.todo)) /\ Steps(q.todo) = Steps(s) \cup Steps(Tail(o.todo))
  /\ Dos(o.todo) = {h} \cup Dos(Tail(o.todo)) /\ Steps(o.todo) = {Head(o.todo)} \cup Steps(Tail(o.todo))
  /\ \A t \in Steps(Tail(o.todo)) : t.do \in Dos(Tail(o.todo))

LEMMA Replacing ==
  ASSUME NEW o, NEW q, NEW h, NEW s, s \in Seq(StepSet), AtStep(o, h), q.todo = s \o Tail(o.todo)
  PROVE  Splits(o, q, h, s)
<1>1. Rest(o, h, Dos(Tail(o.todo)), Steps(Tail(o.todo)))
  BY RestIs
<1>2. Tail(o.todo) \in Seq(StepSet)
  BY <1>1 DEF Rest
<1> QED BY <1>1, <1>2, Joined DEF Rest, Dos, Splits

LEMMA SelectCompensates ==
  ASSUME NEW a \in Accounts, NEW o, NEW q, NEW to, Begun(a, o, "select"), Good(q), SetsTo(a, o, q, "select", to)
  PROVE  Compensating(a, q)
<1>1. Good(o) /\ "select" \in Dos(o.todo) /\ Undoable(a, o) /\ Awaiting(a, o) /\ o.todo # <<>>
      /\ (HasJournal(o) => Undoing(a, o, o.cp.pending))
  BY BegunIs DEF Begun, Compensating
<1>2. Same(o, q) /\ q.cp = o.cp /\ q.before = o.before /\ q.safe = o.safe /\ q.fallback = o.fallback
  BY DEF SetsTo, Frame
<1>3. PICK s \in Seq(StepSet) : Sets(a, to, s) /\ q.todo = s \o Tail(o.todo)
  BY DEF SetsTo
<1>4. /\ Dos(q.todo) = Dos(s) \cup Dos(Tail(o.todo)) /\ Steps(q.todo) = Steps(s) \cup Steps(Tail(o.todo))
      /\ Dos(o.todo) = {"select"} \cup Dos(Tail(o.todo)) /\ Steps(o.todo) = {Head(o.todo)} \cup Steps(Tail(o.todo))
  <2>1. AtStep(o, "select")
    BY DEF SetsTo
  <2>2. Splits(o, q, "select", s)
    BY <1>3, <2>1, Replacing
  <2> QED BY <2>2 DEF Splits
<1>5. Dos(s) \subseteq {"set"} /\ \A x \in Steps(s) : x.do = "set"
  BY <1>3 DEF Sets
<1>6. \A d \in Dos(Tail(o.todo)) : d \notin {"journal", "row", "create"}
  BY Later DEF SetsTo
<1>7. o.safe
  BY <1>1, <1>4, <1>6 DEF Good, Planned, Stage, SwitchDos, Has
<1>8. Undoable(a, q)
  BY <1>1, <1>2, SameUndoable
<1>9. \A t \in Steps(q.todo) :
        t.do = "awaittargets" => \A x \in Scenes : q.before.pref[x] # Empty => t.to[x] = q.before.pref[x]
  BY <1>1, <1>2, <1>4, <1>5 DEF Awaiting
<1>10. ~Has(q.todo, {"row", "create"})
  BY <1>4, <1>5, <1>6 DEF Has
<1> QED BY <1>2, <1>7, <1>8, <1>9, <1>10, SafeCompensates DEF Has

LEMMA PreferCompensates ==
  ASSUME NEW a \in Accounts, NEW o, NEW q, NEW to, Begun(a, o, "prefer"), Good(q), SetsTo(a, o, q, "prefer", to)
  PROVE  Compensating(a, q)
<1> DEFINE p == o.cp.pending
<1>1. /\ Undoable(a, o) /\ Awaiting(a, o) /\ Untouched(a, o) /\ o.todo # <<>>
      /\ HasJournal(o) /\ Undoing(a, o, p)
  BY BegunIs DEF Begun, Compensating, Changing
<1>2. Same(o, q) /\ q.cp = o.cp /\ q.before = o.before /\ q.safe = o.safe /\ q.fallback = o.fallback
  BY DEF SetsTo, Frame
<1>3. PICK s \in Seq(StepSet) : Sets(a, to, s) /\ q.todo = s \o Tail(o.todo)
  BY DEF SetsTo
<1>4. /\ Dos(q.todo) = Dos(s) \cup Dos(Tail(o.todo)) /\ Steps(q.todo) = Steps(s) \cup Steps(Tail(o.todo))
      /\ Dos(o.todo) = {"prefer"} \cup Dos(Tail(o.todo)) /\ Steps(o.todo) = {Head(o.todo)} \cup Steps(Tail(o.todo))
  <2>1. AtStep(o, "prefer")
    BY DEF SetsTo
  <2>2. Splits(o, q, "prefer", s)
    BY <1>3, <2>1, Replacing
  <2> QED BY <2>2 DEF Splits
<1>5. Dos(s) \subseteq {"set"} /\ \A x \in Steps(s) : x.do = "set"
  BY <1>3 DEF Sets
<1>6. Undoable(a, q) /\ HasJournal(q) /\ Started(q) = Started(o)
  BY <1>1, <1>2, SameUndoable
<1> HIDE DEF p
<1>7. \A X : "prefer" \notin X /\ "set" \notin X => (Has(q.todo, X) <=> Has(o.todo, X))
  BY <1>4, <1>5 DEF Has
<1>8. Untouched(a, q)
  BY <1>1, <1>2, <1>6, <1>7 DEF Untouched
<1>9. (Recovering(q) <=> Recovering(o)) /\ Has(o.todo, Changing)
  BY <1>4, <1>7 DEF Recovering, Has, Changing
<1>10. Awaiting(a, q)
  <2>1. Recovering(q) => Has(q.todo, {"undo", "awaitbefore", "native", "awaittargets"})
    BY <1>1, <1>7, <1>9 DEF Awaiting
  <2>2. Recovering(q) => Has(q.todo, Changing \cup {"awaitbefore", "awaittargets"})
    BY <2>1 DEF Has, Changing
  <2> QED BY <1>1, <1>2, <1>4, <1>5, <2>1, <2>2 DEF Awaiting
<1>11. Undoing(a, q, p)
  BY <1>1, <1>2, <1>4, <1>5, <1>6, <1>7, <1>9 DEF Undoing
<1> QED BY <1>2, <1>6, <1>8, <1>10, <1>11 DEF Compensating, p

LEMMA NativeCompensates ==
  ASSUME NEW a \in Accounts, NEW o, NEW q, Begun(a, o, "native"), Good(q), NativeTo(a, o, q)
  PROVE  Compensating(a, q)
<1> DEFINE p == o.cp.pending
<1>1. /\ Undoable(a, o) /\ Awaiting(a, o) /\ Untouched(a, o) /\ o.todo # <<>>
      /\ HasJournal(o) /\ Undoing(a, o, p)
  BY BegunIs DEF Begun, Compensating, Changing
<1>2. Same(o, q) /\ q.cp = o.cp /\ q.before = o.before /\ q.safe = o.safe /\ q.fallback = o.fallback
  BY DEF NativeTo, Frame
<1>3. PICK s \in Seq(StepSet), to \in Targets :
        Natives(a, o, to) /\ Sets(a, to, s) /\ q.todo = (s \o <<[do |-> "awaittargets", to |-> to]>>) \o Tail(o.todo)
  BY DEF NativeTo
<1> DEFINE w == [do |-> "awaittargets", to |-> to] t == s \o <<w>>
<1>4. t \in Seq(StepSet) /\ Steps(t) = Steps(s) \cup {w} /\ Dos(t) = Dos(s) \cup {"awaittargets"} /\ w.to = to
  BY <1>3, NativesJoin
<1>5. Dos(s) \subseteq {"set"} /\ \A x \in Steps(s) : x.do = "set"
  BY <1>3 DEF Sets
<1> HIDE DEF w, t
<1>6. /\ Dos(q.todo) = Dos(t) \cup Dos(Tail(o.todo)) /\ Steps(q.todo) = Steps(t) \cup Steps(Tail(o.todo))
      /\ Dos(o.todo) = {"native"} \cup Dos(Tail(o.todo)) /\ Steps(o.todo) = {Head(o.todo)} \cup Steps(Tail(o.todo))
  <2>1. AtStep(o, "native") /\ q.todo = t \o Tail(o.todo)
    BY <1>3 DEF NativeTo, t, w
  <2>2. Splits(o, q, "native", t)
    BY <1>4, <2>1, Replacing
  <2> QED BY <2>2 DEF Splits
<1>7. Undoable(a, q) /\ HasJournal(q) /\ Started(q) = Started(o)
  BY <1>1, <1>2, SameUndoable
<1> HIDE DEF p
<1>8. \A X : "native" \notin X /\ "set" \notin X /\ "awaittargets" \notin X => (Has(q.todo, X) <=> Has(o.todo, X))
  BY <1>4, <1>5, <1>6 DEF Has
<1>9. Untouched(a, q)
  BY <1>1, <1>2, <1>7, <1>8 DEF Untouched
<1>10. Recovering(q) <=> Recovering(o)
  BY <1>8 DEF Recovering
<1>11. Awaiting(a, q)
  <2>1. "awaittargets" \in Dos(q.todo)
    BY <1>4, <1>6
  <2>2. Has(q.todo, {"undo", "awaitbefore", "native", "awaittargets"}) /\ Has(q.todo, Changing \cup {"awaitbefore", "awaittargets"})
    BY <2>1 DEF Has
  <2>3. \A x \in Scenes : q.before.pref[x] # Empty => w.to[x] = q.before.pref[x]
    BY <1>2, <1>3, <1>4 DEF Natives
  <2>4. \A x \in Steps(q.todo) : x = w \/ x.do = "set" \/ x \in Steps(o.todo)
    BY <1>4, <1>5, <1>6
  <2> QED BY <1>1, <1>2, <2>2, <2>3, <2>4 DEF Awaiting
<1>12. w.do = "awaittargets"
  BY DEF w
<1>13. Undoing(a, q, p)
  <2>1. \A x \in Steps(q.todo) : x.do = "delete" => x \in Steps(o.todo)
    BY <1>4, <1>5, <1>6, <1>12
  <2> QED BY <1>1, <1>2, <1>7, <1>8, <1>10, <2>1 DEF Undoing
<1> QED BY <1>2, <1>7, <1>9, <1>11, <1>13 DEF Compensating, p

\* What recovery does follows from the journal.
UndoesClean(a, p, E, X) ==
  /\ {"prefer", "writebefore", "settle"} \subseteq E /\ E \subseteq {"prefer", "awaitbefore", "writebefore", "settle", "modify", "native", "delete"}
  /\ "awaitbefore" \in E \/ "native" \in E
  /\ \A x \in X : x.do \in E
  /\ "modify" \notin E => \A i \in p.ids : p.previous # None /\ i = p.previous.id => a.rows[i] = p.previous.input
  /\ "delete" \notin E /\ p.previous = None => RowsOf(a) \subseteq p.ids
  /\ \A x \in X : x.do = "delete" => p.previous = None /\ x.id \notin p.ids /\ RowsOf(a) \ p.ids \subseteq {x.id}

LEMMA PlainsAre ==
  ASSUME NEW E, NEW x \in Plains(E)
  PROVE  x.do \in E
BY DEF Plains, Do

LEMMA UndoesAreClean ==
  ASSUME NEW a, NEW p, NEW b, NEW r, NEW E, NEW X, UndoSteps(a, p, r, E, X), JournalOK(a, p),
         RowsKept(a, p, b), RowsOf(b) = p.ids, p.previous = None => NewRows(a, p)
  PROVE  UndoesClean(a, p, E, X)
<1> DEFINE prev == p.previous
<1>1. prev # None => prev.id \in RowsOf(a)
  BY DEF JournalOK, RowsKept
<1>2. p.created # None => p.created.id \notin p.ids
  BY DEF JournalOK
<1>3. CASE prev # None /\ prev.id \in RowsOf(a) /\ a.rows[prev.id] = prev.input /\ E = RestDos /\ X = Plains(RestDos)
  BY <1>3, PlainsAre DEF UndoesClean, RestDos
<1>4. CASE /\ prev # None /\ E = RestDos \cup {"modify"}
           /\ X = Plains(RestDos) \cup {[do |-> "modify", id |-> prev.id, input |-> prev.input]}
  BY <1>4, PlainsAre DEF UndoesClean, RestDos
<1>5. CASE prev = None /\ CandidatesIn(a, p, {}) /\ E = NativeDos /\ X = Plains(NativeDos)
  <2>1. p.created = None
    BY <1>5 DEF CandidatesIn
  <2>2. {i \in RowsOf(a) \ p.ids : a.rows[i] = p.add} = {}
    BY <1>5, <2>1 DEF CandidatesIn
  <2>3. \A i \in RowsOf(a) \ p.ids : a.rows[i] = p.add
    BY <1>5 DEF NewRows
  <2>4. RowsOf(a) \subseteq p.ids
    BY <2>2, <2>3
  <2> QED BY <1>5, <2>4, PlainsAre DEF UndoesClean, NativeDos
<1>6. ASSUME NEW j \in Ids, prev = None, CandidatesIn(a, p, {j}), E = NativeDos \cup {"delete"},
             X = Plains(NativeDos) \cup {[do |-> "delete", id |-> j]}
      PROVE  UndoesClean(a, p, E, X)
  <2>1. j \notin p.ids /\ RowsOf(a) \ p.ids \subseteq {j}
    <3>1. CASE p.created # None
      <4>1. j = p.created.id
        BY <1>6, <3>1 DEF CandidatesIn
      <4> QED BY <1>2, <1>6, <3>1, <4>1 DEF NewRows
    <3>2. CASE p.created = None
      <4>1. {j} = {i \in RowsOf(a) \ p.ids : a.rows[i] = p.add}
        BY <1>6, <3>2 DEF CandidatesIn
      <4> QED BY <1>6, <4>1 DEF NewRows
    <3> QED BY <3>1, <3>2
  <2>2. \A x \in X : x.do \in E /\ (x.do = "delete" => x.id = j)
    BY <1>6, PlainsAre DEF NativeDos
  <2> QED BY <1>6, <2>1, <2>2 DEF UndoesClean, NativeDos
<1> QED BY <1>1, <1>3, <1>4, <1>5, <1>6 DEF UndoSteps

LEMMA UndoCompensates ==
  ASSUME NEW a \in Accounts, NEW o, NEW q, Begun(a, o, "undo"), Good(q), UndoTo(a, o, q)
  PROVE  Compensating(a, q)
<1> DEFINE p == o.cp.pending b == Started(o)
<1>1. /\ Good(o) /\ Undoable(a, o) /\ Awaiting(a, o) /\ Untouched(a, o) /\ o.todo # <<>>
      /\ HasJournal(o) /\ Undoing(a, o, p) /\ JournalOK(a, p) /\ JournalOf(a, o, p)
  BY BegunIs DEF Begun, Compensating, Changing
<1>2. Same(o, q) /\ q.cp = o.cp /\ q.before = p.before /\ q.safe = o.safe /\ q.fallback = o.fallback
  BY DEF UndoTo, Frame
<1>3. PICK s \in Seq(StepSet) : q.todo = s \o Tail(o.todo) /\ UndoSteps(a, p, q.row, Dos(s), Steps(s))
  BY DEF UndoTo
<1> DEFINE D == Dos(Tail(o.todo)) T == Steps(Tail(o.todo)) E == Dos(s) X == Steps(s)
<1>4. /\ Dos(q.todo) = E \cup D /\ Steps(q.todo) = X \cup T
      /\ Dos(o.todo) = {"undo"} \cup D /\ Steps(o.todo) = {Head(o.todo)} \cup T /\ \A t \in T : t.do \in D
  <2>1. AtStep(o, "undo")
    BY DEF UndoTo
  <2>2. Splits(o, q, "undo", s)
    BY <1>3, <2>1, Replacing
  <2> QED BY <2>2 DEF Splits
<1>5. UndoesClean(a, p, E, X)
  <2>1. RowsKept(a, p, b) /\ RowsOf(b) = p.ids /\ (p.previous = None => NewRows(a, p))
    BY <1>1 DEF JournalOf, Tells
  <2> QED BY <1>1, <1>3, <2>1, UndoesAreClean
<1>6. \A d \in D : d \notin RecoveryDos \cup {"aim", "forget", "undo"}
  <2>1. Shape(o)
    BY <1>1 DEF Good, Planned
  <2>2. \A d \in D : d # "undo"
    BY Later DEF UndoTo
  <2> QED BY <1>4, <2>1, <2>2 DEF Shape, Has
<1>7. Undoable(a, q) /\ HasJournal(q) /\ Started(q) = b
  BY <1>1, <1>2, SameUndoable
<1> HIDE DEF p, b, D, T, E, X
<1>8. Untouched(a, q)
  <2>1. ~Has(q.todo, {"aim", "forget", "remap"})
    BY <1>4, <1>5, <1>6 DEF UndoesClean, RecoveryDos, Has
  <2>2. Has(q.todo, {"journal", "decide"}) => Has(o.todo, {"journal", "decide"})
    BY <1>4, <1>5 DEF UndoesClean, Has
  <2> QED BY <1>1, <2>1, <2>2 DEF Untouched
<1>9. Awaiting(a, q)
  <2>1. Has(q.todo, {"undo", "awaitbefore", "native", "awaittargets"}) /\ Has(q.todo, Changing \cup {"awaitbefore", "awaittargets"})
    BY <1>4, <1>5 DEF UndoesClean, Has, Changing
  <2>2. \A x \in Steps(q.todo) : x.do # "awaittargets"
    BY <1>4, <1>5, <1>6 DEF UndoesClean, RecoveryDos
  <2> QED BY <2>1, <2>2 DEF Awaiting
<1>10. Undoing(a, q, p)
  <2>1. ~Has(q.todo, {"create"})
    BY <1>4, <1>5, <1>6 DEF UndoesClean, RecoveryDos, Has
  <2>2. Has(q.todo, {"row", "create"}) /\ q.safe => p.created = None
    <3>1. Has(q.todo, {"row", "create"}) => Has(o.todo, {"row", "create"})
      BY <1>4, <1>5, <2>1 DEF UndoesClean, Has
    <3> QED BY <1>1, <1>2, <3>1 DEF Undoing
  <2>3. ~Has(q.todo, {"undo", "modify"}) => \A i \in RowsOf(b) : a.rows[i] = b.rows[i]
    <3>1. ~Has(q.todo, {"undo", "modify"}) => "modify" \notin E
      BY <1>4 DEF Has
    <3> QED BY <1>1, <1>5, <3>1 DEF UndoesClean, JournalOf, Tells, RowsKept, b
  <2>4. p.previous = None /\ ~Has(q.todo, {"undo", "delete"}) => RowsOf(a) = p.ids
    <3>1. ~Has(q.todo, {"undo", "delete"}) => "delete" \notin E
      BY <1>4 DEF Has
    <3>2. p.ids \subseteq RowsOf(a)
      BY <1>1 DEF JournalOf, Tells, RowsKept
    <3> QED BY <1>5, <3>1, <3>2 DEF UndoesClean
  <2>5. \A x \in Steps(q.todo) : x.do = "delete" => p.previous = None /\ x.id \notin p.ids /\ RowsOf(a) \ p.ids \subseteq {x.id}
    BY <1>4, <1>5, <1>6 DEF UndoesClean, RecoveryDos
  <2> QED BY <1>2, <1>7, <2>1, <2>2, <2>3, <2>4, <2>5 DEF Undoing
<1> QED BY <1>2, <1>7, <1>8, <1>9, <1>10 DEF Compensating, p

\* A journal written of the account as it was found is a journal of it.
LEMMA WrittenJournal ==
  ASSUME NEW a \in Accounts, NEW f, NEW o, NEW q, NEW h, Begun(a, o, h), h \in {"journal", "decide"},
         Same(o, q), ~q.fallback, Written(a, f, o.cp, q.cp, q.cp.pending.add),
         q.cp.pending.previous = None /\ q.call = "switch" => q.cp.pending.add = o.want
  PROVE  Undoable(a, q) /\ HasJournal(q) /\ q.cp.pending.created = None
<1> DEFINE p == q.cp.pending
<1>1. a = Started(o) /\ o.cp # None /\ (o.cp.managed # None => Beside(o)) /\ Undoable(a, o)
  BY BegunIs DEF Begun, Compensating, Untouched, Has
<1>2. Started(q) = Started(o) /\ q.call = o.call /\ q.want = o.want /\ (Beside(q) <=> Beside(o))
  BY DEF Same, Started, Beside
<1>3. q.cp # None /\ p # None /\ p.ids = RowsOf(a) /\ p.created = None
      /\ Read(a, f, p.before) /\ ReadRow(a, o.cp.managed, p.previous)
  BY CheckpointIs, ImaAssumption DEF Written
<1>4. \A s \in Scenes : a.pref[s] \in p.ids \cup {Official} => p.before.pref[s] = a.pref[s]
  BY <1>3 DEF Read, SelectableIn
<1>5. p.previous # None => p.previous.input = a.rows[p.previous.id] /\ o.cp.managed # None
  BY <1>3 DEF ReadRow
<1>6. Tells(q, p)
  BY <1>1, <1>2, <1>3, <1>4, <1>5 DEF Tells
<1>7. RowsKept(a, p, a) /\ NewRows(a, p)
  BY <1>3 DEF RowsKept, NewRows
<1>8. Follows(a, q)
  BY <1>1, <1>2 DEF Undoable, Follows
<1> HIDE DEF p
<1>9. JournalOf(a, q, p)
  BY <1>1, <1>2, <1>6, <1>7 DEF JournalOf
<1> QED BY <1>3, <1>8, <1>9 DEF Undoable, HasJournal, p

LEMMA JournalCompensates ==
  ASSUME NEW a \in Accounts, NEW f, NEW o, NEW q, Begun(a, o, "journal"), Good(q), JournalTo(a, f, o, q)
  PROVE  Compensating(a, q)
<1>1. Good(o) /\ Undoable(a, o) /\ Awaiting(a, o) /\ (HasJournal(o) => FALSE)
  BY BegunIs DEF Begun, Compensating, Untouched, Has
<1>2. Same(o, q) /\ q.before = o.before /\ q.safe /\ q.fallback = o.fallback /\ AtStep(o, "journal") /\ q.todo = <<>> \o Tail(o.todo)
  BY DEF JournalTo, Pops, Frame
<1>3. Undoable(a, q) /\ HasJournal(q) /\ q.cp.pending.created = None
  <2>1. q.cp.pending.previous = None /\ q.call = "switch" => q.cp.pending.add = o.want
    BY DEF JournalTo
  <2>2. ~q.fallback /\ Written(a, f, o.cp, q.cp, q.cp.pending.add)
    BY <1>1, <1>2 DEF JournalTo, Undoable
  <2> QED BY <1>2, <2>1, <2>2, WrittenJournal
<1>4. Steps(q.todo) \subseteq Steps(o.todo) /\ Dos(q.todo) = Dos(Tail(o.todo))
  BY <1>2, PopsIsRest
<1>5. \A d \in Dos(q.todo) : d # "create"
  BY <1>2, <1>4, Later
<1>6. \A s \in Steps(q.todo) :
        s.do = "awaittargets" => \A x \in Scenes : q.before.pref[x] # Empty => s.to[x] = q.before.pref[x]
  BY <1>1, <1>2, <1>4 DEF Awaiting
<1> QED BY <1>2, <1>3, <1>5, <1>6, SafeCompensates DEF Has

LEMMA ReturnCompensates ==
  ASSUME NEW a \in Accounts, NEW f, NEW o, NEW q, Begun(a, o, "decide"), Good(q), ReturnTo(a, f, o, q)
  PROVE  Compensating(a, q)
<1>1. Same(o, q) /\ q.safe /\ ~q.fallback /\ AtStep(o, "decide") /\ q.todo = ReturnPlan
  BY DEF ReturnTo, Frame
<1>2. q.call # "switch"
  BY <1>1, DecidesLast DEF Same
<1>3. Undoable(a, q) /\ HasJournal(q) /\ q.cp.pending.created = None
  <2>1. Written(a, f, o.cp, q.cp, q.cp.pending.add)
    BY DEF ReturnTo
  <2> QED BY <1>1, <1>2, <2>1, WrittenJournal
<1>4. Dos(q.todo) = {"native", "writebefore", "keep", "commit", "clear"}
  BY <1>1, ReturnPlanIs DEF Plain
<1>5. \A s \in Steps(q.todo) : s.do # "awaittargets"
  BY <1>4 DEF Dos
<1> QED BY <1>1, <1>3, <1>4, <1>5, SafeCompensates DEF Has

LEMMA CreateCompensates ==
  ASSUME NEW a \in Accounts, NEW o, NEW q, Begun(a, o, "row"), Good(q), CreateTo(o, q), o.want \in Inputs
  PROVE  Compensating(a, q)
<1> DEFINE w == [do |-> "create", input |-> o.want]
<1>1. Good(o) /\ Undoable(a, o) /\ Awaiting(a, o) /\ o.todo # <<>> /\ "row" \in Dos(o.todo)
      /\ (HasJournal(o) => Undoing(a, o, o.cp.pending))
  BY BegunIs DEF Begun, Compensating
<1>2. Same(o, q) /\ q.cp = o.cp /\ q.before = o.before /\ q.safe = o.safe /\ q.fallback = o.fallback
  BY DEF CreateTo, Frame
<1>3. w \in StepSet /\ w.do = "create"
  BY DEF StepSet
<1>4. q.todo = <<w>> \o Tail(o.todo) /\ AtStep(o, "row")
  BY DEF CreateTo
<1>5. <<w>> \in Seq(StepSet) /\ Steps(<<w>>) = {w} /\ Dos(<<w>>) = {"create"}
  BY <1>3, OneStep
<1> HIDE DEF w
<1>6. /\ Dos(q.todo) = {"create"} \cup Dos(Tail(o.todo)) /\ Steps(q.todo) = {w} \cup Steps(Tail(o.todo))
      /\ Dos(o.todo) = {"row"} \cup Dos(Tail(o.todo)) /\ Steps(o.todo) = {Head(o.todo)} \cup Steps(Tail(o.todo))
  <2>1. Splits(o, q, "row", <<w>>)
    BY <1>4, <1>5, Replacing
  <2> QED BY <1>5, <2>1 DEF Splits
<1>7. \A d \in Dos(Tail(o.todo)) : d \notin {"journal", "row"}
  BY <1>4, Later
<1>8. o.safe
  BY <1>1, <1>6, <1>7 DEF Good, Planned, Stage, SwitchDos, Has
<1>9. Undoable(a, q) /\ (HasJournal(q) <=> HasJournal(o))
  BY <1>1, <1>2, SameUndoable
<1>10. HasJournal(q) => q.cp.pending.created = None
  BY <1>1, <1>2, <1>8, <1>9 DEF Undoing, Has
<1>11. \A s \in Steps(q.todo) :
        s.do = "awaittargets" => \A x \in Scenes : q.before.pref[x] # Empty => s.to[x] = q.before.pref[x]
  BY <1>1, <1>2, <1>3, <1>6 DEF Awaiting
<1>12. ~Has(q.todo, {"row"})
  BY <1>6, <1>7 DEF Has
<1> QED BY <1>2, <1>8, <1>9, <1>10, <1>11, <1>12, SafeCompensates

\* The created row is noted in the journal.
LEMMA NotedUndoable ==
  ASSUME NEW a \in Accounts, NEW o, NEW u, NEW r, Begun(a, o, "create"), Same(o, u), u.fallback = o.fallback,
         Notes(a, o, u.cp, r, Head(o.todo).input)
  PROVE  Undoable(a, u) /\ HasJournal(u) /\ o.safe
<1> DEFINE p == o.cp.pending n == u.cp.pending input == Head(o.todo).input
<1>1. /\ HasJournal(o) /\ Undoable(a, o) /\ JournalOf(a, o, p) /\ Undoing(a, o, p)
      /\ "create" \in Dos(o.todo) /\ Head(o.todo) \in Steps(o.todo) /\ Good(o)
  BY BegunIs DEF Changing
<1>2. o.safe /\ p.created = None
  BY <1>1 DEF Undoing, Has
<1>3. o.call = "switch" /\ input = o.want
  BY <1>1, <1>2 DEF Good, Planned, Made, Begun, AtStep
<1>4. /\ u.cp # None /\ n # None /\ SamePending(n, p)
      /\ n.created = IF r.own THEN r ELSE None
      /\ r.own => \A i \in RowsOf(a) \ p.ids : a.rows[i] = input => i = r.id
  BY <1>2, CheckpointIs DEF Notes
<1>5. p.previous = None => NewRows(a, p) /\ p.add = input
  BY <1>1, <1>3 DEF JournalOf, Tells
<1>6. Started(u) = Started(o) /\ (Beside(u) <=> Beside(o)) /\ u.call = o.call /\ u.want = o.want
  BY DEF Same, Started, Beside
<1> HIDE DEF p, n, input
<1>7. n.previous = None => NewRows(a, n)
  BY <1>4, <1>5 DEF NewRows, SamePending
<1>8. Tells(u, n)
  BY <1>1, <1>4, <1>6 DEF JournalOf, Tells, SamePending
<1>9. RowsKept(a, n, Started(u))
  BY <1>1, <1>4, <1>6 DEF JournalOf, RowsKept, SamePending
<1>10. JournalOf(a, u, n)
  BY <1>7, <1>8, <1>9 DEF JournalOf
<1>11. Follows(a, u) /\ ~u.fallback
  BY <1>1, <1>6 DEF Undoable, Follows
<1> QED BY <1>2, <1>4, <1>10, <1>11 DEF Undoable, HasJournal, n

LEMMA FoundCompensates ==
  ASSUME NEW a \in Accounts, NEW o, NEW q, Begun(a, o, "create"), Good(q), FoundTo(a, o, q)
  PROVE  Compensating(a, q)
<1>1. Same(o, q) /\ q.fallback = o.fallback /\ Notes(a, o, q.cp, q.row, Head(o.todo).input)
      /\ Pops(o, q, "create", q.cp, o.before, q.row, o.safe, o.fallback)
  BY DEF FoundTo, Pops, Frame
<1>2. Undoable(a, q) /\ o.safe
  BY <1>1, NotedUndoable
<1> QED BY <1>1, <1>2, SafePopCompensates

LEMMA NotingCompensates ==
  ASSUME NEW a \in Accounts, NEW o, NEW u, NEW q, Begun(a, o, "create"), Good(u), Noting(a, o, u), Failing(u, q)
  PROVE  Compensating(a, q)
<1>1. PICK r \in Records : Notes(a, o, u.cp, r, Head(o.todo).input)
  BY DEF Noting
<1>2. Same(o, u) /\ u.fallback = o.fallback /\ u.todo = o.todo /\ o.todo # <<>>
  BY DEF Noting, Frame, AtStep
<1>3. Undoable(a, u)
  BY <1>1, <1>2, NotedUndoable
<1> QED BY <1>2, <1>3, FailingCompensates

LEMMA RowCompensates ==
  ASSUME NEW a \in Accounts, NEW b, NEW o, NEW q, Begun(a, o, "row"), Undoable(b, o), o.safe, Good(q), RowTo(o, q)
  PROVE  Compensating(b, q)
<1>1. Pops(o, q, "row", o.cp, o.before, q.row, o.safe, o.fallback)
  BY DEF RowTo
<1>2. Same(o, q) /\ q.cp = o.cp /\ q.fallback = o.fallback /\ o.todo # <<>>
  BY <1>1 DEF Pops, Frame, AtStep
<1>3. Undoable(b, q)
  BY <1>2, SameUndoable
<1> QED BY <1>1, <1>3, SafePopCompensates

LEMMA KeptUndoable ==
  ASSUME NEW a \in Accounts, NEW o, NEW u, Begun(a, o, "keep"), Same(o, u), u.fallback = o.fallback, Keeping(o, u.cp)
  PROVE  Undoable(a, u) /\ o.safe /\ u.cp.pending = o.cp.pending
<1>1. o.safe
  BY RecordThere DEF Begun
<1>2. HasJournal(o) /\ Undoable(a, o)
  BY <1>1, BegunIs
<1>3. u.cp # None /\ u.cp.pending = o.cp.pending
  BY CheckpointIs DEF Keeping
<1>4. Started(u) = Started(o) /\ (Beside(u) <=> Beside(o)) /\ u.call = o.call /\ u.want = o.want
  BY DEF Same, Started, Beside
<1>5. HasJournal(u) /\ JournalOf(a, u, u.cp.pending)
  BY <1>2, <1>3, <1>4 DEF Undoable, HasJournal, JournalOf, Tells
<1>6. Follows(a, u) /\ ~u.fallback
  BY <1>2, <1>4 DEF Undoable, Follows
<1> QED BY <1>1, <1>3, <1>5, <1>6 DEF Undoable

LEMMA KeepCompensates ==
  ASSUME NEW a \in Accounts, NEW o, NEW q, Begun(a, o, "keep"), Good(q), KeepTo(o, q)
  PROVE  Compensating(a, q)
<1>1. Same(o, q) /\ q.fallback = o.fallback /\ Keeping(o, q.cp)
      /\ Pops(o, q, "keep", q.cp, o.before, o.row, o.safe, o.fallback)
  BY DEF KeepTo, Pops, Frame
<1>2. Undoable(a, q) /\ o.safe /\ q.cp.pending = o.cp.pending
  BY <1>1, KeptUndoable
<1> QED BY <1>1, <1>2, SafePopCompensates

LEMMA KeepingCompensates ==
  ASSUME NEW a \in Accounts, NEW o, NEW u, NEW q, Begun(a, o, "keep"), Good(u), KeepingAs(o, u), Failing(u, q)
  PROVE  Compensating(a, q)
<1>1. Same(o, u) /\ u.fallback = o.fallback /\ u.todo = o.todo /\ o.todo # <<>> /\ Keeping(o, u.cp)
  BY DEF KeepingAs, Frame, AtStep
<1>2. Undoable(a, u)
  BY <1>1, KeptUndoable
<1> QED BY <1>1, <1>2, FailingCompensates

\* The journal is cleared after a success, ...
LEMMA ClearCompensates ==
  ASSUME NEW a \in Accounts, NEW o, NEW q, NEW m, Begun(a, o, "clear"), Good(q), DoneTo(o, q, "clear", m)
  PROVE  Compensating(a, q)
<1>1. /\ AtStep(o, "clear") /\ q.todo = <<>> \o Tail(o.todo) /\ Same(o, q) /\ q.fallback = o.fallback
      /\ q.cp.pending = None
  BY DEF DoneTo, Pops, Frame
<1>2. /\ Dos(o.todo) = {"clear"} \cup Dos(q.todo) /\ Dos(q.todo) = Dos(Tail(o.todo))
      /\ (q.todo # <<>> => Dos(q.todo) # {}) /\ \A s \in Steps(q.todo) : s.do \in Dos(q.todo)
  BY <1>1, PopsIsRest
<1>3. \A d \in Dos(q.todo) : d \in {"fail", "failed"}
  BY <1>1, <1>2, Later DEF AllDos, PlainDos
<1>4. Shape(o)
  BY <1>1 DEF AtStep, Planned
<1>5. Dos(q.todo) = {} /\ q.todo = <<>> /\ Steps(q.todo) = {}
  BY <1>2, <1>3, <1>4 DEF Shape, Has
<1>6. Undoable(a, o)
  BY BegunIs
<1>7. Undoable(a, q)
  BY <1>1, <1>5, <1>6 DEF Undoable, HasJournal, Follows, Started, Same
<1> QED BY <1>5, <1>7 DEF Compensating, Untouched, Awaiting, Recovering, Has

\* ... or after everything has been put back.
LEMMA PutBack ==
  ASSUME NEW a \in Accounts, NEW o, NEW p, Follows(a, o), Tells(o, p), Started(o) \in Accounts,
         \A i \in RowsOf(Started(o)) : i \in RowsOf(a) /\ a.rows[i] = Started(o).rows[i],
         p.previous = None => RowsOf(a) = p.ids, PrefsBack(p.before, a)
  PROVE  Compensated(a, o)
<1> DEFINE b == Started(o)
<1>1. RowsOf(a) = RowsOf(b) \/ Beside(o)
  BY DEF Tells
<1>2. ASSUME NEW s \in Scenes, b.pref[s] \in SelectableIn(a) PROVE a.pref[s] = b.pref[s]
  <2>1. RowsOf(a) \subseteq Ids /\ Empty \notin Ids \cup {Official}
    BY AccountIs, ImaAssumption DEF Ids
  <2>2. b.pref[s] \in p.ids \cup {Official}
    <3>1. CASE b.pref[s] = Official
      BY <3>1
    <3>2. CASE b.pref[s] \in RowsOf(a)
      <4>1. b.pref[s] < b.next
        BY <2>1, <3>2 DEF Follows
      <4>2. b.pref[s] \in RowsOf(b)
        BY <3>2, <4>1 DEF Follows
      <4> QED BY <4>2 DEF Tells
    <3> QED BY <1>2, <3>1, <3>2 DEF SelectableIn
  <2>3. p.before.pref[s] = b.pref[s]
    BY <2>2 DEF Tells
  <2>4. b.pref[s] # Empty
    BY <1>2, <2>1 DEF SelectableIn
  <2> QED BY <2>3, <2>4 DEF PrefsBack
<1> QED BY <1>1, <1>2 DEF Compensated

LEMMA SettleCompensates ==
  ASSUME NEW a \in Accounts, NEW o, NEW q, NEW m, Begun(a, o, "settle"), Good(q), DoneTo(o, q, "settle", m)
  PROVE  Compensating(a, q)
<1> DEFINE p == o.cp.pending
<1>1. /\ AtStep(o, "settle") /\ q.todo = <<>> \o Tail(o.todo) /\ Same(o, q) /\ q.fallback = o.fallback
      /\ q.cp.pending = None /\ q.before = o.before
  BY DEF DoneTo, Pops, Frame
<1>2. /\ Dos(o.todo) = {"settle"} \cup Dos(q.todo) /\ Dos(q.todo) = Dos(Tail(o.todo))
      /\ Steps(q.todo) \subseteq Steps(o.todo) /\ \A s \in Steps(q.todo) : s.do \in Dos(q.todo)
  <2>1. /\ Dos(o.todo) = {"settle"} \cup Dos(q.todo) /\ Steps(o.todo) = {Head(o.todo)} \cup Steps(q.todo)
        /\ Dos(q.todo) = Dos(Tail(o.todo)) /\ \A s \in Steps(q.todo) : s.do \in Dos(q.todo)
    BY <1>1, PopsIsRest
  <2> QED BY <2>1
<1>3. \A d \in Dos(q.todo) : d \notin {"undo", "modify", "create", "remap", "prefer", "set", "delete", "awaitbefore",
                                       "native", "awaittargets", "settle", "aim", "forget"}
  BY <1>1, <1>2, Later
<1>4. Recovering(o) /\ o.todo # <<>> /\ Started(o) \in Accounts
  BY <1>2, BegunIs DEF Recovering, Has
<1>5. HasJournal(o) /\ Undoing(a, o, p) /\ JournalOf(a, o, p) /\ Undoable(a, o) /\ Awaiting(a, o) /\ Untouched(a, o)
  BY <1>4, BegunIs DEF Begun, Compensating
<1> HIDE DEF p
<1>6. ~Has(o.todo, Changing \cup {"awaitbefore", "awaittargets"}) /\ ~Has(o.todo, {"undo", "modify"})
      /\ ~Has(o.todo, {"undo", "delete"}) /\ ~Has(o.todo, {"undo"})
  BY <1>2, <1>3 DEF Has, Changing
<1>7. o.before = p.before /\ PrefsBack(o.before, a)
  BY <1>4, <1>5, <1>6 DEF Undoing, Awaiting
<1>8. Compensated(a, o)
  <2>1. \A i \in RowsOf(Started(o)) : i \in RowsOf(a) /\ a.rows[i] = Started(o).rows[i]
    BY <1>4, <1>5, <1>6 DEF Undoing, JournalOf, RowsKept
  <2>2. p.previous = None => RowsOf(a) = p.ids
    BY <1>4, <1>5, <1>6 DEF Undoing
  <2> QED BY <1>4, <1>5, <1>7, <2>1, <2>2, PutBack DEF JournalOf, Undoable
<1>9. Undoable(a, q) /\ ~HasJournal(q)
  BY <1>1, <1>5, <1>8 DEF Undoable, HasJournal, Same, Follows, Compensated, Beside, Started
<1>10. ~Recovering(q) /\ ~Has(q.todo, {"journal", "decide"}) /\ ~Has(q.todo, {"aim", "forget", "remap"})
  <2>1. ~Has(o.todo, {"journal", "decide"})
    BY <1>5 DEF Untouched
  <2> QED BY <1>2, <1>3, <2>1 DEF Recovering, Has
<1>11. Awaiting(a, q)
  BY <1>2, <1>3, <1>10 DEF Awaiting
<1> QED BY <1>9, <1>10, <1>11 DEF Compensating, Untouched

Tracks == Running(op) /\ Clean(op) => Compensating(account, op)

LEMMA BeginsAt ==
  ASSUME Live, Owns, Compensating(account, op), NEW h, AtStep(op, h)
  PROVE  Begun(account, op, h) /\ account \in Accounts
BY DEF Begun, Owns, Live, Typed

\* Steps that change nothing but the list.
LEMMA PlainTracks ==
  ASSUME Live, Owns, Compensating(account, op), account' = account, NEW h,
         \/ /\ Plainly(op, op', h)
            /\ h \notin {"undo", "native", "journal", "decide", "row", "create", "aim", "remap", "settle", "modify", "delete"}
            /\ h \in {"awaitbefore", "awaittargets"} => PrefsBack(op.before, account)
         \/ Fails1(op, op', h)
  PROVE  Compensating(account', op')
<1>1. CASE Fails1(op, op', h)
  BY <1>1, Compensates1
<1>2. CASE /\ Plainly(op, op', h)
           /\ h \notin {"undo", "native", "journal", "decide", "row", "create", "aim", "remap", "settle", "modify", "delete"}
           /\ h \in {"awaitbefore", "awaittargets"} => PrefsBack(op.before, account)
  <2>1. AtStep(op, h) /\ Pops(op, op', h, op.cp, op.before, op.row, op.safe, op.fallback)
    BY <1>2 DEF Plainly, Pops
  <2>2. Begun(account, op, h) /\ account \in Accounts /\ Undoable(account, op)
    BY <2>1, BeginsAt DEF Compensating
  <2>3. Compensating(account, op')
    BY <1>2, <2>1, <2>2, PopCompensates
  <2> QED BY <2>3
<1> QED BY <1>1, <1>2

LEMMA WroteTracks ==
  ASSUME Live, Owns, Compensating(account, op), NEW h \in {"write", "writebefore"}, NEW to, WroteTo(to, op, op', h)
  PROVE  Compensating(account', op')
<1>1. account' = account /\ (Plainly(op, op', h) \/ Fails1(op, op', h))
  BY DEF WroteTo
<1> QED BY <1>1, PlainTracks

LEMMA AwaitedTracks ==
  ASSUME Live, Owns, Compensating(account, op), OnlyOp, NEW h \in {"await", "awaitbefore", "awaittargets"}, NEW pref, NEW row,
         Awaited(pref, row, op, op', h),
         h \in {"awaitbefore", "awaittargets"} =>
           \A x \in Scenes : op.before.pref[x] # Empty => pref[x] = op.before.pref[x]
  PROVE  Compensating(account', op')
<1>1. account' = account
  BY DEF OnlyOp
<1>2. (Plainly(op, op', h) /\ account.pref = pref) \/ Fails1(op, op', h)
  BY DEF Awaited
<1>3. h \in {"awaitbefore", "awaittargets"} /\ account.pref = pref => PrefsBack(op.before, account)
  BY DEF PrefsBack
<1> QED BY <1>1, <1>2, <1>3, PlainTracks

LEMMA StepsGood ==
  ASSUME Live', op' \in Ops
  PROVE  Good(op')
<1>1. op' \in Ops => Running(op')
  BY IsRunning
<1> QED BY <1>1 DEF Live, Good

\* What is done under the journal to the row.
LEMMA RowModifiedTracks ==
  ASSUME Live, Live', Owns, Compensating(account, op), RowModified
  PROVE  Compensating(account', op')
<1> DEFINE p == op.cp.pending.previous
           c == [do |-> "modify", id |-> p.id, input |-> op.want]
<1>1. AtStep(op, "row") /\ p # None
  BY RowModifiedIs
<1>2. \/ ModifiedAt(account, account', c, {}) /\ (RowTo(op, op') \/ Fails1(op, op', "row"))
      \/ AccountStays /\ Fails1(op, op', "row")
  BY RowModifiedIs
<1>3. Begun(account, op, "row") /\ account \in Accounts
  BY <1>1, BeginsAt
<1>4. op.safe /\ HasJournal(op) /\ Undoable(account, op) /\ Good(op) /\ op.todo # <<>>
  BY <1>1, <1>3, RecordThere, BegunIs DEF SwitchDos
<1>5. c.id = p.id
  OBVIOUS
<1> HIDE DEF c
<1>6. CASE AccountStays /\ Fails1(op, op', "row")
  BY <1>6, PlainTracks DEF AccountStays
<1>7. CASE ModifiedAt(account, account', c, {})
  <2>1. Undoable(account', op)
    BY <1>1, <1>4, <1>5, <1>7, ModifiedUndoable
  <2>2. CASE Fails1(op, op', "row")
    BY <1>4, <2>1, <2>2, FailingCompensates DEF Fails1
  <2>3. CASE RowTo(op, op')
    <3>1. Good(op')
      BY <2>3, StepsGood DEF RowTo, Pops, Frame, Same
    <3> QED BY <1>3, <1>4, <2>1, <2>3, <3>1, RowCompensates
  <2> QED BY <1>2, <1>7, <2>2, <2>3 DEF Fails1
<1> QED BY <1>2, <1>6, <1>7

LEMMA RowAddedTracks ==
  ASSUME Live, Live', Owns, Compensating(account, op), RowAdded
  PROVE  Compensating(account', op')
<1>1. AtStep(op, "create") /\ \A i \in RowsOf(account) : account.rows[i] # Head(op.todo).input
  BY RowAddedIs
<1>2. \/ AccountStays /\ Fails1(op, op', "create")
      \/ /\ IsAdded(account, account', Head(op.todo).input, {account.next})
         /\ op' = op \/ Fails1(op, op', "create")
  BY RowAddedIs
<1>3. Begun(account, op, "create") /\ account \in Accounts
  BY <1>1, BeginsAt
<1>4. CASE AccountStays /\ Fails1(op, op', "create")
  BY <1>4, PlainTracks DEF AccountStays
<1>5. CASE IsAdded(account, account', Head(op.todo).input, {account.next}) /\ (op' = op \/ Fails1(op, op', "create"))
  <2>1. Undoable(account', op) /\ op.safe /\ Good(op) /\ op.todo # <<>> /\ HasJournal(op) /\ Undoing(account, op, op.cp.pending)
    BY <1>1, <1>3, <1>5, AddedUndoable, BegunIs
  <2>2. CASE Fails1(op, op', "create")
    BY <2>1, <2>2, FailingCompensates DEF Fails1
  <2>3. CASE op' = op
    <3>1. Compensating(account', op)
      BY <2>1, SafeCompensates DEF Undoing, Compensating, Awaiting
    <3> QED BY <2>3, <3>1
  <2> QED BY <1>5, <2>2, <2>3
<1> QED BY <1>2, <1>4, <1>5

LEMMA SetTracks ==
  ASSUME Live, Live', Owns, Compensating(account, op), Set
  PROVE  Compensating(account', op')
<1>1. Requested(SetAt(account, account', Head(op.todo)), op, op', "set") /\ AtStep(op, "set")
  BY SetStepIs, AtIs DEF Set
<1>2. Begun(account, op, "set") /\ account \in Accounts
  BY <1>1, BeginsAt
<1>3. HasJournal(op) /\ Undoable(account, op) /\ Good(op) /\ op.todo # <<>>
  BY <1>2, BegunIs DEF Changing
<1>4. CASE AccountStays /\ Fails1(op, op', "set")
  BY <1>4, PlainTracks DEF AccountStays
<1>5. CASE SetAt(account, account', Head(op.todo)) /\ (Plainly(op, op', "set") \/ Fails1(op, op', "set"))
  <2>1. Undoable(account', op) /\ account'.rows = account.rows /\ RowsOf(account') = RowsOf(account)
    <3>1. IsSet(account, account', Head(op.todo).scene, Head(op.todo).id)
      BY <1>5 DEF SetAt
    <3>2. account'.rows = account.rows /\ RowsOf(account') = RowsOf(account)
      BY <3>1 DEF IsSet, RowsOf
    <3> QED BY <1>3, <3>1, <3>2, SetUndoable
  <2>2. CASE Fails1(op, op', "set")
    BY <1>3, <2>1, <2>2, FailingCompensates DEF Fails1
  <2>3. CASE Plainly(op, op', "set")
    <3>1. Pops(op, op', "set", op.cp, op.before, op.row, op.safe, op.fallback)
      BY <2>3 DEF Plainly
    <3>2. "set" \in Changing
      BY DEF Changing
    <3> QED BY <1>2, <2>1, <3>1, <3>2, PopCompensates
  <2> QED BY <1>5, <2>2, <2>3
<1> QED BY <1>1, <1>4, <1>5 DEF Requested

LEMMA ModifyTracks ==
  ASSUME Live, Live', Owns, Compensating(account, op), Modify
  PROVE  Compensating(account', op')
<1> DEFINE c == Head(op.todo) p == op.cp.pending
<1>1. Requested(ModifiedAt(account, account', c, {}), op, op', "modify") /\ AtStep(op, "modify")
  BY ModifyStepIs, AtIs DEF Modify
<1>2. Begun(account, op, "modify") /\ account \in Accounts
  BY <1>1, BeginsAt
<1>3. HasJournal(op) /\ Undoable(account, op) /\ Good(op) /\ op.todo # <<>> /\ JournalOf(account, op, p) /\ c \in Steps(op.todo)
  BY <1>2, BegunIs DEF Changing
<1>4. p.previous # None /\ c.id = p.previous.id /\ c.input = p.previous.input
  <2>1. c.do = "modify"
    BY <1>1 DEF AtStep
  <2>2. Made(op, c)
    BY <1>3 DEF Good, Planned
  <2>3. p.previous # None
    BY <1>1, RecordThere DEF Changing
  <2> QED BY <2>1, <2>2, <2>3 DEF Made
<1> HIDE DEF c, p
<1>5. CASE AccountStays /\ Fails1(op, op', "modify")
  BY <1>5, PlainTracks DEF AccountStays
<1>6. CASE ModifiedAt(account, account', c, {}) /\ (Plainly(op, op', "modify") \/ Fails1(op, op', "modify"))
  <2>1. Undoable(account', op)
    BY <1>3, <1>4, <1>6, ModifiedUndoable DEF p
  <2>2. CASE Fails1(op, op', "modify")
    BY <1>3, <2>1, <2>2, FailingCompensates DEF Fails1
  <2>3. CASE Plainly(op, op', "modify")
    <3>1. Pops(op, op', "modify", op.cp, op.before, op.row, op.safe, op.fallback)
      BY <2>3 DEF Plainly
    <3>2. "modify" \in Changing
      BY DEF Changing
    <3>3. RowsOf(account') = RowsOf(account)
          /\ \A i \in RowsOf(account) : account'.rows[i] = IF i = c.id THEN c.input ELSE account.rows[i]
      BY <1>6 DEF ModifiedAt, IsModified
    <3>4. \A i \in RowsOf(Started(op)) : account'.rows[i] = Started(op).rows[i]
      BY <1>3, <1>4, <3>3 DEF JournalOf, Tells, RowsKept
    <3> QED BY <1>2, <2>1, <3>1, <3>2, <3>3, <3>4, PopCompensates
  <2> QED BY <1>6, <2>2, <2>3
<1> QED BY <1>1, <1>5, <1>6 DEF Requested, c

LEMMA DeleteTracks ==
  ASSUME Live, Live', Owns, Compensating(account, op), Delete
  PROVE  Compensating(account', op')
<1> DEFINE id == Head(op.todo).id p == op.cp.pending
<1>1. Requested(IsDeleted(account, account', id), op, op', "delete") /\ AtStep(op, "delete")
  BY DeleteStepIs, AtIs, DeleteAt
<1>2. Begun(account, op, "delete") /\ account \in Accounts
  BY <1>1, BeginsAt
<1>3. HasJournal(op) /\ Undoable(account, op) /\ Good(op) /\ op.todo # <<>> /\ JournalOf(account, op, p)
      /\ Undoing(account, op, p) /\ Head(op.todo) \in Steps(op.todo)
  BY <1>2, BegunIs DEF Changing
<1>4. p.previous = None /\ id \notin p.ids /\ RowsOf(account) \ p.ids \subseteq {id}
  BY <1>1, <1>3 DEF Undoing, AtStep
<1> HIDE DEF id, p
<1>5. CASE AccountStays /\ Fails1(op, op', "delete")
  BY <1>5, PlainTracks DEF AccountStays
<1>6. CASE IsDeleted(account, account', id) /\ (Plainly(op, op', "delete") \/ Fails1(op, op', "delete"))
  <2>1. Undoable(account', op)
    BY <1>3, <1>4, <1>6, DeletedUndoable DEF p
  <2>2. CASE Fails1(op, op', "delete")
    BY <1>3, <2>1, <2>2, FailingCompensates DEF Fails1
  <2>3. CASE Plainly(op, op', "delete")
    <3>1. Pops(op, op', "delete", op.cp, op.before, op.row, op.safe, op.fallback)
      BY <2>3 DEF Plainly
    <3>2. "delete" \in Changing
      BY DEF Changing
    <3>3. RowsOf(account') = RowsOf(account) \ {id} /\ \A i \in RowsOf(account') : account'.rows[i] = account.rows[i]
      BY <1>6 DEF IsDeleted
    <3>4. p.ids = RowsOf(Started(op)) /\ p.ids \subseteq RowsOf(account)
      BY <1>3 DEF JournalOf, Tells, RowsKept
    <3>5. RowsOf(account') = p.ids
      BY <1>4, <3>3, <3>4
    <3>6. \A i \in RowsOf(Started(op)) : account'.rows[i] = account.rows[i]
      BY <3>3, <3>4, <3>5
    <3> QED BY <1>2, <2>1, <3>1, <3>2, <3>5, <3>6, PopCompensates DEF p
  <2> QED BY <1>6, <2>2, <2>3
<1> QED BY <1>1, <1>5, <1>6 DEF Requested, id

LEMMA SwitchStepTracks ==
  ASSUME Live, Live', Owns, Compensating(account, op), SwitchStep
  PROVE  Compensating(account', op')
<1>1. CASE Journal
  <2>1. account' = account
    BY <1>1, JournalIs DEF AccountStays
  <2>2. CASE Fails1(op, op', "journal")
    BY <2>1, <2>2, PlainTracks
  <2>3. CASE JournalTo(account, file, op, op')
    <3>1. AtStep(op, "journal") /\ Good(op')
      BY <2>3, JournalPlanned DEF JournalTo, Pops
    <3>2. Begun(account, op, "journal") /\ account \in Accounts
      BY <3>1, BeginsAt
    <3> QED BY <2>1, <2>3, <3>1, <3>2, JournalCompensates
  <2> QED BY <1>1, <2>2, <2>3, JournalIs
<1>2. CASE RowKept
  <2>1. OnlyOp /\ RowTo(op, op')
    BY <1>2, RowKeptIs
  <2>2. AtStep(op, "row") /\ Good(op')
    BY <2>1, RowPlanned DEF RowTo, Pops
  <2>3. Begun(account, op, "row") /\ account \in Accounts /\ op.safe /\ Undoable(account, op)
    BY <2>2, BeginsAt, RecordThere DEF SwitchDos, Compensating
  <2> QED BY <2>1, <2>2, <2>3, RowCompensates DEF OnlyOp
<1>3. CASE RowOther
  <2>1. OnlyOp /\ CreateTo(op, op')
    BY <1>3, RowOtherIs
  <2>2. AtStep(op, "row") /\ Good(op')
    BY <2>1, CreatePlanned DEF CreateTo
  <2>3. Begun(account, op, "row") /\ account \in Accounts /\ op.call = "switch" /\ Shape(op)
    BY <2>2, BeginsAt, RecordThere DEF SwitchDos, AtStep, Planned
  <2>4. op.want \in Inputs
    BY <2>3 DEF Shape
  <2> QED BY <2>1, <2>2, <2>3, <2>4, CreateCompensates DEF OnlyOp
<1>4. CASE RowFound
  <2>1. account' = account
    BY <1>4, RowFoundIs DEF AccountStays
  <2>2. CASE Fails1(op, op', "create")
    BY <2>1, <2>2, PlainTracks
  <2>3. CASE FoundTo(account, op, op')
    <3>1. AtStep(op, "create") /\ Good(op')
      BY <2>3, FoundPlanned DEF FoundTo, Pops
    <3>2. Begun(account, op, "create") /\ account \in Accounts
      BY <3>1, BeginsAt
    <3> QED BY <2>1, <2>3, <3>1, <3>2, FoundCompensates
  <2>4. ASSUME NEW u \in Ops, Noting(account, op, u), Failing(u, op')
        PROVE  Compensating(account', op')
    <3>1. AtStep(op, "create") /\ Good(u)
      BY <2>4, NotingPlanned DEF Noting
    <3>2. Begun(account, op, "create") /\ account \in Accounts
      BY <3>1, BeginsAt
    <3> QED BY <2>1, <2>4, <3>1, <3>2, NotingCompensates
  <2> QED BY <1>4, <2>2, <2>3, <2>4, RowFoundIs
<1>5. CASE Selects
  <2>1. OnlyOp /\ SetsTo(account, op, op', "select", Everywhere(op.row.id))
    BY <1>5, SelectsIs
  <2>2. AtStep(op, "select") /\ Good(op')
    BY <2>1, SetsPlanned DEF SetsTo
  <2>3. Begun(account, op, "select") /\ account \in Accounts
    BY <2>2, BeginsAt
  <2> QED BY <2>1, <2>2, <2>3, SelectCompensates DEF OnlyOp
<1>6. CASE SelectionWritten
  BY <1>6, WriteIs, WroteTracks DEF SelectionWritten
<1>7. CASE SelectionAwaited
  <2>1. OnlyOp /\ Awaited(Everywhere(op.row.id), op.row, op, op', "await")
    BY <1>7, AwaitIs DEF SelectionAwaited
  <2> QED BY <2>1, AwaitedTracks
<1>8. CASE Keep
  <2>1. account' = account
    BY <1>8, KeepIs DEF AccountStays
  <2>2. CASE KeepTo(op, op')
    <3>1. AtStep(op, "keep") /\ Good(op')
      BY <2>2, KeepPlanned DEF KeepTo, Pops
    <3>2. Begun(account, op, "keep") /\ account \in Accounts
      BY <3>1, BeginsAt
    <3> QED BY <2>1, <2>2, <3>1, <3>2, KeepCompensates
  <2>3. ASSUME NEW u \in Ops, KeepingAs(op, u), Failing(u, op')
        PROVE  Compensating(account', op')
    <3>1. AtStep(op, "keep") /\ Good(u)
      BY <2>3, KeepingPlanned DEF KeepingAs
    <3>2. Begun(account, op, "keep") /\ account \in Accounts
      BY <3>1, BeginsAt
    <3> QED BY <2>1, <2>3, <3>1, <3>2, KeepingCompensates
  <2> QED BY <1>8, <2>2, <2>3, KeepIs
<1>9. CASE Commit
  <2>1. account' = account /\ (Plainly(op, op', "commit") \/ Fails1(op, op', "commit"))
    BY <1>9, CommitIs DEF OnlyOp
  <2> QED BY <2>1, PlainTracks
<1>10. CASE Clear
  <2>1. account' = account
    BY <1>10, ClearIs DEF AccountStays
  <2>2. CASE Fails1(op, op', "clear")
    BY <2>1, <2>2, PlainTracks
  <2>3. CASE DoneTo(op, op', "clear", op.cp.managed)
    <3>1. AtStep(op, "clear") /\ Good(op')
      BY <2>3, DonePlanned DEF DoneTo, Pops
    <3>2. Begun(account, op, "clear") /\ account \in Accounts
      BY <3>1, BeginsAt
    <3> QED BY <2>1, <2>3, <3>1, <3>2, ClearCompensates
  <2> QED BY <1>10, <2>2, <2>3, ClearIs
<1> QED BY <1>1, <1>2, <1>3, <1>4, <1>5, <1>6, <1>7, <1>8, <1>9, <1>10, RowModifiedTracks, RowAddedTracks, SetTracks
        DEF SwitchStep

LEMMA RecoveryStepTracks ==
  ASSUME Live, Live', Owns, Compensating(account, op), RecoveryStep
  PROVE  Compensating(account', op')
<1>1. CASE Rejournal
  <2>1. account' = account /\ (Plainly(op, op', "rejournal") \/ Fails1(op, op', "rejournal"))
    BY <1>1, RejournalIs DEF AccountStays
  <2> QED BY <2>1, PlainTracks
<1>2. CASE Undo
  <2>1. account' = account
    BY <1>2, UndoIs DEF OnlyOp
  <2>2. CASE Fails1(op, op', "undo")
    BY <2>1, <2>2, PlainTracks
  <2>3. CASE UndoTo(account, op, op')
    <3>1. AtStep(op, "undo") /\ Good(op')
      BY <2>3, UndoPlanned DEF UndoTo
    <3>2. Begun(account, op, "undo") /\ account \in Accounts
      BY <3>1, BeginsAt
    <3> QED BY <2>1, <2>3, <3>1, <3>2, UndoCompensates
  <2> QED BY <1>2, <2>2, <2>3, UndoIs
<1>3. CASE Remap
  <2>1. AtStep(op, "remap")
    BY <1>3, AtIs DEF Remap
  <2>2. "remap" \in Dos(op.todo)
    BY <2>1, BeginsAt, BegunIs
  <2> QED BY <2>2 DEF Compensating, Untouched, Has
<1>4. CASE Prefer
  <2>1. OnlyOp /\ SetsTo(account, op, op', "prefer", op.before.pref)
    BY <1>4, PreferIs
  <2>2. AtStep(op, "prefer") /\ Good(op')
    BY <2>1, SetsPlanned DEF SetsTo
  <2>3. Begun(account, op, "prefer") /\ account \in Accounts
    BY <2>2, BeginsAt
  <2> QED BY <2>1, <2>2, <2>3, PreferCompensates DEF OnlyOp
<1>5. CASE Native
  <2>1. OnlyOp /\ NativeTo(account, op, op')
    BY <1>5, NativeIs
  <2>2. AtStep(op, "native") /\ Good(op')
    BY <2>1, NativePlanned DEF NativeTo
  <2>3. Begun(account, op, "native") /\ account \in Accounts
    BY <2>2, BeginsAt
  <2> QED BY <2>1, <2>2, <2>3, NativeCompensates DEF OnlyOp
<1>6. CASE TargetsAwaited
  <2>1. AtStep(op, "awaittargets")
    BY <1>6, AtIs DEF TargetsAwaited
  <2>2. OnlyOp /\ Awaited(Head(op.todo).to, None, op, op', "awaittargets")
    BY <1>6, AwaitIs DEF TargetsAwaited
  <2>3. Head(op.todo) \in Steps(op.todo) /\ Head(op.todo).do = "awaittargets"
    BY <2>1, BeginsAt, BegunIs DEF AtStep
  <2>4. \A x \in Scenes : op.before.pref[x] # Empty => Head(op.todo).to[x] = op.before.pref[x]
    BY <2>3 DEF Compensating, Awaiting
  <2> QED BY <2>2, <2>4, AwaitedTracks
<1>7. CASE BeforeAwaited
  <2>1. OnlyOp /\ Awaited(op.before.pref, op.row, op, op', "awaitbefore")
    BY <1>7, AwaitIs DEF BeforeAwaited
  <2> QED BY <2>1, AwaitedTracks
<1>8. CASE BeforeWritten
  BY <1>8, WriteIs, WroteTracks DEF BeforeWritten
<1>9. CASE Settle
  <2>1. account' = account
    BY <1>9, SettleIs DEF AccountStays
  <2>2. CASE Fails1(op, op', "settle")
    BY <2>1, <2>2, PlainTracks
  <2>3. CASE DoneTo(op, op', "settle", op.row)
    <3>1. AtStep(op, "settle") /\ Good(op')
      BY <2>3, DonePlanned DEF DoneTo, Pops
    <3>2. Begun(account, op, "settle") /\ account \in Accounts
      BY <3>1, BeginsAt
    <3> QED BY <2>1, <2>3, <3>1, <3>2, SettleCompensates
  <2> QED BY <1>9, <2>2, <2>3, SettleIs
<1> QED BY <1>1, <1>2, <1>3, <1>4, <1>5, <1>6, <1>7, <1>8, <1>9, ModifyTracks, DeleteTracks DEF RecoveryStep

LEMMA RestoreStepTracks ==
  ASSUME Live, Live', Owns, Compensating(account, op), RestoreStep
  PROVE  Compensating(account', op')
<1>1. ASSUME NEW h \in {"aim", "forget"}, At(h) PROVE FALSE
  <2>1. AtStep(op, h)
    BY <1>1, AtIs
  <2>2. h \in Dos(op.todo)
    BY <2>1, BeginsAt, BegunIs
  <2> QED BY <2>2 DEF Compensating, Untouched, Has
<1>2. CASE Decide
  <2>1. account' = account
    BY <1>2, DecideIs DEF AccountStays
  <2>2. ASSUME NEW d \in {"commit", "fail"}, EndsTo(op, op', d)
        PROVE  Compensating(account', op')
    <3>1. Same(op, op') /\ op'.cp = op.cp /\ ~op'.fallback /\ op'.todo = <<Do(d)>> /\ op.todo # <<>>
      BY <2>2 DEF EndsTo, Frame, AtStep
    <3>2. Dos(op'.todo) = {d}
      <4>1. Do(d) \in StepSet /\ Do(d).do = d
        BY PlainStep DEF PlainDos
      <4> QED BY <3>1, <4>1, OneStep
    <3> QED BY <2>1, <3>1, <3>2, QuietCompensates DEF Compensating
  <2>3. CASE ReturnTo(account, file, op, op')
    <3>1. AtStep(op, "decide") /\ Good(op')
      BY <2>3, ReturnPlanned DEF ReturnTo
    <3>2. Begun(account, op, "decide") /\ account \in Accounts
      BY <3>1, BeginsAt
    <3> QED BY <2>1, <2>3, <3>1, <3>2, ReturnCompensates
  <2> QED BY <1>2, <2>2, <2>3, DecideIs
<1> QED BY <1>1, <1>2 DEF RestoreStep, Aim, Forget

\* An operation that has just begun has changed nothing.
LEMMA BeganCompensates ==
  ASSUME NEW a \in Accounts, NEW f, NEW sv, NEW q, NEW call, Started1(a, f, sv, q, call, q.cp), Good(q), ~q.fallback, ~HasJournal(q),
         PrefsKnown(a), \A i \in RowsOf(a) : i < a.next,
         Dos(q.todo) \cap {"settle", "aim", "forget", "remap", "awaittargets"} = {},
         Has(q.todo, {"journal", "decide"}) => q.cp # None /\ (q.cp.managed # None => sv # None /\ sv.managed # None)
  PROVE  Compensating(a, q)
<1>1. Started(q) = a /\ q.start.saved = sv
  BY DEF Started1, Started
<1>2. Compensated(a, q)
  BY <1>1 DEF Compensated
<1>3. Follows(a, q)
  <2>1. a.next <= a.next
    BY AccountIs
  <2> QED BY <1>1, <2>1 DEF Follows, PrefsKnown
<1>4. Undoable(a, q)
  BY <1>2, <1>3 DEF Undoable
<1>5. ~Recovering(q) /\ ~Has(q.todo, {"aim", "forget", "remap"}) /\ \A s \in Steps(q.todo) : s.do # "awaittargets"
  BY DEF Recovering, Has, Dos
<1>6. Untouched(a, q)
  BY <1>1, <1>5 DEF Untouched, Beside
<1> QED BY <1>4, <1>5, <1>6 DEF Compensating, Awaiting

LEMMA SwitchToCompensates ==
  ASSUME NEW a \in Accounts, NEW f, NEW sv \in Checkpoints \cup {None}, NEW q, SwitchTo(a, f, sv, q), Clean(q),
         PrefsKnown(a), \A i \in RowsOf(a) : i < a.next
  PROVE  Compensating(a, q)
<1>1. Good(q) /\ q.cp \in Checkpoints
  BY SwitchToPlanned
<1>2. Started1(a, f, sv, q, "switch", q.cp) /\ OnFile(a, f, sv, q.cp) /\ ~q.fallback
  BY DEF SwitchTo
<1>3. sv = None \/ sv.pending = None
  BY <1>2 DEF Clean, Started1
<1>4. q.cp.pending = None /\ q.cp # None /\ (q.cp.managed # None => sv # None /\ sv.managed # None)
  BY <1>1, <1>2, <1>3, CheckpointIs DEF OnFile
<1>5. q.todo = <<>> \o ForwardPlan
  BY <1>4 DEF SwitchTo, First
<1>6. Dos(q.todo) = {"journal", "row", "select", "write", "await", "keep", "commit", "clear"}
  <2>1. Dos(ForwardPlan) = {"journal", "row", "select", "write", "await", "keep", "commit", "clear"} /\ ForwardPlan \in Seq(StepSet)
    BY ForwardPlanIs DEF Plain
  <2>2. <<>> \in Seq(StepSet) /\ Dos(<<>>) = {}
    BY NoSteps
  <2>3. Dos(<<>> \o ForwardPlan) = Dos(<<>>) \cup Dos(ForwardPlan)
    BY <2>1, <2>2, Joined
  <2> QED BY <1>5, <2>1, <2>2, <2>3
<1> QED BY <1>1, <1>2, <1>4, <1>6, BeganCompensates DEF HasJournal

LEMMA RestoreToCompensates ==
  ASSUME NEW a \in Accounts, NEW f, NEW sv \in Checkpoints \cup {None}, NEW q, RestoreTo(a, f, sv, q), Clean(q),
         PrefsKnown(a), \A i \in RowsOf(a) : i < a.next
  PROVE  Compensating(a, q)
<1>1. Good(q)
  BY RestoreToPlanned
<1>2. CASE Started1(a, f, sv, q, "restore", None) /\ sv = None /\ ~q.fallback /\ q.todo = <<Do("commit")>>
  <2>1. Dos(q.todo) = {"commit"}
    BY <1>2, OneStep, PlainStep DEF PlainDos
  <2>2. q.cp = None
    BY <1>2 DEF Started1
  <2> QED BY <1>1, <1>2, <2>1, <2>2, BeganCompensates DEF HasJournal, Has
<1>3. CASE /\ Started1(a, f, sv, q, "restore", sv) /\ sv # None /\ (q.fallback <=> Journalling(sv))
           /\ IF Journalling(sv) /\ sv.pending.previous.id \notin RowsOf(a) THEN q.todo = Finishing(sv.pending.before)
              ELSE \E s \in {<<>>, Recovery} : First(sv, s) /\ q.todo = s \o <<Do("decide")>>
  <2>1. sv.pending = None /\ ~q.fallback /\ q.cp = sv /\ q.todo = <<>> \o <<Do("decide")>>
    BY <1>3 DEF Clean, Started1, Journalling, First
  <2>2. Dos(q.todo) = {"decide"}
    <3>1. Dos(<<Do("decide")>>) = {"decide"} /\ <<Do("decide")>> \in Seq(StepSet)
      BY OneStep, PlainStep DEF PlainDos
    <3>2. <<>> \in Seq(StepSet) /\ Dos(<<>>) = {}
      BY NoSteps
    <3>3. Dos(<<>> \o <<Do("decide")>>) = Dos(<<>>) \cup Dos(<<Do("decide")>>)
      BY <3>1, <3>2, Joined
    <3> QED BY <2>1, <3>1, <3>2, <3>3
  <2> QED BY <1>1, <1>3, <2>1, <2>2, BeganCompensates DEF HasJournal
<1> QED BY <1>2, <1>3 DEF RestoreTo

-----------------------------------------------------------------------------
(* Every preference is for an id that has been given. *)

LEMMA ChangesKnown ==
  ASSUME NEW a \in Accounts, NEW b, PrefsKnown(a), \A i \in RowsOf(a) : i < a.next
  PROVE  /\ \A s, id : id \in SelectableIn(a) /\ IsSet(a, b, s, id) => PrefsKnown(b)
         /\ \A input, ours : IsAdded(a, b, input, ours) => PrefsKnown(b)
         /\ \A id, input, ours : IsModified(a, b, id, input, ours) => PrefsKnown(b)
         /\ \A id : IsDeleted(a, b, id) => PrefsKnown(b)
<1>1. a.next \in Nat /\ a.pref \in [Scenes -> Preferences] /\ Ids \subseteq Nat /\ Official \notin Nat /\ Empty \notin Nat
  BY AccountIs, ImaAssumption DEF Ids
<1>2. ASSUME NEW s, NEW id \in SelectableIn(a), IsSet(a, b, s, id)
      PROVE  PrefsKnown(b)
  <2>1. b.next = a.next /\ \A x \in Scenes : b.pref[x] = IF x = s THEN id ELSE a.pref[x]
    BY <1>1, <1>2 DEF IsSet
  <2>2. id \in Ids => id < a.next
    BY <1>1 DEF SelectableIn
  <2> QED BY <2>1, <2>2 DEF PrefsKnown
<1>3. ASSUME NEW input, NEW ours, IsAdded(a, b, input, ours)
      PROVE  PrefsKnown(b)
  <2>1. b.next = a.next + 1 /\ b.pref = a.pref
    BY <1>3 DEF IsAdded
  <2>2. \A i \in Ids : i < a.next => i < a.next + 1
    BY <1>1
  <2> QED BY <2>1, <2>2 DEF PrefsKnown
<1>4. ASSUME NEW id, NEW input, NEW ours, IsModified(a, b, id, input, ours)
      PROVE  PrefsKnown(b)
  BY <1>4 DEF IsModified, PrefsKnown
<1>5. ASSUME NEW id, IsDeleted(a, b, id)
      PROVE  PrefsKnown(b)
  <2>1. b.next = a.next /\ \A s \in Scenes : b.pref[s] = a.pref[s] \/ b.pref[s] = Empty
    BY <1>5 DEF IsDeleted
  <2> QED BY <1>1, <2>1 DEF PrefsKnown
<1> QED BY <1>2, <1>3, <1>4, <1>5

LEMMA NextKnown ==
  ASSUME Live, Owns, PrefsKnown(account), [Next]_vars
  PROVE  PrefsKnown(account')
<1>1. account \in Accounts /\ \A i \in RowsOf(account) : i < account.next
  BY DEF Live, Typed, Owns, OwnOK
<1>2. CASE account' = account
  BY <1>2
<1>3. CASE RowModified
  BY <1>1, <1>2, <1>3, RowModifiedIs, ChangesKnown DEF AccountStays, ModifiedAt
<1>4. CASE RowAdded
  BY <1>1, <1>2, <1>4, RowAddedIs, ChangesKnown DEF AccountStays
<1>5. CASE Set
  BY <1>1, <1>2, <1>5, SetStepIs, ChangesKnown DEF AccountStays, Requested, SetAt
<1>6. CASE Modify
  BY <1>1, <1>2, <1>6, ModifyStepIs, ChangesKnown DEF AccountStays, Requested, ModifiedAt
<1>7. CASE Delete
  BY <1>1, <1>2, <1>7, DeleteStepIs, ChangesKnown DEF AccountStays, Requested
<1>8. CASE UserActs
  <2>1. UserTo(account, account')
    BY <1>8, UserActsIs
  <2> QED BY <1>1, <2>1, ChangesKnown DEF UserTo
<1>9. CASE UNCHANGED vars
  BY <1>2, <1>9 DEF vars
<1>10. ASSUME Next, ~RowModified, ~RowAdded, ~Set, ~Modify, ~Delete, ~UserActs
       PROVE  account' = account
  BY <1>10 DEF Next, SwitchBegins, RestoreBegins, SwitchStep, RecoveryStep, RestoreStep, Failed, Returned, Crash,
               Journal, RowKept, RowOther, RowFound, Selects, SelectionWritten, Write, SelectionAwaited, Await, Keep,
               Commit, Clear, Rejournal, Undo, Remap, Prefer, Native, TargetsAwaited, BeforeAwaited, BeforeWritten,
               Settle, Aim, Forget, Decide
<1> QED BY <1>2, <1>3, <1>4, <1>5, <1>6, <1>7, <1>8, <1>9, <1>10

-----------------------------------------------------------------------------
(* What a failed operation leaves, in every state *)

LEMMA SameClean ==
  ASSUME NEW o, NEW q, Same(o, q)
  PROVE  Clean(q) => Clean(o)
BY DEF Same, Clean

\* A step keeps what the operation began with.
LEMMA StepsSame ==
  ASSUME Live, SwitchStep \/ RecoveryStep \/ RestoreStep
  PROVE  Running(op) /\ op'.call = op.call /\ op'.start = op.start
<1>1. PICK h : At(h)
  BY DEF SwitchStep, RecoveryStep, RestoreStep, Journal, RowKept, RowModified, RowOther, RowFound, RowAdded, Selects, Set,
         SelectionWritten, SelectionAwaited, Keep, Commit, Clear, Rejournal, Undo, Modify, Remap, Prefer, Delete, Native,
         TargetsAwaited, BeforeAwaited, BeforeWritten, Settle, Aim, Forget, Decide
<1>2. op \in Ops
  BY <1>1, AtIs
<1>3. op'.call = op.call /\ op'.start = op.start
  BY <1>2 DEF SwitchStep, RecoveryStep, RestoreStep, Journal, RowKept, RowModified, RowOther, RowFound, RowAdded, Selects, Set,
         SelectionWritten, SelectionAwaited, Keep, Commit, Clear, Rejournal, Undo, Modify, Remap, Prefer, Delete, Native,
         TargetsAwaited, BeforeAwaited, BeforeWritten, Settle, Aim, Forget, Decide, Goes, Fails, Await, Write, Ops
<1> QED BY <1>2, <1>3, IsRunning

LEMMA NextTracks ==
  ASSUME Live, BindingOK, Owns, PrefsKnown(account), Tracks, [Next]_vars
  PROVE  Tracks'
<1>1. CASE UNCHANGED vars
  BY <1>1 DEF vars, Tracks
<1>2. Live' /\ account \in Accounts /\ saved \in Checkpoints \cup {None} /\ \A i \in RowsOf(account) : i < account.next
  BY NextLive DEF Owns, OwnOK, Live, Typed
<1>3. ASSUME NEW input \in Inputs, SwitchBegins(input)
      PROVE  Tracks'
  <2>1. account' = account /\ SwitchTo(account, file, saved, op')
    BY <1>3, SwitchBeginsIs
  <2> QED BY <1>2, <2>1, SwitchToCompensates DEF Tracks
<1>4. CASE RestoreBegins
  <2>1. account' = account /\ RestoreTo(account, file, saved, op')
    BY <1>4, RestoreBeginsIs DEF OnlyOp
  <2> QED BY <1>2, <2>1, RestoreToCompensates DEF Tracks
<1>5. CASE SwitchStep \/ RecoveryStep \/ RestoreStep
  <2>1. Clean(op') => Compensating(account, op)
    BY <1>5, StepsSame DEF Tracks, Clean
  <2> QED BY <1>2, <1>5, <2>1, SwitchStepTracks, RecoveryStepTracks, RestoreStepTracks DEF Tracks
<1>6. CASE Failed
  <2>1. /\ account' = account /\ AtStep(op, "fail") /\ Frame(op, op', op.cp, op.before, op.row, op.safe, op.fallback)
        /\ op'.todo = <<Do("failed")>>
    BY <1>6, FailedIs DEF OnlyOp
  <2>2. Same(op, op') /\ op'.cp = op.cp /\ op'.fallback = op.fallback /\ op.todo # <<>> /\ Running(op)
    BY <2>1, IsRunning DEF Frame, AtStep
  <2>3. ASSUME Clean(op') PROVE Compensating(account, op')
    <3>1. Compensating(account, op)
      BY <2>2, <2>3, SameClean DEF Tracks
    <3>2. Dos(op'.todo) = {"failed"}
      BY <2>1, OneStep, PlainStep DEF PlainDos
    <3>3. Undoable(account, op) /\ ~op'.fallback
      BY <2>2, <3>1 DEF Compensating, Undoable
    <3> QED BY <2>2, <3>2, <3>3, QuietCompensates
  <2> QED BY <2>1, <2>3 DEF Tracks
<1>7. CASE Returned \/ Crash
  BY <1>7, IdleIs DEF Returned, Crash, Tracks
<1>8. CASE UserActs
  <2>1. Resting /\ op' = op
    BY <1>8, UserActsIs
  <2> QED BY <2>1 DEF Tracks, Resting, Running
<1> QED BY <1>1, <1>3, <1>4, <1>5, <1>6, <1>7, <1>8 DEF Next

\* A failed operation leaves the journal on file, or nothing to undo.
LEMMA TracksCompensated ==
  ASSUME Live, Owns, Tracks
  PROVE  FailedIsCompensated
<1> SUFFICES ASSUME At("failed"), Clean(op)
             PROVE  (saved # None /\ saved.pending # None) \/ Compensated(account, op)
  BY DEF FailedIsCompensated, Compensated, Started, RowsOf, Rows, SelectableIn, Selectable
<1>1. AtStep(op, "failed") /\ op \in Ops /\ Running(op)
  BY AtIs, IsRunning
<1>2. Compensating(account, op) /\ op.todo # <<>>
  BY <1>1 DEF Tracks, AtStep
<1>3. CASE HasJournal(op)
  BY <1>1, <1>3 DEF Owns, OwnOK, OpOwned, HasJournal
<1>4. CASE ~HasJournal(op)
  BY <1>2, <1>4 DEF Compensating, Undoable
<1> QED BY <1>3, <1>4

\* A failed switch or restore that found no journal either leaves its own on
\* file, so that the next operation can undo it (recover_pending), or has put
\* back the rows and the preferences there were, and keeps no row it added, but
\* one beside a managed row (finish_or_rollback).
THEOREM ImaFailedIsCompensated == Spec => []FailedIsCompensated
<1> DEFINE Inv == Live /\ BindingOK /\ Owns /\ PrefsKnown(account) /\ Tracks
<1>1. Init => Inv
  <2>1. Init => op = Idle
    BY DEF Init
  <2> QED BY <2>1, InitLive, InitOwns, InitAccount, IdleIs DEF Tracks, PrefsKnown
<1>2. Inv /\ [Next]_vars => Inv'
  BY NextLive, NextOwns, NextKnown, NextTracks
<1>3. Inv => FailedIsCompensated
  BY TracksCompensated
<1> QED BY <1>1, <1>2, <1>3, PTL DEF Spec

-----------------------------------------------------------------------------
(* What a restore returns.                                                    *)

\* The selection of before the first switch is on record.
BaseKnown ==
  /\ saved = None <=> native = None
  /\ saved # None => saved.base = native
  /\ Running(op) /\ op.cp # None => op.cp.base = native

\* A restore gets to where it is decided that the row is taken over, or it fails.
Deciding(o) ==
  /\ o.cp # None /\ ~o.fallback /\ ~Has(o.todo, {"aim", "forget"})
  /\ ~o.safe => Has(o.todo, {"decide", "fail", "failed"})
  /\ Has(o.todo, {"decide"}) =>
       /\ o.cp.pending = None => TakenOver(o.cp.managed)
       /\ o.cp.pending # None => Has(o.todo, {"undo", "settle"})
       /\ Has(o.todo, {"undo"}) => o.cp.pending.previous # None /\ o.cp.pending.previous.selected
       /\ Recovering(o) => TakenOver(o.row)

\* What is preferred in the end is n's, or some model that exists.
Back(a, pref, n) ==
  \A s \in Scenes : pref[s] \in SelectableIn(a) /\ (n.pref[s] # Empty => pref[s] = n.pref[s])

\* From there on it returns the selection n.
Returning(a, f, n, o) ==
  /\ o.before = n
  /\ Has(o.todo, {"set"}) => Has(o.todo, {"native", "awaittargets"})
  /\ Has(o.todo, {"native"}) => \A s \in Scenes : n.pref[s] # Empty => n.pref[s] \in SelectableIn(a)
  /\ \A s \in Steps(o.todo) : s.do = "awaittargets" => Back(a, s.to, n)
  /\ ~Has(o.todo, {"native", "awaittargets"}) => Back(a, a.pref, n)
  /\ ~Has(o.todo, {"writebefore"}) => f = n.file

Homing(a, f, n, o) == Deciding(o) /\ (o.safe => Returning(a, f, n, o))

\* A step fails.
LEMMA FailingHomes ==
  ASSUME NEW b, NEW g, NEW n, NEW o, NEW q, o.cp # None, ~o.fallback, Failing(o, q)
  PROVE  Homing(b, g, n, q)
<1>1. Dos(q.todo) = {"rejournal", "undo", "fail"} \/ Dos(q.todo) = {"fail"}
  <2>1. Dos(RollbackPlan) = {"rejournal", "undo", "fail"}
    BY RollbackPlanIs DEF Plain
  <2>2. Dos(<<Do("fail")>>) = {"fail"}
    BY OneStep, PlainStep DEF PlainDos
  <2> QED BY <2>1, <2>2 DEF Failing
<1>2. Has(q.todo, {"decide", "fail", "failed"}) /\ ~Has(q.todo, {"decide"}) /\ ~Has(q.todo, {"aim", "forget"})
  BY <1>1 DEF Has
<1>3. q.cp # None /\ ~q.safe /\ ~q.fallback
  BY DEF Failing
<1> QED BY <1>2, <1>3 DEF Homing, Deciding

\* The step h of a restore under its journal.
LEMMA SafeAt ==
  ASSUME NEW o, NEW h, AtStep(o, h), o.call = "restore", o.safe
  PROVE  /\ h \in {"set", "native", "awaittargets", "writebefore", "keep", "commit", "clear"}
         /\ ~Has(o.todo, {"decide"})
<1>1. Rest(o, h, Dos(Tail(o.todo)), Steps(Tail(o.todo))) /\ Planned(o)
  BY RestIs DEF AtStep
<1>2. h \in Dos(o.todo) /\ Head(o.todo) \in Steps(o.todo) /\ Head(o.todo).do = h
  BY <1>1 DEF Rest, AtStep
<1>3. Dos(o.todo) \subseteq SafeDos
  BY <1>1 DEF Planned, Stage, Only
<1>4. h # "create"
  BY <1>1, <1>2 DEF Planned, Made
<1>5. h \notin SwitchDos
  BY <1>1, <1>2 DEF Planned, Shape, Has
<1> QED BY <1>2, <1>3, <1>4, <1>5 DEF SafeDos, Has, SwitchDos

\* A step is done: on the way to the decision, ...
LEMMA PopDecides ==
  ASSUME NEW o, NEW q, NEW h, NEW before, NEW row, Deciding(o),
         Pops(o, q, h, q.cp, before, row, o.safe, o.fallback), q.cp # None,
         h \notin {"undo", "settle", "decide", "fail", "failed"}, row = o.row \/ TakenOver(row),
         Has(o.todo, {"decide"}) =>
           /\ q.cp.managed = o.cp.managed /\ (q.cp.pending = None <=> o.cp.pending = None)
           /\ o.cp.pending # None => q.cp.pending.previous = o.cp.pending.previous
  PROVE  Deciding(q)
<1>1. AtStep(o, h) /\ q.todo = <<>> \o Tail(o.todo) /\ q.row = row /\ q.safe = o.safe /\ q.fallback = o.fallback
  BY DEF Pops, Frame
<1>2. Dos(o.todo) = {h} \cup Dos(q.todo)
  BY <1>1, PopsIsRest
<1>3. \A X : Has(q.todo, X) => Has(o.todo, X)
  BY <1>2 DEF Has
<1>4. \A X : h \notin X => (Has(q.todo, X) <=> Has(o.todo, X))
  BY <1>2 DEF Has
<1>5. ~Has(q.todo, {"aim", "forget"})
  BY <1>3 DEF Deciding
<1>6. ~q.safe => Has(q.todo, {"decide", "fail", "failed"})
  BY <1>1, <1>4 DEF Deciding
<1>7. ASSUME Has(q.todo, {"decide"})
      PROVE  /\ q.cp.pending = None => TakenOver(q.cp.managed)
             /\ q.cp.pending # None => Has(q.todo, {"undo", "settle"})
             /\ Has(q.todo, {"undo"}) => q.cp.pending.previous # None /\ q.cp.pending.previous.selected
             /\ Recovering(q) => TakenOver(q.row)
  <2>1. Has(o.todo, {"decide"}) /\ (Has(q.todo, {"undo"}) <=> Has(o.todo, {"undo"}))
        /\ (Recovering(q) <=> Recovering(o)) /\ (Has(q.todo, {"undo", "settle"}) <=> Has(o.todo, {"undo", "settle"}))
    BY <1>4, <1>7 DEF Recovering
  <2>2. Has(o.todo, {"undo"}) => o.cp.pending # None
    <3>1. "undo" \in Dos(o.todo) => Has(o.todo, Changing \cup {"rejournal"})
      BY DEF Has, Changing
    <3>2. Has(o.todo, {"undo"}) => "undo" \in Dos(o.todo)
      BY DEF Has
    <3> QED BY <1>1, <3>1, <3>2 DEF AtStep, Planned, Record
  <2> QED BY <1>1, <2>1, <2>2 DEF Deciding
<1> QED BY <1>1, <1>5, <1>6, <1>7 DEF Deciding

\* ... and on the way back.
LEMMA PopReturns ==
  ASSUME NEW a, NEW b, NEW f, NEW n, NEW o, NEW q, NEW h, NEW row, Returning(a, f, n, o), o.call = "restore", o.safe,
         Pops(o, q, h, q.cp, o.before, row, o.safe, o.fallback), h # "native",
         RowsOf(b) = RowsOf(a), h # "set" => b.pref = a.pref, h = "awaittargets" => a.pref = Head(o.todo).to
  PROVE  Returning(b, IF h = "writebefore" THEN n.file ELSE f, n, q)
<1>1. AtStep(o, h) /\ q.todo = <<>> \o Tail(o.todo) /\ q.before = o.before
  BY DEF Pops, Frame
<1>2. /\ Dos(o.todo) = {h} \cup Dos(q.todo) /\ Steps(o.todo) = {Head(o.todo)} \cup Steps(q.todo)
      /\ Head(o.todo).do = h
  BY <1>1, PopsIsRest DEF AtStep
<1>3. \A X : Has(q.todo, X) => Has(o.todo, X)
  BY <1>2 DEF Has
<1>4. \A X : h \notin X => (Has(q.todo, X) <=> Has(o.todo, X))
  BY <1>2 DEF Has
<1>5. \A pref : Back(a, pref, n) => Back(b, pref, n)
  BY DEF Back, SelectableIn
<1>6. Has(q.todo, {"set"}) => Has(q.todo, {"native", "awaittargets"})
  <2>1. h # "awaittargets" \/ ~Has(q.todo, {"set"})
    <3>1. "set" \in Dos(Tail(o.todo)) => h # "awaittargets"
      BY <1>1, Later
    <3>2. Dos(q.todo) = Dos(Tail(o.todo))
      BY <1>1, PopsIsRest
    <3> QED BY <3>1, <3>2 DEF Has
  <2> QED BY <1>3, <1>4, <2>1 DEF Returning
<1>7. Has(q.todo, {"native"}) => \A s \in Scenes : n.pref[s] # Empty => n.pref[s] \in SelectableIn(b)
  BY <1>3 DEF Returning, SelectableIn
<1>8. \A s \in Steps(q.todo) : s.do = "awaittargets" => Back(b, s.to, n)
  BY <1>2, <1>5 DEF Returning
<1>9. ~Has(q.todo, {"native", "awaittargets"}) => Back(b, b.pref, n)
  <2>1. CASE h = "awaittargets"
    BY <1>2, <1>5, <2>1 DEF Returning
  <2>2. CASE h = "set"
    <3>1. Has(o.todo, {"set"})
      BY <1>2, <2>2 DEF Has
    <3> QED BY <1>4, <2>2, <3>1 DEF Returning
  <2>3. CASE h \notin {"set", "awaittargets"}
    <3>1. b.pref = a.pref /\ (Has(q.todo, {"native", "awaittargets"}) <=> Has(o.todo, {"native", "awaittargets"}))
      BY <1>4, <2>3
    <3> QED BY <1>5, <3>1 DEF Returning
  <2> QED BY <2>1, <2>2, <2>3
<1>10. ~Has(q.todo, {"writebefore"}) => (IF h = "writebefore" THEN n.file ELSE f) = n.file
  <2>1. h # "writebefore" => (Has(q.todo, {"writebefore"}) <=> Has(o.todo, {"writebefore"}))
    BY <1>4
  <2> QED BY <2>1 DEF Returning
<1> QED BY <1>1, <1>6, <1>7, <1>8, <1>9, <1>10 DEF Returning

\* What a step under the journal leaves of the account and the local choice.
Brings(a, b, f, g, n, o, q, h) ==
  /\ q.before = o.before /\ RowsOf(b) = RowsOf(a) /\ (h # "set" => b.pref = a.pref)
  /\ h = "awaittargets" => a.pref = Head(o.todo).to
  /\ g = IF h = "writebefore" THEN n.file ELSE f

LEMMA PopHomes ==
  ASSUME NEW a, NEW b, NEW f, NEW g, NEW n, NEW o, NEW q, NEW h, NEW before, NEW row, Homing(a, f, n, o), o.call = "restore",
         Pops(o, q, h, q.cp, before, row, o.safe, o.fallback), q.cp # None,
         h \notin {"undo", "settle", "native", "decide", "fail", "failed"}, row = o.row \/ TakenOver(row),
         Has(o.todo, {"decide"}) =>
           /\ q.cp.managed = o.cp.managed /\ (q.cp.pending = None <=> o.cp.pending = None)
           /\ o.cp.pending # None => q.cp.pending.previous = o.cp.pending.previous,
         o.safe => Brings(a, b, f, g, n, o, q, h)
  PROVE  Homing(b, g, n, q)
<1>1. Deciding(q)
  BY PopDecides DEF Homing
<1>2. q.safe = o.safe /\ q.before = before
  BY DEF Pops, Frame
<1>3. ASSUME o.safe
      PROVE  Returning(b, g, n, q)
  <2>1. q.before = o.before
    BY <1>3 DEF Brings
  <2>2. Pops(o, q, h, q.cp, o.before, row, o.safe, o.fallback)
    BY <1>2, <2>1
  <2>3. Returning(b, IF h = "writebefore" THEN n.file ELSE f, n, q)
    BY <1>3, <2>2, PopReturns DEF Homing, Brings
  <2> QED BY <1>3, <2>3 DEF Brings
<1> QED BY <1>1, <1>2, <1>3 DEF Homing

\* A step that is neither is of a recovery.
LEMMA UnsafeHomes ==
  ASSUME NEW a, NEW b, NEW f, NEW g, NEW n, NEW o, Homing(a, f, n, o), ~o.safe
  PROVE  Homing(b, g, n, o)
BY DEF Homing

\* Steps that set preferences come.
LEMMA SplitDecides ==
  ASSUME NEW o, NEW q, NEW h \in {"prefer", "native"}, NEW t, Deciding(o), Splits(o, q, h, t), Dos(t) \subseteq {"set", "awaittargets"},
         Frame(o, q, o.cp, o.before, o.row, o.safe, o.fallback)
  PROVE  Deciding(q)
<1>1. q.cp = o.cp /\ q.row = o.row /\ q.safe = o.safe /\ q.fallback = o.fallback
  BY DEF Frame
<1>2. \A X : h \notin X /\ X \cap {"set", "awaittargets"} = {} => (Has(q.todo, X) <=> Has(o.todo, X))
  BY DEF Has, Splits
<1>3. /\ Has(q.todo, {"aim", "forget"}) <=> Has(o.todo, {"aim", "forget"})
      /\ Has(q.todo, {"decide", "fail", "failed"}) <=> Has(o.todo, {"decide", "fail", "failed"})
      /\ Has(q.todo, {"decide"}) <=> Has(o.todo, {"decide"})
      /\ Has(q.todo, {"undo"}) <=> Has(o.todo, {"undo"})
      /\ Has(q.todo, {"undo", "settle"}) <=> Has(o.todo, {"undo", "settle"})
      /\ Recovering(q) <=> Recovering(o)
  BY <1>2 DEF Recovering
<1> QED BY <1>1, <1>3 DEF Deciding

LEMMA PreferHomes ==
  ASSUME NEW a, NEW b, NEW f, NEW g, NEW n, NEW o, NEW q, NEW to, Homing(a, f, n, o), o.call = "restore",
         SetsTo(a, o, q, "prefer", to)
  PROVE  Homing(b, g, n, q)
<1>1. AtStep(o, "prefer") /\ Frame(o, q, o.cp, o.before, o.row, o.safe, o.fallback)
  BY DEF SetsTo
<1>2. PICK s \in Seq(StepSet) : Sets(a, to, s) /\ q.todo = s \o Tail(o.todo)
  BY DEF SetsTo
<1>3. Splits(o, q, "prefer", s) /\ Dos(s) \subseteq {"set"}
  BY <1>1, <1>2, Replacing DEF Sets
<1>4. ~q.safe
  <2>1. ~o.safe
    BY <1>1, SafeAt
  <2> QED BY <1>1, <2>1 DEF Frame
<1>5. Deciding(q)
  <2>1. Dos(s) \subseteq {"set", "awaittargets"}
    BY <1>3
  <2> QED BY <1>1, <1>3, <2>1, SplitDecides DEF Homing
<1> QED BY <1>4, <1>5 DEF Homing

LEMMA NativeHomes ==
  ASSUME NEW a, NEW f, NEW n, NEW o, NEW q, Homing(a, f, n, o), NativeTo(a, o, q)
  PROVE  Homing(a, f, n, q)
<1>1. AtStep(o, "native") /\ Frame(o, q, o.cp, o.before, o.row, o.safe, o.fallback)
  BY DEF NativeTo
<1>2. PICK s \in Seq(StepSet), to \in Targets :
        Natives(a, o, to) /\ Sets(a, to, s) /\ q.todo = (s \o <<[do |-> "awaittargets", to |-> to]>>) \o Tail(o.todo)
  BY DEF NativeTo
<1> DEFINE w == [do |-> "awaittargets", to |-> to] t == s \o <<w>>
<1>3. t \in Seq(StepSet) /\ Steps(t) = Steps(s) \cup {w} /\ Dos(t) = Dos(s) \cup {"awaittargets"} /\ w.to = to
  <2>1. Sets(a, to, s)
    BY <1>2
  <2>2. /\ s \o <<w>> \in Seq(StepSet) /\ Steps(s \o <<w>>) = Steps(s) \cup {w}
        /\ Dos(s \o <<w>>) = Dos(s) \cup {"awaittargets"} /\ w.to = to
    <3> HIDE DEF w
    <3>1. w = [do |-> "awaittargets", to |-> to]
      BY DEF w
    <3> QED BY <2>1, <3>1, NativesJoin
  <2> QED BY <2>2
<1>4. Dos(s) \subseteq {"set"} /\ \A x \in Steps(s) : x.do = "set"
  BY <1>2 DEF Sets
<1> HIDE DEF w, t
<1>5. Splits(o, q, "native", t)
  <2>1. q.todo = t \o Tail(o.todo)
    BY <1>2 DEF t, w
  <2> QED BY <1>1, <1>3, <2>1, Replacing
<1>6. Deciding(q)
  BY <1>1, <1>3, <1>4, <1>5, SplitDecides DEF Homing
<1>7. q.before = o.before /\ q.safe = o.safe
  BY <1>1 DEF Frame
<1>8. ASSUME o.safe
      PROVE  Returning(a, f, n, q)
  <2>1. Returning(a, f, n, o)
    BY <1>8 DEF Homing
  <2>2. Has(o.todo, {"native"})
    BY <1>5 DEF Splits, Has
  <2>3. Has(q.todo, {"native", "awaittargets"})
    BY <1>3, <1>5 DEF Splits, Has
  <2>4. Back(a, to, n)
    <3>1. \A x \in Scenes : n.pref[x] # Empty => n.pref[x] \in SelectableIn(a)
      BY <2>1, <2>2 DEF Returning
    <3> QED BY <1>2, <2>1, <3>1 DEF Natives, Back, Returning
  <2>5. \A x \in Steps(q.todo) : x.do = "awaittargets" => Back(a, x.to, n)
    <3>1. \A x \in Steps(q.todo) : x = w \/ x.do = "set" \/ x \in Steps(o.todo)
      BY <1>3, <1>4, <1>5 DEF Splits
    <3> QED BY <1>3, <2>1, <2>4, <3>1 DEF Returning
  <2>6. Has(q.todo, {"writebefore"}) <=> Has(o.todo, {"writebefore"})
    BY <1>3, <1>4, <1>5 DEF Splits, Has
  <2> QED BY <1>7, <2>1, <2>2, <2>3, <2>5, <2>6 DEF Returning
<1> QED BY <1>6, <1>7, <1>8 DEF Homing

\* What recovery is to do ends with the record of the row r.
LEMMA UndoSettles ==
  ASSUME NEW a, NEW p, NEW r, NEW E, NEW X, UndoSteps(a, p, r, E, X)
  PROVE  /\ "settle" \in E /\ E \subseteq RecoveryDos
         /\ p.previous # None => r = p.previous \/ (r = p.created /\ p.created # None)
BY DEF UndoSteps, RestDos, NativeDos, RecoveryDos

LEMMA UndoHomes ==
  ASSUME NEW a, NEW b, NEW f, NEW g, NEW n, NEW o, NEW q, Homing(a, f, n, o), o.call = "restore", JournalOK(a, o.cp.pending),
         UndoTo(a, o, q)
  PROVE  Homing(b, g, n, q)
<1> DEFINE p == o.cp.pending
<1>1. AtStep(o, "undo") /\ q.cp = o.cp /\ q.safe = o.safe /\ q.fallback = o.fallback
  BY DEF UndoTo, Frame
<1>2. PICK s \in Seq(StepSet) : q.todo = s \o Tail(o.todo) /\ UndoSteps(a, p, q.row, Dos(s), Steps(s))
  BY DEF UndoTo
<1>3. Splits(o, q, "undo", s)
  BY <1>1, <1>2, Replacing
<1>4. "settle" \in Dos(s) /\ Dos(s) \subseteq RecoveryDos
      /\ (p.previous # None => q.row = p.previous \/ (q.row = p.created /\ p.created # None))
  BY <1>2, UndoSettles
<1>5. ~o.safe /\ "undo" \notin Dos(Tail(o.todo)) /\ o.cp # None /\ p # None
  BY <1>1, SafeAt, Later, RecordThere DEF Changing
<1>6. Has(o.todo, {"undo"}) /\ Has(q.todo, {"undo", "settle"}) /\ ~Has(q.todo, {"undo"})
  BY <1>3, <1>4, <1>5 DEF Splits, Has, RecoveryDos
<1>7. ~Has(q.todo, {"aim", "forget"})
  BY <1>3, <1>4 DEF Splits, Has, RecoveryDos, Homing, Deciding
<1>8. /\ Has(q.todo, {"decide"}) <=> Has(o.todo, {"decide"})
      /\ Has(o.todo, {"decide", "fail", "failed"}) => Has(q.todo, {"decide", "fail", "failed"})
  BY <1>3, <1>4 DEF Splits, Has, RecoveryDos
<1>9. Has(q.todo, {"decide"}) => TakenOver(q.row)
  <2>1. Has(q.todo, {"decide"}) => p.previous # None /\ p.previous.selected
    BY <1>6, <1>8 DEF Homing, Deciding
  <2>2. p.created # None => p.created.selected
    BY DEF JournalOK
  <2> QED BY <1>4, <2>1, <2>2 DEF TakenOver
<1> QED BY <1>1, <1>5, <1>6, <1>7, <1>8, <1>9 DEF Homing, Deciding

\* What was taken over is taken over again.
LEMMA SettleHomes ==
  ASSUME NEW a, NEW b, NEW f, NEW g, NEW n, NEW o, NEW q, Homing(a, f, n, o), o.call = "restore",
         DoneTo(o, q, "settle", o.row)
  PROVE  Homing(b, g, n, q)
<1>1. /\ AtStep(o, "settle") /\ q.todo = <<>> \o Tail(o.todo) /\ q.safe = o.safe /\ q.fallback = o.fallback
      /\ q.cp # None /\ q.cp.managed = o.row /\ q.cp.pending = None
  BY CheckpointIs DEF DoneTo, Pops, Frame
<1>2. Dos(o.todo) = {"settle"} \cup Dos(q.todo) /\ Dos(q.todo) = Dos(Tail(o.todo))
  BY <1>1, PopsIsRest
<1>3. ~o.safe /\ "undo" \notin Dos(q.todo) /\ "settle" \notin Dos(q.todo)
  BY <1>1, <1>2, SafeAt, Later
<1>4. ~Has(q.todo, {"undo"}) /\ ~Recovering(q) /\ Recovering(o)
  BY <1>2, <1>3 DEF Has, Recovering
<1>5. /\ Has(q.todo, {"decide"}) <=> Has(o.todo, {"decide"})
      /\ Has(q.todo, {"decide", "fail", "failed"}) <=> Has(o.todo, {"decide", "fail", "failed"})
      /\ Has(q.todo, {"aim", "forget"}) => Has(o.todo, {"aim", "forget"})
  BY <1>2 DEF Has
<1> QED BY <1>1, <1>3, <1>4, <1>5 DEF Homing, Deciding

\* The restore fails, or what is on record is returned.
LEMMA EndHomes ==
  ASSUME NEW a, NEW f, NEW n, NEW o, NEW q, NEW d \in {"commit", "fail"}, Homing(a, f, n, o), EndsTo(o, q, d),
         d = "commit" => ~TakenOver(o.cp.managed)
  PROVE  Homing(a, f, n, q)
<1>1. AtStep(o, "decide") /\ q.cp = o.cp /\ q.safe = o.safe /\ ~q.fallback /\ q.todo = <<Do(d)>>
  BY DEF EndsTo, Frame
<1>2. Dos(o.todo) = {"decide"} /\ ~o.safe
  <2>1. Rest(o, "decide", Dos(Tail(o.todo)), Steps(Tail(o.todo)))
    BY <1>1, RestIs
  <2> QED BY <1>1, <2>1, DecidesLast DEF Rest
<1>3. TakenOver(o.cp.managed)
  BY <1>2 DEF Homing, Deciding, Has
<1>4. Dos(q.todo) = {"fail"}
  BY <1>1, <1>3, OneStep, PlainStep DEF PlainDos
<1> QED BY <1>1, <1>2, <1>4 DEF Homing, Deciding, Has

LEMMA ReturnHomes ==
  ASSUME NEW a, NEW f, NEW n, NEW o, NEW q, o.cp.base = n, ReturnTo(a, f, o, q)
  PROVE  Homing(a, f, n, q)
<1>1. q.before = n /\ q.safe /\ ~q.fallback /\ q.todo = ReturnPlan /\ q.cp # None
  BY CheckpointIs DEF ReturnTo, Frame, Written
<1>2. Dos(q.todo) = {"native", "writebefore", "keep", "commit", "clear"}
  BY <1>1, ReturnPlanIs DEF Plain
<1>3. \A s \in Steps(q.todo) : s.do # "awaittargets"
  BY <1>2 DEF Dos
<1>4. /\ ~Has(q.todo, {"aim", "forget"}) /\ ~Has(q.todo, {"decide"}) /\ ~Has(q.todo, {"set"})
      /\ Has(q.todo, {"native", "awaittargets"}) /\ Has(q.todo, {"writebefore"})
  BY <1>2 DEF Has
<1>5. \A s \in Scenes : n.pref[s] # Empty => n.pref[s] \in SelectableIn(a)
  BY DEF ReturnTo
<1> QED BY <1>1, <1>3, <1>4, <1>5 DEF Homing, Deciding, Returning

\* After a failure nothing is left but to say so.
LEMMA FailedHomes ==
  ASSUME NEW a, NEW f, NEW n, NEW o, NEW q, Homing(a, f, n, o), o.call = "restore", AtStep(o, "fail"),
         Frame(o, q, o.cp, o.before, o.row, o.safe, o.fallback), q.todo = <<Do("failed")>>
  PROVE  Homing(a, f, n, q)
<1>1. q.cp = o.cp /\ q.safe = o.safe /\ q.fallback = o.fallback /\ ~o.safe
  BY SafeAt DEF Frame
<1>2. Dos(q.todo) = {"failed"}
  BY OneStep, PlainStep DEF PlainDos
<1> QED BY <1>1, <1>2 DEF Homing, Deciding, Has

\* A new restore takes up the record that is on file.
LEMMA RestoreToHomes ==
  ASSUME NEW a, NEW f, NEW sv \in Checkpoints \cup {None}, NEW n, NEW q, RestoreTo(a, f, sv, q), Restores(q)
  PROVE  Homing(a, f, n, q)
<1>1. q.start.saved = sv /\ ~q.safe
  BY DEF RestoreTo, Started1
<1>2. sv # None /\ q.cp = sv /\ TakenOver(sv.managed) /\ ~Journalling(sv) /\ ~q.fallback
      /\ \E s \in {<<>>, Recovery} : First(sv, s) /\ q.todo = s \o <<Do("decide")>>
  BY <1>1 DEF RestoreTo, Started1, Restores, Journalling
<1>3. PICK s \in {<<>>, Recovery} : First(sv, s) /\ q.todo = s \o <<Do("decide")>>
  BY <1>2
<1>4. Dos(q.todo) = Dos(s) \cup {"decide"}
  <2>1. Dos(<<Do("decide")>>) = {"decide"} /\ <<Do("decide")>> \in Seq(StepSet)
    BY OneStep, PlainStep DEF PlainDos
  <2>2. Dos(s \o <<Do("decide")>>) = Dos(s) \cup Dos(<<Do("decide")>>)
    BY <2>1, RecoveryIs, Joined
  <2> QED BY <1>3, <2>1, <2>2
<1>5. Dos(<<>>) = {} /\ Dos(Recovery) = {"undo"}
  BY NoSteps, OneStep, PlainStep DEF PlainDos, Recovery
<1>6. /\ sv.pending = None => Dos(q.todo) = {"decide"}
      /\ sv.pending # None => Dos(q.todo) = {"undo", "decide"}
  BY <1>3, <1>4, <1>5 DEF First
<1>7. /\ ~Has(q.todo, {"aim", "forget"}) /\ Has(q.todo, {"decide", "fail", "failed"}) /\ ~Recovering(q)
      /\ sv.pending # None => Has(q.todo, {"undo", "settle"})
      /\ Has(q.todo, {"undo"}) => sv.pending # None
  BY <1>6 DEF Has, Recovering
<1>8. sv.pending # None => sv.pending.previous # None /\ sv.pending.previous.selected
  BY <1>1 DEF Restores
<1> QED BY <1>1, <1>2, <1>7, <1>8 DEF Homing, Deciding

-----------------------------------------------------------------------------
(* What a restore returns, in every state *)

\* The step h is done, and what it changes with it, or it fails.
LEMMA PlainHomes ==
  ASSUME Homing(account, file, native, op), op.call = "restore", native' = native, NEW h,
         \/ /\ Plainly(op, op', h) /\ h \notin {"undo", "settle", "native", "decide", "fail", "failed"}
            /\ op.safe => /\ RowsOf(account') = RowsOf(account) /\ (h # "set" => account'.pref = account.pref)
                          /\ h = "awaittargets" => account.pref = Head(op.todo).to
                          /\ file' = IF h = "writebefore" THEN native.file ELSE file
         \/ Fails1(op, op', h)
  PROVE  Homing(account', file', native', op')
<1>1. op.cp # None /\ ~op.fallback
  BY DEF Homing, Deciding
<1>2. CASE Fails1(op, op', h)
  BY <1>1, <1>2, FailingHomes DEF Fails1
<1>3. ASSUME Plainly(op, op', h), h \notin {"undo", "settle", "native", "decide", "fail", "failed"},
             op.safe => /\ RowsOf(account') = RowsOf(account) /\ (h # "set" => account'.pref = account.pref)
                        /\ h = "awaittargets" => account.pref = Head(op.todo).to
                        /\ file' = IF h = "writebefore" THEN native.file ELSE file
      PROVE  Homing(account', file', native, op')
  <2>1. op'.cp = op.cp /\ op'.before = op.before
    BY <1>3 DEF Plainly, Pops, Frame
  <2>2. Pops(op, op', h, op'.cp, op.before, op.row, op.safe, op.fallback)
    BY <1>3, <2>1 DEF Plainly
  <2>3. op.safe => Brings(account, account', file, file', native, op, op', h)
    BY <1>3, <2>1 DEF Brings
  <2> QED BY <1>1, <1>3, <2>1, <2>2, <2>3, PopHomes
<1> QED BY <1>2, <1>3

LEMMA SwitchStepHomes ==
  ASSUME Live, Homing(account, file, native, op), op.call = "restore", SwitchStep
  PROVE  Homing(account', file', native', op')
<1>1. op.cp # None /\ ~op.fallback
  BY DEF Homing, Deciding
<1>2. ASSUME Journal \/ RowKept \/ RowModified \/ RowOther \/ Selects \/ SelectionWritten \/ SelectionAwaited
      PROVE  FALSE
  <2>1. PICK h \in SwitchDos \cup {"journal"} : At(h)
    BY <1>2 DEF SwitchDos, Journal, RowKept, RowModified, RowOther, Selects, SelectionWritten, SelectionAwaited
  <2> QED BY <2>1, AtIs, RecordThere
<1>3. CASE RowFound
  <2>1. account' = account /\ file' = file /\ native' = native
    BY <1>3, RowFoundIs DEF AccountStays, RestStays
  <2>2. CASE Fails1(op, op', "create")
    BY <2>1, <2>2, PlainHomes
  <2>3. CASE FoundTo(account, op, op')
    <3>1. AtStep(op, "create") /\ Pops(op, op', "create", op'.cp, op.before, op'.row, op.safe, op.fallback)
      BY <2>3 DEF FoundTo, Pops
    <3>2. ~op.safe /\ op.cp.pending # None
      BY <3>1, SafeAt, RecordThere DEF Changing
    <3>3. /\ op'.cp # None /\ TakenOver(op'.row) /\ op'.cp.managed = op.cp.managed /\ op'.cp.pending # None
          /\ op'.cp.pending.previous = op.cp.pending.previous
      BY <2>3, CheckpointIs DEF FoundTo, Notes, SamePending, TakenOver
    <3> QED BY <2>1, <3>1, <3>2, <3>3, PopHomes
  <2>4. ASSUME NEW u \in Ops, Noting(account, op, u), Failing(u, op')
        PROVE  Homing(account', file', native', op')
    <3>1. u.cp # None /\ ~u.fallback
      BY <1>1, <2>4, NotingPlanned, CheckpointIs DEF Noting, Frame
    <3> QED BY <2>4, <3>1, FailingHomes
  <2> QED BY <1>3, <2>2, <2>3, <2>4, RowFoundIs
<1>4. CASE RowAdded
  <2>1. AtStep(op, "create") /\ native' = native /\ (op' = op \/ Fails1(op, op', "create"))
    BY <1>4, RowAddedIs DEF RestStays
  <2>2. ~op.safe
    BY <2>1, SafeAt
  <2> QED BY <2>1, <2>2, PlainHomes, UnsafeHomes
<1>5. CASE Set
  <2>1. file' = file /\ native' = native /\ Requested(SetAt(account, account', Head(op.todo)), op, op', "set")
    BY <1>5, SetStepIs DEF RestStays
  <2>2. SetAt(account, account', Head(op.todo)) => RowsOf(account') = RowsOf(account)
    BY DEF SetAt, IsSet, RowsOf
  <2> QED BY <2>1, <2>2, PlainHomes DEF Requested
<1>6. CASE Keep
  <2>1. account' = account /\ file' = file /\ native' = native
    BY <1>6, KeepIs DEF AccountStays, RestStays
  <2>2. CASE KeepTo(op, op')
    <3>1. AtStep(op, "keep") /\ Pops(op, op', "keep", op'.cp, op.before, op.row, op.safe, op.fallback) /\ op'.cp # None
      BY <2>2, CheckpointIs DEF KeepTo, Pops, Keeping
    <3>2. op.safe /\ ~Has(op.todo, {"decide"})
      BY <3>1, RecordThere, SafeAt
    <3>3. Brings(account, account', file, file', native, op, op', "keep")
      BY <2>1, <3>1 DEF Brings, Pops, Frame
    <3> QED BY <2>1, <3>1, <3>2, <3>3, PopHomes
  <2>3. ASSUME NEW u \in Ops, KeepingAs(op, u), Failing(u, op')
        PROVE  Homing(account', file', native', op')
    <3>1. u.cp # None /\ ~u.fallback
      BY <1>1, <2>3, CheckpointIs DEF KeepingAs, Keeping, Frame
    <3> QED BY <2>3, <3>1, FailingHomes
  <2> QED BY <1>6, <2>2, <2>3, KeepIs
<1>7. CASE Commit
  <2>1. OnlyOp /\ (Plainly(op, op', "commit") \/ Fails1(op, op', "commit"))
    BY <1>7, CommitIs
  <2> QED BY <2>1, PlainHomes DEF OnlyOp
<1>8. CASE Clear
  <2>1. account' = account /\ file' = file /\ native' = native
    BY <1>8, ClearIs DEF AccountStays, RestStays
  <2>2. CASE Fails1(op, op', "clear")
    BY <2>1, <2>2, PlainHomes
  <2>3. CASE DoneTo(op, op', "clear", op.cp.managed)
    <3>1. AtStep(op, "clear") /\ Pops(op, op', "clear", op'.cp, op.before, op.row, op.safe, op.fallback) /\ op'.cp # None
      BY <2>3, CheckpointIs DEF DoneTo, Pops
    <3>2. op.safe /\ ~Has(op.todo, {"decide"})
      BY <3>1, RecordThere, SafeAt
    <3>3. Brings(account, account', file, file', native, op, op', "clear")
      BY <2>1, <3>1 DEF Brings, Pops, Frame
    <3> QED BY <2>1, <3>1, <3>2, <3>3, PopHomes
  <2> QED BY <1>8, <2>2, <2>3, ClearIs
<1> QED BY <1>2, <1>3, <1>4, <1>5, <1>6, <1>7, <1>8 DEF SwitchStep

LEMMA RecoveryStepHomes ==
  ASSUME Live, Owns, Homing(account, file, native, op), op.call = "restore", RecoveryStep
  PROVE  Homing(account', file', native', op')
<1>1. op.cp # None /\ ~op.fallback
  BY DEF Homing, Deciding
<1>2. CASE Rejournal
  <2>1. /\ account' = account /\ file' = file /\ native' = native
        /\ Plainly(op, op', "rejournal") \/ Fails1(op, op', "rejournal")
    BY <1>2, RejournalIs DEF AccountStays, RestStays
  <2> QED BY <2>1, PlainHomes
<1>3. CASE Undo
  <2>1. OnlyOp /\ (UndoTo(account, op, op') \/ Fails1(op, op', "undo"))
    BY <1>3, UndoIs
  <2>2. CASE UndoTo(account, op, op')
    <3>1. AtStep(op, "undo")
      BY <2>2 DEF UndoTo
    <3>2. OwnedRecord(account, saved, op) /\ op.cp.pending # None
      BY <3>1, OwnedAt, RecordThere DEF Owns, Changing
    <3>3. JournalOK(account, op.cp.pending)
      BY <1>1, <3>2 DEF OwnedRecord, OpOwned
    <3> QED BY <2>1, <2>2, <3>3, UndoHomes DEF OnlyOp
  <2> QED BY <2>1, <2>2, PlainHomes DEF OnlyOp
<1>4. ASSUME Modify \/ Delete
      PROVE  Homing(account', file', native', op')
  <2>1. PICK h \in {"modify", "delete"} : AtStep(op, h) /\ native' = native /\ (Plainly(op, op', h) \/ Fails1(op, op', h))
    BY <1>4, ModifyStepIs, DeleteStepIs DEF Requested, RestStays, Plainly, Pops, Fails1
  <2>2. ~op.safe
    BY <2>1, SafeAt
  <2> QED BY <2>1, <2>2, PlainHomes
<1>5. CASE Remap
  <2>1. OnlyOp /\ Pops(op, op', "remap", op.cp, op'.before, op.row, op.safe, op.fallback)
    BY <1>5, RemapIs
  <2>2. AtStep(op, "remap") /\ op'.cp = op.cp
    BY <2>1 DEF Pops, Frame
  <2>3. ~op.safe
    BY <2>2, SafeAt
  <2>4. Pops(op, op', "remap", op'.cp, op'.before, op.row, op.safe, op.fallback)
    BY <2>1, <2>2
  <2>5. op.cp.pending # None
    BY <2>2, RecordThere DEF Changing
  <2> QED BY <1>1, <2>1, <2>2, <2>3, <2>4, <2>5, PopHomes DEF OnlyOp
<1>6. CASE Prefer
  BY <1>6, PreferIs, PreferHomes DEF OnlyOp
<1>7. CASE Native
  BY <1>7, NativeIs, NativeHomes DEF OnlyOp
<1>8. CASE TargetsAwaited
  <2>1. OnlyOp /\ Awaited(Head(op.todo).to, None, op, op', "awaittargets")
    BY <1>8, AwaitIs DEF TargetsAwaited
  <2> QED BY <2>1, PlainHomes DEF OnlyOp, Awaited
<1>9. CASE BeforeAwaited
  <2>1. OnlyOp /\ Awaited(op.before.pref, op.row, op, op', "awaitbefore")
    BY <1>9, AwaitIs DEF BeforeAwaited
  <2> QED BY <2>1, PlainHomes DEF OnlyOp, Awaited
<1>10. CASE BeforeWritten
  <2>1. WroteTo(op.before.file, op, op', "writebefore")
    BY <1>10, WriteIs DEF BeforeWritten
  <2>2. op.safe => op.before = native
    BY DEF Homing, Returning
  <2> QED BY <2>1, <2>2, PlainHomes DEF WroteTo
<1>11. CASE Settle
  <2>1. account' = account /\ file' = file /\ native' = native
        /\ (DoneTo(op, op', "settle", op.row) \/ Fails1(op, op', "settle"))
    BY <1>11, SettleIs DEF AccountStays, RestStays
  <2> QED BY <2>1, SettleHomes, PlainHomes
<1> QED BY <1>2, <1>3, <1>4, <1>5, <1>6, <1>7, <1>8, <1>9, <1>10, <1>11 DEF RecoveryStep

LEMMA RestoreStepHomes ==
  ASSUME Live, BaseKnown, Homing(account, file, native, op), op.call = "restore", RestoreStep
  PROVE  Homing(account', file', native', op')
<1>1. op.cp # None /\ ~op.fallback
  BY DEF Homing, Deciding
<1>2. ASSUME Aim \/ Forget
      PROVE  FALSE
  <2>1. PICK h \in {"aim", "forget"} : AtStep(op, h)
    BY <1>2, AtIs DEF Aim, Forget
  <2>2. h \in Dos(op.todo)
    BY <2>1, RestIs DEF Rest
  <2> QED BY <2>2 DEF Homing, Deciding, Has
<1>3. CASE Decide
  <2>1. account' = account /\ file' = file /\ native' = native
    BY <1>3, DecideIs DEF AccountStays, RestStays
  <2>2. CASE EndsTo(op, op', "commit") /\ ~TakenOver(op.cp.managed)
    BY <2>1, <2>2, EndHomes
  <2>3. CASE EndsTo(op, op', "fail")
    BY <2>1, <2>3, EndHomes
  <2>4. CASE ReturnTo(account, file, op, op')
    <3>1. op.cp.base = native
      BY <1>1 DEF BaseKnown, Running
    <3> QED BY <2>1, <2>4, <3>1, ReturnHomes
  <2> QED BY <1>3, <2>2, <2>3, <2>4, DecideIs
<1> QED BY <1>2, <1>3 DEF RestoreStep

\* The record that an operation works with keeps its base.
SameBase(o, q) == q.cp # None => o.cp # None /\ q.cp.base = o.cp.base

LEMMA FailingBase ==
  ASSUME NEW o, NEW q, NEW h, Fails1(o, q, h)
  PROVE  SameBase(o, q)
BY DEF Fails1, Failing, SameBase

LEMMA PopBase ==
  ASSUME NEW o, NEW q, NEW h, NEW before, NEW row, NEW safe, NEW fallback, Pops(o, q, h, o.cp, before, row, safe, fallback)
  PROVE  SameBase(o, q)
BY DEF Pops, Frame, SameBase

LEMMA WrittenBase ==
  ASSUME NEW a, NEW f, NEW o, NEW q, NEW h, NEW add, AtStep(o, h), h \notin {"commit", "fail", "failed"}, Written(a, f, o.cp, q.cp, add)
  PROVE  SameBase(o, q) /\ q.cp # None
BY RecordThere, CheckpointIs DEF Written, SameBase

LEMMA NotesBase ==
  ASSUME NEW a, NEW o, NEW q, NEW r, NEW input, AtStep(o, "create"), Notes(a, o, q.cp, r, input)
  PROVE  SameBase(o, q) /\ q.cp # None
BY RecordThere, CheckpointIs DEF Notes, SameBase

LEMMA KeepBase ==
  ASSUME NEW o, NEW q, AtStep(o, "keep"), Keeping(o, q.cp)
  PROVE  SameBase(o, q) /\ q.cp # None
BY RecordThere, CheckpointIs DEF Keeping, SameBase

LEMMA DoneBase ==
  ASSUME NEW o, NEW q, NEW h \in {"clear", "settle", "forget"}, NEW m, DoneTo(o, q, h, m)
  PROVE  SameBase(o, q) /\ q.cp # None
<1>1. AtStep(o, h) /\ q.cp \in Checkpoints /\ q.cp.base = o.cp.base
  BY DEF DoneTo, Pops
<1> QED BY <1>1, RecordThere, CheckpointIs DEF SameBase

\* What is saved is what the operation works with.
SavedBase(o, q) == SameBase(o, q) /\ (saved' = saved \/ (saved' = q.cp /\ q.cp # None))

LEMMA BasesStay ==
  ASSUME BaseKnown, Owns, Running(op), native' = native, SavedBase(op, op')
  PROVE  BaseKnown'
<1>1. op'.cp # None => op.cp # None /\ op'.cp.base = native
  BY DEF BaseKnown, SavedBase, SameBase
<1>2. op.cp # None => saved # None
  BY DEF Owns, OwnOK, OpOwned
<1>3. CASE saved' = saved
  BY <1>1, <1>3 DEF BaseKnown
<1>4. CASE saved' = op'.cp /\ op'.cp # None
  BY <1>1, <1>2, <1>4 DEF BaseKnown
<1> QED BY <1>3, <1>4 DEF SavedBase

LEMMA SwitchStepBases ==
  ASSUME Live, SwitchStep
  PROVE  native' = native /\ SavedBase(op, op')
<1>1. CASE Journal
  <2>1. ASSUME JournalTo(account, file, op, op')
        PROVE  SameBase(op, op') /\ op'.cp # None
    BY <2>1, WrittenBase DEF JournalTo, Pops
  <2> QED BY <1>1, <2>1, JournalIs, FailingBase DEF RestStays, SavedBase
<1>2. CASE RowKept
  <2>1. OnlyOp /\ RowTo(op, op')
    BY <1>2, RowKeptIs
  <2> QED BY <2>1, PopBase DEF OnlyOp, RowTo, SavedBase
<1>3. CASE RowModified
  <2>1. RestStays /\ saved' = saved /\ (RowTo(op, op') \/ Fails1(op, op', "row"))
    BY <1>3, RowModifiedIs
  <2> QED BY <2>1, PopBase, FailingBase DEF RestStays, RowTo, SavedBase
<1>4. CASE RowOther
  BY <1>4, RowOtherIs DEF OnlyOp, CreateTo, Frame, SameBase, SavedBase
<1>5. CASE RowFound
  <2>1. native' = native
    BY <1>5, RowFoundIs DEF RestStays
  <2>2. CASE saved' = saved /\ Fails1(op, op', "create")
    BY <2>1, <2>2, FailingBase DEF SavedBase
  <2>3. CASE saved' = op'.cp /\ FoundTo(account, op, op')
    BY <2>1, <2>3, NotesBase DEF FoundTo, Pops, SavedBase
  <2>4. ASSUME NEW u \in Ops, Noting(account, op, u), Failing(u, op'), saved' = saved
        PROVE  SavedBase(op, op')
    <3>1. PICK r \in Records : Notes(account, op, u.cp, r, Head(op.todo).input)
      BY <2>4 DEF Noting
    <3>2. SameBase(op, u) /\ op'.cp = u.cp
      BY <2>4, <3>1, NotesBase DEF Noting, Failing
    <3> QED BY <2>4, <3>2 DEF SameBase, SavedBase
  <2> QED BY <1>5, <2>1, <2>2, <2>3, <2>4, RowFoundIs
<1>6. CASE RowAdded
  <2>1. native' = native /\ saved' = saved /\ (op' = op \/ Fails1(op, op', "create"))
    BY <1>6, RowAddedIs DEF RestStays
  <2> QED BY <2>1, FailingBase DEF SameBase, SavedBase
<1>7. CASE Selects
  BY <1>7, SelectsIs DEF OnlyOp, SetsTo, Frame, SameBase, SavedBase
<1>8. CASE Set
  <2>1. native' = native /\ saved' = saved /\ (Plainly(op, op', "set") \/ Fails1(op, op', "set"))
    BY <1>8, SetStepIs DEF RestStays, Requested
  <2> QED BY <2>1, PopBase, FailingBase DEF Plainly, SavedBase
<1>9. CASE SelectionWritten
  <2>1. native' = native /\ saved' = saved /\ (Plainly(op, op', "write") \/ Fails1(op, op', "write"))
    BY <1>9, WriteIs DEF SelectionWritten, WroteTo
  <2> QED BY <2>1, PopBase, FailingBase DEF Plainly, SavedBase
<1>10. CASE SelectionAwaited
  <2>1. OnlyOp /\ (Plainly(op, op', "await") \/ Fails1(op, op', "await"))
    BY <1>10, AwaitIs DEF SelectionAwaited, Awaited
  <2> QED BY <2>1, PopBase, FailingBase DEF OnlyOp, Plainly, SavedBase
<1>11. CASE Keep
  <2>1. native' = native
    BY <1>11, KeepIs DEF RestStays
  <2>2. CASE saved' = op'.cp /\ KeepTo(op, op')
    BY <2>1, <2>2, KeepBase DEF KeepTo, Pops, SavedBase
  <2>3. ASSUME NEW u \in Ops, KeepingAs(op, u), Failing(u, op'), saved' = saved
        PROVE  SavedBase(op, op')
    <3>1. SameBase(op, u) /\ op'.cp = u.cp
      BY <2>3, KeepBase DEF KeepingAs, Failing
    <3> QED BY <2>3, <3>1 DEF SameBase, SavedBase
  <2> QED BY <1>11, <2>1, <2>2, <2>3, KeepIs
<1>12. CASE Commit
  <2>1. OnlyOp /\ (Plainly(op, op', "commit") \/ Fails1(op, op', "commit"))
    BY <1>12, CommitIs
  <2> QED BY <2>1, PopBase, FailingBase DEF OnlyOp, Plainly, SavedBase
<1>13. CASE Clear
  BY <1>13, ClearIs, DoneBase, FailingBase DEF RestStays, SavedBase
<1> QED BY <1>1, <1>2, <1>3, <1>4, <1>5, <1>6, <1>7, <1>8, <1>9, <1>10, <1>11, <1>12, <1>13 DEF SwitchStep

LEMMA RecoveryStepBases ==
  ASSUME Live, RecoveryStep
  PROVE  native' = native /\ SavedBase(op, op')
<1>1. CASE Rejournal
  <2>1. AtStep(op, "rejournal") /\ native' = native
    BY <1>1, AtIs, RejournalIs DEF RestStays, Rejournal
  <2>2. CASE saved' = op.cp /\ Plainly(op, op', "rejournal")
    <3>1. op.cp # None /\ op'.cp = op.cp
      BY <2>1, <2>2, RecordThere DEF Plainly, Pops, Frame
    <3> QED BY <2>1, <2>2, <3>1 DEF SameBase, SavedBase
  <2>3. CASE saved' = saved /\ Fails1(op, op', "rejournal")
    BY <2>1, <2>3, FailingBase DEF SavedBase
  <2> QED BY <1>1, <2>2, <2>3, RejournalIs
<1>2. CASE Undo
  <2>1. OnlyOp /\ (UndoTo(account, op, op') \/ Fails1(op, op', "undo"))
    BY <1>2, UndoIs
  <2>2. UndoTo(account, op, op') => SameBase(op, op')
    BY DEF UndoTo, Frame, SameBase
  <2> QED BY <2>1, <2>2, FailingBase DEF OnlyOp, SavedBase
<1>3. CASE Remap
  <2>1. OnlyOp /\ Pops(op, op', "remap", op.cp, op'.before, op.row, op.safe, op.fallback)
    BY <1>3, RemapIs
  <2> QED BY <2>1, PopBase DEF OnlyOp, SavedBase
<1>4. CASE Prefer
  BY <1>4, PreferIs DEF OnlyOp, SetsTo, Frame, SameBase, SavedBase
<1>5. CASE Native
  BY <1>5, NativeIs DEF OnlyOp, NativeTo, Frame, SameBase, SavedBase
<1>6. CASE Settle
  BY <1>6, SettleIs, DoneBase, FailingBase DEF RestStays, SavedBase
<1>7. ASSUME Modify \/ Delete \/ TargetsAwaited \/ BeforeAwaited \/ BeforeWritten
      PROVE  /\ native' = native /\ saved' = saved
             /\ \E h \in AllDos : Plainly(op, op', h) \/ Fails1(op, op', h)
  <2>1. CASE Modify
    BY <2>1, ModifyStepIs DEF RestStays, Requested, AllDos
  <2>2. CASE Delete
    BY <2>2, DeleteStepIs DEF RestStays, Requested, AllDos
  <2>3. CASE TargetsAwaited
    BY <2>3, AwaitIs DEF TargetsAwaited, Awaited, OnlyOp, AllDos
  <2>4. CASE BeforeAwaited
    BY <2>4, AwaitIs DEF BeforeAwaited, Awaited, OnlyOp, AllDos, PlainDos
  <2>5. CASE BeforeWritten
    BY <2>5, WriteIs DEF BeforeWritten, WroteTo, AllDos, PlainDos
  <2> QED BY <1>7, <2>1, <2>2, <2>3, <2>4, <2>5
<1>8. CASE Modify \/ Delete \/ TargetsAwaited \/ BeforeAwaited \/ BeforeWritten
  BY <1>7, <1>8, PopBase, FailingBase DEF Plainly, SavedBase
<1> QED BY <1>1, <1>2, <1>3, <1>4, <1>5, <1>6, <1>8 DEF RecoveryStep

LEMMA RestoreStepBases ==
  ASSUME Live, RestoreStep
  PROVE  native' = native /\ SavedBase(op, op')
<1>1. CASE Aim
  <2>1. OnlyOp /\ Pops(op, op', "aim", op.cp, Head(op.todo).at, op.row, op.safe, FALSE)
    BY <1>1, AimIs
  <2> QED BY <2>1, PopBase DEF OnlyOp, SavedBase
<1>2. CASE Forget
  BY <1>2, ForgetIs, DoneBase, FailingBase DEF RestStays, SavedBase
<1>3. CASE Decide
  <2>1. native' = native
    BY <1>3, DecideIs DEF RestStays
  <2>2. \A d : EndsTo(op, op', d) => SameBase(op, op')
    BY DEF EndsTo, Frame, SameBase
  <2>3. ReturnTo(account, file, op, op') => SameBase(op, op') /\ op'.cp # None
    BY WrittenBase DEF ReturnTo
  <2> QED BY <1>3, <2>1, <2>2, <2>3, DecideIs DEF SavedBase
<1> QED BY <1>1, <1>2, <1>3 DEF RestoreStep

LEMMA NextBases ==
  ASSUME Live, BindingOK, Owns, BaseKnown, [Next]_vars
  PROVE  BaseKnown'
<1>1. CASE UNCHANGED vars
  BY <1>1 DEF vars, BaseKnown
<1>2. ASSUME NEW input \in Inputs, SwitchBegins(input)
      PROVE  BaseKnown'
  <2>1. saved' = Loaded /\ native' = (IF native = None THEN Selection ELSE native) /\ saved' = op'.cp
    BY <1>2, SwitchBeginsIs DEF SwitchBegins
  <2>2. Loaded # None /\ Selection # None /\ Loaded.base = IF saved # None THEN saved.base ELSE Selection
    <3>1. Selection \in Selections /\ None \notin Selections
      BY SelectionIs, ImaAssumption DEF Read
    <3>2. Loaded # None
      BY LoadedIs, CheckpointIs
    <3> QED BY <3>1, <3>2 DEF Loaded
  <2> QED BY <2>1, <2>2 DEF BaseKnown
<1>3. CASE RestoreBegins
  <2>1. OnlyOp /\ RestoreTo(account, file, saved, op')
    BY <1>3, RestoreBeginsIs
  <2>2. op'.cp # None => saved # None /\ op'.cp = saved
    BY <2>1 DEF RestoreTo, Started1
  <2> QED BY <2>1, <2>2 DEF BaseKnown, OnlyOp
<1>4. CASE SwitchStep \/ RecoveryStep \/ RestoreStep
  <2>1. Running(op)
    BY <1>4, StepsSame
  <2> QED BY <1>4, <2>1, SwitchStepBases, RecoveryStepBases, RestoreStepBases, BasesStay
<1>5. CASE Failed
  <2>1. OnlyOp /\ AtStep(op, "fail") /\ op'.cp = op.cp
    BY <1>5, FailedIs DEF Frame
  <2> QED BY <2>1, IsRunning DEF BaseKnown, OnlyOp, AtStep
<1>6. CASE Returned \/ Crash
  BY <1>6, IdleIs DEF Returned, Crash, BaseKnown
<1>7. CASE UserActs
  BY <1>7, UserActsIs DEF BaseKnown, RestStays
<1> QED BY <1>1, <1>2, <1>3, <1>4, <1>5, <1>6, <1>7 DEF Next

Homes == Restores(op) => Homing(account, file, native, op)

LEMMA NextHomes ==
  ASSUME Live, BindingOK, Owns, BaseKnown, Homes, [Next]_vars
  PROVE  Homes'
<1>1. CASE UNCHANGED vars
  BY <1>1 DEF vars, Homes
<1>2. ASSUME NEW input \in Inputs, SwitchBegins(input)
      PROVE  Homes'
  <2>1. op'.call = "switch"
    BY <1>2, SwitchBeginsIs DEF SwitchTo, Started1
  <2> QED BY <2>1 DEF Homes, Restores
<1>3. CASE RestoreBegins
  <2>1. OnlyOp /\ RestoreTo(account, file, saved, op') /\ saved \in Checkpoints \cup {None}
    BY <1>3, RestoreBeginsIs DEF Live, Typed
  <2> QED BY <2>1, RestoreToHomes DEF Homes, OnlyOp
<1>4. CASE SwitchStep \/ RecoveryStep \/ RestoreStep
  <2>1. Restores(op') => Restores(op) /\ op.call = "restore"
    BY <1>4, StepsSame DEF Restores
  <2> QED BY <1>4, <2>1, SwitchStepHomes, RecoveryStepHomes, RestoreStepHomes DEF Homes
<1>5. CASE Failed
  <2>1. /\ OnlyOp /\ AtStep(op, "fail") /\ Frame(op, op', op.cp, op.before, op.row, op.safe, op.fallback)
        /\ op'.todo = <<Do("failed")>>
    BY <1>5, FailedIs
  <2>2. Restores(op') => Restores(op) /\ op.call = "restore"
    BY <2>1 DEF Frame, Same, Restores
  <2> QED BY <2>1, <2>2, FailedHomes DEF Homes, OnlyOp
<1>6. CASE Returned \/ Crash
  <2>1. op'.call = "none"
    BY <1>6 DEF Returned, Crash, Idle
  <2> QED BY <2>1 DEF Homes, Restores
<1>7. CASE UserActs
  <2>1. op.call = "none" /\ op' = op
    BY <1>7, UserActsIs DEF Resting
  <2> QED BY <2>1 DEF Homes, Restores
<1> QED BY <1>1, <1>2, <1>3, <1>4, <1>5, <1>6, <1>7 DEF Next

\* With nothing left to do a restore has returned what it was to return.
LEMMA HomesReturn ==
  ASSUME Homes
  PROVE  RestoreReturnsNative
<1> SUFFICES ASSUME Restored(op)
             PROVE  file = native.file /\ Back(account, account.pref, native)
  BY DEF RestoreReturnsNative, Back, SelectableIn, Selectable, RowsOf, Rows
<1>1. Restores(op) /\ op.todo = <<>>
  BY DEF Restored, Restores
<1>2. \A X : ~Has(op.todo, X)
  BY <1>1, NoSteps DEF Has
<1>3. Deciding(op) /\ (op.safe => Returning(account, file, native, op))
  BY <1>1 DEF Homes, Homing
<1> QED BY <1>2, <1>3 DEF Deciding, Returning

\* A restore that succeeds has written back the local choice there was before
\* the first switch, and each entry's preferred model, or, if it had none, one
\* that exists (restore_paused), unless it is the journal of a first switch, or of
\* an earlier restore, that it finds and ends.
THEOREM ImaRestoreReturnsNative == Spec => []RestoreReturnsNative
<1> DEFINE Inv == Live /\ BindingOK /\ Owns /\ BaseKnown /\ Homes
<1>1. Init => Inv
  <2>1. Init => op = Idle /\ saved = None /\ native = None
    BY DEF Init
  <2>2. Init => Homes
    BY <2>1 DEF Homes, Restores, Idle
  <2> QED BY <2>1, <2>2, InitLive, InitOwns, IdleIs DEF BaseKnown
<1>2. Inv /\ [Next]_vars => Inv'
  BY NextLive, NextOwns, NextBases, NextHomes
<1>3. Inv => RestoreReturnsNative
  BY HomesReturn
<1> QED BY <1>1, <1>2, <1>3, PTL DEF Spec
=============================================================================
