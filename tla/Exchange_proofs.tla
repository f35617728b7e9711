--------------------------- MODULE Exchange_proofs --------------------------
(***************************************************************************)
(* Theorems about Exchange, for every value of its constants.              *)
(*                                                                         *)
(* A stream: everything is said of one sequence, the frames the client has *)
(* received and those it has not (All): it is Valid, which speaks of       *)
(* frames alone, and as long as it is translated it is Live with the       *)
(* encoder, whose counters, items and texts are those of the sequence.     *)
(* Both make up StreamInv; each canonical event keeps Live (OpenedLive,    *)
(* TextLive, CallLive, ArgumentsLive, EndLive).  InputInv relates the      *)
(* encoder to what the provider said: it holds all of it but what is still *)
(* queued.                                                                 *)
(*                                                                         *)
(* The requests: every route is made of one version of its provider        *)
(* (CredentialsInv), and the metrics are those of the requests as they are *)
(* (CountsInv).                                                            *)
(***************************************************************************)
EXTENDS Exchange, WellFoundedInduction, FunctionTheorems, FiniteSetTheorems, SequenceTheorems, TLAPS

-----------------------------------------------------------------------------
(* The operators *)

\* Every set of numbers that is not empty has a smallest member.
LEMMA HasLeast == ASSUME NEW S \in SUBSET Nat, S # {} PROVE \E n \in S : \A m \in S : n <= m
<1>1. IsWellFoundedOn(OpToRel(<, Nat), Nat)
  BY NatLessThanWellFounded, Zenon
<1>2. PICK n \in S : \A m \in S : ~(<<m, n>> \in OpToRel(<, Nat))
  BY <1>1, WFMin, Zenon
<1>3. \A m \in S : ~(m < n)
  BY <1>2 DEF OpToRel
<1> QED BY <1>3

\* The function that Selected defines by recursion, up to n.
Selects(f, n, s, S) ==
  f = [m \in 0 .. n |-> IF m = 0 THEN <<>> ELSE IF m \in S THEN Append(f[m - 1], s[m]) ELSE f[m - 1]]

LEMMA SelectsValue ==
  ASSUME NEW n \in Nat, NEW s, NEW S, NEW f, Selects(f, n, s, S)
  PROVE  /\ f[0] = <<>>
         /\ \A m \in 1 .. n : f[m] = IF m \in S THEN Append(f[m - 1], s[m]) ELSE f[m - 1]
<1>1. \A m \in 0 .. n : f[m] = IF m = 0 THEN <<>> ELSE IF m \in S THEN Append(f[m - 1], s[m]) ELSE f[m - 1]
  BY DEF Selects
<1> QED BY <1>1

LEMMA SelectsExists ==
  ASSUME NEW s, NEW S, NEW n \in Nat
  PROVE  \E f : Selects(f, n, s, S)
<1> DEFINE Without == {m \in Nat : ~\E f : Selects(f, m, s, S)}
<1> SUFFICES Without = {}
  OBVIOUS
<1> SUFFICES ASSUME Without # {} PROVE FALSE
  OBVIOUS
<1>1. PICK m \in Without : \A k \in Without : m <= k
  BY HasLeast
<1>2. CASE m = 0
  <2> DEFINE f == [k \in 0 .. 0 |-> <<>>]
  <2>1. Selects(f, 0, s, S)
    BY DEF Selects
  <2> QED BY <1>1, <1>2, <2>1
<1>3. CASE m # 0
  <2>1. m - 1 \in Nat /\ m - 1 \notin Without
    BY <1>1, <1>3
  <2>2. PICK f : Selects(f, m - 1, s, S)
    BY <2>1
  <2> DEFINE last == IF m \in S THEN Append(f[m - 1], s[m]) ELSE f[m - 1]
             g == [k \in 0 .. m |-> IF k = m THEN last ELSE f[k]]
  <2>3. \A k \in 1 .. m - 1 : f[k] = IF k \in S THEN Append(f[k - 1], s[k]) ELSE f[k - 1]
    BY <2>1, <2>2, SelectsValue
  <2>4. f[0] = <<>>
    BY <2>1, <2>2, SelectsValue
  <2>5. ASSUME NEW k \in 0 .. m
        PROVE  g[k] = IF k = 0 THEN <<>> ELSE IF k \in S THEN Append(g[k - 1], s[k]) ELSE g[k - 1]
    <3>1. CASE k = 0
      BY <1>3, <2>4, <3>1
    <3>2. CASE k = m
      <4>1. g[k - 1] = f[m - 1] /\ g[k] = last
        BY <1>3, <2>1, <3>2
      <4> QED BY <1>3, <3>2, <4>1
    <3>3. CASE k \in 1 .. m - 1
      <4>1. g[k - 1] = f[k - 1] /\ g[k] = f[k]
        BY <2>1, <3>3
      <4> QED BY <2>3, <3>3, <4>1
    <3> QED BY <2>1, <3>1, <3>2, <3>3
  <2>6. g = [k \in 0 .. m |-> g[k]]
    OBVIOUS
  <2> HIDE DEF g
  <2>7. Selects(g, m, s, S)
    BY <2>5, <2>6 DEF Selects
  <2> QED BY <1>1, <2>7
<1> QED BY <1>2, <1>3

\* What Selected is: the last value of such a function.
LEMMA SelectedIs ==
  ASSUME NEW s, NEW S, Len(s) \in Nat
  PROVE  \E f : Selects(f, Len(s), s, S) /\ Selected(s, S) = f[Len(s)]
<1> DEFINE f == CHOOSE g : Selects(g, Len(s), s, S)
<1>1. Selects(f, Len(s), s, S)
  BY SelectsExists
<1>2. Selected(s, S) = f[Len(s)]
  BY DEF Selected, Selects
<1> QED BY <1>1, <1>2

\* Two selections agree up to m.
Agree(s, S, t, T, m) == \A i \in 1 .. m : (i \in S <=> i \in T) /\ (i \in S => s[i] = t[i])

\* It depends on nothing but the selected members.
LEMMA SelectsSame ==
  ASSUME NEW s, NEW t, NEW S, NEW T, NEW k \in Nat, NEW n \in Nat, NEW m \in Nat, m <= k, m <= n,
         NEW f, Selects(f, k, s, S), NEW g, Selects(g, n, t, T),
         Agree(s, S, t, T, m)
  PROVE  f[m] = g[m]
<1> DEFINE Other == {i \in 0 .. m : f[i] # g[i]}
<1> SUFFICES ASSUME Other # {} PROVE FALSE
  OBVIOUS
<1>0. Other \in SUBSET Nat
  OBVIOUS
<1>1. PICK i \in Other : \A j \in Other : i <= j
  <2> HIDE DEF Other
  <2> QED BY <1>0, HasLeast
<1>2. f[0] = <<>> /\ g[0] = <<>>
  <2>1. f[0] = <<>>
    BY SelectsValue
  <2>2. g[0] = <<>>
    BY SelectsValue
  <2> QED BY <2>1, <2>2
<1>3. i \in 1 .. m /\ i \in 1 .. k /\ i \in 1 .. n /\ i - 1 \in 0 .. m /\ f[i - 1] = g[i - 1]
  BY <1>1, <1>2
<1>4. f[i] = IF i \in S THEN Append(f[i - 1], s[i]) ELSE f[i - 1]
  BY <1>3, SelectsValue
<1>5. g[i] = IF i \in T THEN Append(g[i - 1], t[i]) ELSE g[i - 1]
  BY <1>3, SelectsValue
<1> QED BY <1>1, <1>3, <1>4, <1>5 DEF Agree

LEMMA SelectsNoMore ==
  ASSUME NEW t, NEW T, NEW m \in Nat, NEW n \in Nat, m <= n, NEW g, Selects(g, n, t, T),
         \A i \in 1 .. n : i > m => i \notin T
  PROVE  g[n] = g[m]
<1> DEFINE Other == {i \in m .. n : g[i] # g[m]}
<1> SUFFICES ASSUME Other # {} PROVE FALSE
  OBVIOUS
<1>0. Other \in SUBSET Nat
  OBVIOUS
<1>1. PICK i \in Other : \A j \in Other : i <= j
  <2> HIDE DEF Other
  <2> QED BY <1>0, HasLeast
<1>2. i \in m + 1 .. n /\ i \in 1 .. n /\ i - 1 \in m .. n /\ g[i - 1] = g[m]
  BY <1>1
<1>3. g[i] = IF i \in T THEN Append(g[i - 1], t[i]) ELSE g[i - 1]
  BY <1>2, SelectsValue
<1> QED BY <1>1, <1>2, <1>3

LEMMA SelectedSame ==
  ASSUME NEW s, NEW t, NEW S, NEW T, Len(s) \in Nat, Len(t) \in Nat,
         NEW m \in Nat, m <= Len(s), m <= Len(t),
         Agree(s, S, t, T, m),
         \A i \in 1 .. Len(s) : i > m => i \notin S,
         \A i \in 1 .. Len(t) : i > m => i \notin T
  PROVE  Selected(s, S) = Selected(t, T)
<1>0. PICK k \in Nat, n \in Nat : k = Len(s) /\ n = Len(t)
  OBVIOUS
<1>1. PICK f : Selects(f, k, s, S) /\ Selected(s, S) = f[k]
  BY <1>0, SelectedIs
<1>2. PICK g : Selects(g, n, t, T) /\ Selected(t, T) = g[n]
  BY <1>0, SelectedIs
<1>a. k \in Nat /\ n \in Nat /\ m <= k /\ m <= n
  BY <1>0
<1>3. f[m] = g[m]
  BY <1>a, <1>1, <1>2, SelectsSame
<1>4. f[k] = f[m]
  <2>1. \A i \in 1 .. k : i > m => i \notin S
    BY <1>0
  <2> QED BY <1>a, <1>1, <2>1, SelectsNoMore
<1>5. g[n] = g[m]
  <2>1. \A i \in 1 .. n : i > m => i \notin T
    BY <1>0
  <2> QED BY <1>a, <1>2, <2>1, SelectsNoMore
<1> QED BY <1>1, <1>2, <1>3, <1>4, <1>5

LEMMA SelectedNext ==
  ASSUME NEW s, NEW t, NEW S, NEW T, Len(s) \in Nat, Len(t) \in Nat,
         NEW m \in Nat, m <= Len(s), m + 1 <= Len(t), m + 1 \in T,
         Agree(s, S, t, T, m),
         \A i \in 1 .. Len(s) : i > m => i \notin S,
         \A i \in 1 .. Len(t) : i > m + 1 => i \notin T
  PROVE  Selected(t, T) = Append(Selected(s, S), t[m + 1])
<1>0. PICK k \in Nat, n \in Nat : k = Len(s) /\ n = Len(t)
  OBVIOUS
<1>1. PICK f : Selects(f, k, s, S) /\ Selected(s, S) = f[k]
  BY <1>0, SelectedIs
<1>2. PICK g : Selects(g, n, t, T) /\ Selected(t, T) = g[n]
  BY <1>0, SelectedIs
<1>a. k \in Nat /\ n \in Nat /\ m <= k /\ m + 1 <= n /\ m <= n /\ m + 1 \in Nat
  BY <1>0
<1>3. f[m] = g[m]
  BY <1>a, <1>1, <1>2, SelectsSame
<1>4. f[k] = f[m]
  <2>1. \A i \in 1 .. k : i > m => i \notin S
    BY <1>0
  <2> QED BY <1>a, <1>1, <2>1, SelectsNoMore
<1>5. g[n] = g[m + 1]
  <2>1. \A i \in 1 .. n : i > m + 1 => i \notin T
    BY <1>0
  <2> QED BY <1>a, <1>2, <2>1, SelectsNoMore
<1>6. g[m + 1] = Append(g[m], t[m + 1])
  <2>1. \A i \in 1 .. n : g[i] = IF i \in T THEN Append(g[i - 1], t[i]) ELSE g[i - 1]
    BY <1>a, <1>2, SelectsValue
  <2>2. m + 1 \in 1 .. n /\ (m + 1) - 1 = m
    BY <1>a
  <2> QED BY <2>1, <2>2
<1> QED BY <1>1, <1>2, <1>3, <1>4, <1>5, <1>6

LEMMA SelectedNone ==
  ASSUME NEW s, NEW S, Len(s) \in Nat, \A i \in 1 .. Len(s) : i \notin S
  PROVE  Selected(s, S) = <<>>
<1>0. PICK n \in Nat : n = Len(s)
  OBVIOUS
<1>1. PICK f : Selects(f, n, s, S) /\ Selected(s, S) = f[n]
  BY <1>0, SelectedIs
<1>2. f[n] = f[0]
  <2>1. 0 \in Nat /\ n \in Nat /\ 0 <= n /\ \A i \in 1 .. n : i > 0 => i \notin S
    BY <1>0
  <2> QED BY <1>1, <2>1, SelectsNoMore
<1>3. f[0] = <<>>
  BY <1>1, SelectsValue
<1> QED BY <1>1, <1>2, <1>3

LEMMA SelectedType ==
  ASSUME NEW A, NEW s, NEW S, Len(s) \in Nat, \A i \in 1 .. Len(s) : i \in S => s[i] \in A
  PROVE  Selected(s, S) \in Seq(A)
<1>a. PICK n \in Nat : n = Len(s)
  OBVIOUS
<1>1. PICK f : Selects(f, n, s, S) /\ Selected(s, S) = f[n]
  BY <1>a, SelectedIs
<1> DEFINE Typed(i) == f[i] \in Seq(A)
           Other == {i \in 0 .. n : ~Typed(i)}
<1> SUFFICES ASSUME Other # {} PROVE FALSE
  BY <1>1
<1>0. Other \in SUBSET Nat
  OBVIOUS
<1>2. PICK i \in Other : \A j \in Other : i <= j
  <2> HIDE DEF Other
  <2> QED BY <1>0, HasLeast
<1>3. f[0] = <<>>
  BY <1>1, SelectsValue
<1>b. <<>> \in Seq(A)
  BY EmptySeq
<1>4. i \in 1 .. n /\ i - 1 \in 0 .. n /\ Typed(i - 1)
  <2>1. Typed(0)
    BY <1>3, <1>b
  <2> HIDE DEF Typed
  <2> QED BY <1>a, <1>2, <2>1
<1>5. f[i] = IF i \in S THEN Append(f[i - 1], s[i]) ELSE f[i - 1]
  BY <1>a, <1>1, <1>4, SelectsValue
<1>6. i \in S => Append(f[i - 1], s[i]) \in Seq(A)
  BY <1>a, <1>4, AppendProperties
<1> QED BY <1>2, <1>4, <1>5, <1>6

\* Ascending enumerates what it is given.
Enumerates(s, S) ==
  s \in [1 .. Cardinality(S) -> S] /\ \A i, j \in DOMAIN s : i < j => s[i] < s[j]

LEMMA AscendingExists ==
  ASSUME NEW S \in SUBSET Nat, IsFiniteSet(S)
  PROVE  \E s : Enumerates(s, S)
<1> DEFINE Bad(n) == \E T \in SUBSET Nat : IsFiniteSet(T) /\ Cardinality(T) = n /\ ~\E s : Enumerates(s, T)
           Without == {n \in Nat : Bad(n)}
<1> SUFFICES ASSUME ~\E s : Enumerates(s, S) PROVE FALSE
  OBVIOUS
<1>1. Cardinality(S) \in Without
  BY FS_CardinalityType
<1>2. PICK n \in Without : \A m \in Without : n <= m
  <2>1. Without \in SUBSET Nat /\ Without # {}
    BY <1>1
  <2> HIDE DEF Without
  <2> QED BY <2>1, HasLeast
<1>3. PICK T \in SUBSET Nat : IsFiniteSet(T) /\ Cardinality(T) = n /\ ~\E s : Enumerates(s, T)
  BY <1>2
<1>4. T # {}
  <2>1. ASSUME T = {} PROVE FALSE
    <3>1. Cardinality(T) = 0
      BY <2>1, FS_EmptySet
    <3> DEFINE s == [i \in 1 .. 0 |-> 0]
    <3>2. Enumerates(s, T)
      BY <3>1 DEF Enumerates
    <3> QED BY <1>3, <3>2
  <2> QED BY <2>1
<1>5. PICK k \in T : \A m \in T : k <= m
  BY <1>3, <1>4, HasLeast
<1> DEFINE U == T \ {k}
<1>6. IsFiniteSet(U) /\ Cardinality(U) = n - 1 /\ U \in SUBSET Nat
  BY <1>3, <1>5, FS_RemoveElement
<1>7. n \in Nat /\ n - 1 \in Nat
  BY <1>2, <1>6, FS_CardinalityType
<1>8. \E s : Enumerates(s, U)
  <2>1. n - 1 \notin Without
    BY <1>2, <1>7
  <2> QED BY <1>6, <1>7, <2>1
<1>9. PICK r : Enumerates(r, U)
  BY <1>8
<1> DEFINE s == [i \in 1 .. n |-> IF i = 1 THEN k ELSE r[i - 1]]
<1>10. \A i \in 1 .. n : i # 1 => i - 1 \in 1 .. n - 1 /\ r[i - 1] \in U
  <2>1. DOMAIN r = 1 .. n - 1 /\ \A i \in 1 .. n - 1 : r[i] \in U
    BY <1>6, <1>9 DEF Enumerates
  <2>2. ASSUME NEW i \in 1 .. n, i # 1 PROVE i - 1 \in 1 .. n - 1
    BY <1>7, <2>2
  <2> QED BY <2>1, <2>2
<1>11. s \in [1 .. n -> T]
  BY <1>5, <1>10
<1>12. ASSUME NEW i \in 1 .. n, NEW j \in 1 .. n, i < j
       PROVE  s[i] < s[j]
  <2>1. j # 1 /\ s[j] = r[j - 1]
    BY <1>12, <1>7
  <2>2. CASE i = 1
    <3>1. r[j - 1] \in U
      BY <1>10, <2>1
    <3>2. k <= r[j - 1] /\ k # r[j - 1] /\ r[j - 1] \in Nat /\ k \in Nat
      BY <1>3, <1>5, <3>1
    <3> QED BY <2>1, <2>2, <3>2
  <2>3. CASE i # 1
    <3>1. i - 1 \in DOMAIN r /\ j - 1 \in DOMAIN r /\ i - 1 < j - 1
      BY <1>6, <1>7, <1>9, <1>10, <1>12, <2>1, <2>3 DEF Enumerates
    <3>2. r[i - 1] < r[j - 1]
      BY <1>9, <3>1 DEF Enumerates
    <3> QED BY <2>1, <2>3, <3>2
  <2> QED BY <2>2, <2>3
<1> HIDE DEF s
<1>13. Enumerates(s, T)
  BY <1>3, <1>11, <1>12 DEF Enumerates
<1> QED BY <1>3, <1>13

LEMMA AscendingIs ==
  ASSUME NEW S \in SUBSET Nat, IsFiniteSet(S), NEW slots, slots = Ascending(S)
  PROVE  /\ Cardinality(S) \in Nat /\ slots \in Seq(S) /\ Len(slots) = Cardinality(S)
         /\ \A i \in 1 .. Len(slots) : slots[i] \in S
         /\ \A i, j \in 1 .. Len(slots) : slots[i] = slots[j] => i = j
         /\ \A k \in S : \E i \in 1 .. Len(slots) : slots[i] = k
<1>1. Cardinality(S) \in Nat
  BY FS_CardinalityType
<1>2. Enumerates(slots, S)
  BY AscendingExists DEF Ascending, Enumerates
<1>3. slots \in [1 .. Cardinality(S) -> S] /\ \A i, j \in 1 .. Cardinality(S) : i < j => slots[i] < slots[j]
  BY <1>2 DEF Enumerates
<1>4. \A i, j \in 1 .. Cardinality(S) : slots[i] = slots[j] => i = j
  <2> SUFFICES ASSUME NEW i \in 1 .. Cardinality(S), NEW j \in 1 .. Cardinality(S), slots[i] = slots[j], i # j
               PROVE  FALSE
    OBVIOUS
  <2>1. slots[i] \in Nat /\ slots[j] \in Nat
    BY <1>3
  <2>2. i < j \/ j < i
    BY <1>1
  <2> QED BY <1>3, <2>1, <2>2
<1>5. slots \in Injection(1 .. Cardinality(S), S)
  BY <1>3, <1>4 DEF Injection, IsInjective
<1>6. IsFiniteSet(1 .. Cardinality(S)) /\ Cardinality(1 .. Cardinality(S)) = Cardinality(S)
  BY <1>1, FS_Interval
<1>7. slots \in Surjection(1 .. Cardinality(S), S)
  BY <1>5, <1>6, FS_Injection
<1>8. \A k \in S : \E i \in 1 .. Cardinality(S) : slots[i] = k
  BY <1>7 DEF Surjection
<1>9. slots \in Seq(S) /\ Len(slots) = Cardinality(S)
  BY <1>1, <1>3
<1> QED BY <1>1, <1>3, <1>4, <1>8, <1>9

-----------------------------------------------------------------------------
(* Frames *)

Kinds == {"response", "message", "function_call"}
ResponseIds == Ids \cup {None, Default}
Calls == UNION {[D -> [index : Nat, arguments : Seq(Pieces)]] : D \in SUBSET Tools}
Encoder ==
  [id : ResponseIds, sequence : Nat, created : BOOLEAN, completed : BOOLEAN, next : Nat,
   textIndex : Nat \cup {None}, text : Seq(Pieces), tools : Calls, usage : Usages \cup {None}]

PartTypes == {"content_part.added", "output_text.done", "content_part.done",
              "function_call_arguments.done", "output_item.done"}
FinalTypes == {"output_text.done", "content_part.done", "function_call_arguments.done",
               "output_item.done"}
Types == {"response.created", "output_item.added", "response.completed"} \cup DeltaTypes \cup PartTypes
Outputs == Seq([kind : Kinds, content : Seq(Pieces)])
Contents == Seq(Pieces) \cup [output : Outputs, usage : Usages \cup {None}]
NewFrames == [type : Types, kind : Kinds, id : ResponseIds, index : Nat \cup {None}, content : Contents]
FrameSet == [type : Types, kind : Kinds, id : ResponseIds, index : Nat \cup {None},
             content : Contents, sequence : Nat]

WithNumber(f, n) ==
  [type |-> f.type, kind |-> f.kind, id |-> f.id, index |-> f.index, content |-> f.content, sequence |-> n]
Numbered(new, n) == [i \in DOMAIN new |-> WithNumber(new[i], n + i - 1)]

\* The deltas of an item in a stream q, and what they hold.
DeltasAt(q, n) == {i \in DOMAIN q : q[i].type \in DeltaTypes /\ q[i].index = n}
Said(q, n) == LET s == Selected(q, DeltasAt(q, n)) IN [i \in DOMAIN s |-> s[i].content[1]]

Adds(q, j, n) == q[j].type = "output_item.added" /\ q[j].index = n
ClosesAt(q, j, n) == q[j].type = "output_item.done" /\ q[j].index = n

\* The kind of an item, once it was announced.
KindOf(q, n) == q[CHOOSE j \in {i \in DOMAIN q : q[i].type \in {"output_item.added"}} : q[j].index = n].kind
Indices(q) == {q[i].index + 1 : i \in {j \in DOMAIN q : q[j].type \in {"output_item.added"}}}

\* The frame at position i of a stream q is one a client may expect there.
MayFollow(q, i) ==
  /\ q[i].type = "response.created" <=> i = 1
  /\ q[i].type = "output_item.added" =>
       /\ q[i].index \in Nat /\ q[i].kind \in {"message", "function_call"}
       /\ q[i].content = <<>>
       /\ \A n \in 0 .. q[i].index - 1 : \E j \in 1 .. i - 1 : Adds(q, j, n)
       /\ \A j \in 1 .. i - 1 : q[j].type = "output_item.added" => q[j].index < q[i].index
  /\ q[i].type \in DeltaTypes \cup PartTypes =>
       /\ \E j \in 1 .. i - 1 : Adds(q, j, q[i].index)
       /\ \A j \in 1 .. i - 1 : ~ClosesAt(q, j, q[i].index)
  /\ q[i].type \in DeltaTypes =>
       /\ \E p \in Pieces : q[i].content = <<p>>
       /\ \A j \in 1 .. i - 1 : q[j].type \in FinalTypes => q[j].index # q[i].index
  /\ q[i].type = "response.completed" =>
       /\ i = Len(q)
       /\ \A j \in 1 .. i - 1 :
            q[j].type = "output_item.added" => \E m \in 1 .. i - 1 : ClosesAt(q, m, q[j].index)

IsNumbered(q, i) ==
  /\ q[i].sequence = i - 1
  /\ q[i].kind # "function_call" => q[i].id = q[1].id

\* The frame repeats what was said before.
Repeats(q, i) ==
  /\ q[i].type \in FinalTypes => q[i].content = Said(q, q[i].index)
  /\ q[i].type = "response.completed" =>
       q[i].content.output = [n \in Indices(q) |-> [kind |-> KindOf(q, n - 1), content |-> Said(q, n - 1)]]

Valid(q) == \A i \in 1 .. Len(q) : MayFollow(q, i) /\ IsNumbered(q, i) /\ Repeats(q, i)

\* Nothing of it is final.
Open(q) == \A i \in 1 .. Len(q) : q[i].type \notin FinalTypes \cup {"response.completed"}

-----------------------------------------------------------------------------
(* Sequences of frames *)

LEMMA NumberedType ==
  ASSUME NEW new \in Seq(NewFrames), NEW n \in Nat
  PROVE  /\ Numbered(new, n) \in Seq(FrameSet) /\ Len(Numbered(new, n)) = Len(new)
         /\ \A i \in 1 .. Len(new) : Numbered(new, n)[i] = WithNumber(new[i], n + i - 1)
<1>1. DOMAIN new = 1 .. Len(new) /\ Len(new) \in Nat
  OBVIOUS
<1>2. ASSUME NEW i \in 1 .. Len(new)
      PROVE  WithNumber(new[i], n + i - 1) \in FrameSet
  <2>1. new[i] \in NewFrames
    OBVIOUS
  <2>2. n + i - 1 \in Nat
    BY <1>1
  <2> QED BY <2>1, <2>2 DEF NewFrames, FrameSet, WithNumber
<1>3. Numbered(new, n) \in [1 .. Len(new) -> FrameSet]
  BY <1>1, <1>2 DEF Numbered
<1>4. Numbered(new, n) \in Seq(FrameSet) /\ Len(Numbered(new, n)) = Len(new)
  BY <1>1, <1>3
<1>5. \A i \in 1 .. Len(new) : Numbered(new, n)[i] = WithNumber(new[i], n + i - 1)
  BY <1>1 DEF Numbered
<1> QED BY <1>4, <1>5

LEMMA Joined ==
  ASSUME NEW q \in Seq(FrameSet), NEW r \in Seq(FrameSet)
  PROVE  /\ q \o r \in Seq(FrameSet) /\ Len(q) \in Nat /\ Len(r) \in Nat
         /\ Len(q \o r) = Len(q) + Len(r)
         /\ \A i \in 1 .. Len(q) : (q \o r)[i] = q[i]
         /\ \A i \in Len(q) + 1 .. Len(q) + Len(r) : (q \o r)[i] = r[i - Len(q)]
<1>1. q \o r \in Seq(FrameSet) /\ Len(q \o r) = Len(q) + Len(r)
  BY ConcatProperties, Zenon
<1>2. \A i \in 1 .. Len(q) + Len(r) : (q \o r)[i] = IF i <= Len(q) THEN q[i] ELSE r[i - Len(q)]
  BY ConcatProperties, Zenon
<1>3. Len(q) \in Nat /\ Len(r) \in Nat
  OBVIOUS
<1> HIDE DEF FrameSet
<1> QED BY <1>1, <1>2, <1>3

\* Frames that are emitted together are numbered as if one after the other.
LEMMA NumberedConcat ==
  ASSUME NEW q \in Seq(FrameSet), NEW a \in Seq(NewFrames), NEW b \in Seq(NewFrames)
  PROVE  q \o Numbered(a \o b, Len(q))
           = (q \o Numbered(a, Len(q))) \o Numbered(b, Len(q \o Numbered(a, Len(q))))
<1> DEFINE n == Len(q)
           x == Numbered(a \o b, n)
           y == Numbered(a, n)
           z == Numbered(b, Len(q \o y))
<1>1. a \o b \in Seq(NewFrames) /\ Len(a \o b) = Len(a) + Len(b) /\ n \in Nat /\ Len(a) \in Nat /\ Len(b) \in Nat
  OBVIOUS
<1>2. y \in Seq(FrameSet) /\ Len(y) = Len(a)
      /\ \A i \in 1 .. Len(a) : y[i] = WithNumber(a[i], n + i - 1)
  BY <1>1, NumberedType
<1> HIDE DEF y
<1>3. Len(q \o y) = n + Len(a) /\ q \o y \in Seq(FrameSet)
  <2>1. Len(q \o y) = Len(q) + Len(y) /\ q \o y \in Seq(FrameSet)
    BY <1>2, Joined, Zenon
  <2> QED BY <1>2, <2>1
<1>4. z \in Seq(FrameSet) /\ Len(z) = Len(b)
      /\ \A i \in 1 .. Len(b) : z[i] = WithNumber(b[i], n + Len(a) + i - 1)
  BY <1>1, <1>3, NumberedType
<1>5. x \in Seq(FrameSet) /\ Len(x) = Len(a) + Len(b)
      /\ \A i \in 1 .. Len(a) + Len(b) : x[i] = WithNumber((a \o b)[i], n + i - 1)
  BY <1>1, NumberedType
<1>6. \A i \in 1 .. Len(a) + Len(b) : (a \o b)[i] = IF i <= Len(a) THEN a[i] ELSE b[i - Len(a)]
  OBVIOUS
<1> HIDE DEF x, y, z
<1>7. \A i \in 1 .. Len(a) + Len(b) : x[i] = IF i <= Len(a) THEN y[i] ELSE z[i - Len(a)]
  <2> SUFFICES ASSUME NEW i \in 1 .. Len(a) + Len(b)
               PROVE  x[i] = IF i <= Len(a) THEN y[i] ELSE z[i - Len(a)]
    OBVIOUS
  <2>1. CASE i <= Len(a)
    BY <1>1, <1>2, <1>5, <1>6, <2>1
  <2>2. CASE ~(i <= Len(a))
    <3>1. i - Len(a) \in 1 .. Len(b) /\ n + Len(a) + (i - Len(a)) - 1 = n + i - 1
      BY <1>1, <2>2
    <3> QED BY <1>4, <1>5, <1>6, <2>2, <3>1
  <2> QED BY <2>1, <2>2
<1> HIDE DEF n
<1>n. n = Len(q) /\ n \in Nat
  BY DEF n
<1>8. Len(q \o x) = n + Len(a) + Len(b) /\ Len((q \o y) \o z) = n + Len(a) + Len(b)
  <2>1. Len(q \o x) = Len(q) + Len(x)
    BY <1>5, Joined, Zenon
  <2>2. Len((q \o y) \o z) = Len(q \o y) + Len(z)
    BY <1>3, <1>4, Joined, Zenon
  <2>3. Len(q \o x) = n + (Len(a) + Len(b)) /\ Len((q \o y) \o z) = (n + Len(a)) + Len(b)
    BY <1>n, <1>3, <1>4, <1>5, <2>1, <2>2
  <2> QED BY <1>1, <1>n, <2>3
<1>c. /\ \A i \in 1 .. n : (q \o x)[i] = q[i] /\ (q \o y)[i] = q[i]
      /\ \A i \in n + 1 .. n + (Len(a) + Len(b)) : (q \o x)[i] = x[i - n]
      /\ \A i \in n + 1 .. n + Len(a) : (q \o y)[i] = y[i - n]
  <2>1. /\ \A i \in 1 .. Len(q) : (q \o x)[i] = q[i]
        /\ \A i \in Len(q) + 1 .. Len(q) + Len(x) : (q \o x)[i] = x[i - Len(q)]
    BY <1>5, Joined, Zenon
  <2>2. /\ \A i \in 1 .. Len(q) : (q \o y)[i] = q[i]
        /\ \A i \in Len(q) + 1 .. Len(q) + Len(y) : (q \o y)[i] = y[i - Len(q)]
    BY <1>2, Joined, Zenon
  <2>3. Len(x) = Len(a) + Len(b) /\ Len(y) = Len(a)
    BY <1>2, <1>5
  <2> QED BY <1>n, <2>1, <2>2, <2>3, Zenon
<1>d. /\ \A i \in 1 .. n + Len(a) : ((q \o y) \o z)[i] = (q \o y)[i]
      /\ \A i \in n + Len(a) + 1 .. n + Len(a) + Len(b) : ((q \o y) \o z)[i] = z[i - (n + Len(a))]
  <2>1. /\ \A i \in 1 .. Len(q \o y) : ((q \o y) \o z)[i] = (q \o y)[i]
        /\ \A i \in Len(q \o y) + 1 .. Len(q \o y) + Len(z) : ((q \o y) \o z)[i] = z[i - Len(q \o y)]
    BY <1>3, <1>4, Joined, Zenon
  <2>2. Len(z) = Len(b)
    BY <1>4
  <2> QED BY <1>3, <2>1, <2>2, Zenon
<1>9. ASSUME NEW i \in 1 .. Len(q \o x)
      PROVE  (q \o x)[i] = ((q \o y) \o z)[i]
  <2>0. i \in 1 .. n + Len(a) + Len(b)
    BY <1>8
  <2>1. CASE i <= n
    BY <1>1, <1>n, <1>c, <1>d, <2>0, <2>1
  <2>2. CASE i > n /\ i <= n + Len(a)
    <3>1. i \in n + 1 .. n + (Len(a) + Len(b)) /\ i - n \in 1 .. Len(a) + Len(b) /\ i - n <= Len(a) /\ i \in n + 1 .. n + Len(a) /\ i \in 1 .. n + Len(a)
      BY <1>1, <1>n, <2>0, <2>2
    <3>2. x[i - n] = y[i - n]
      BY <1>7, <3>1
    <3>3. (q \o x)[i] = x[i - n] /\ (q \o y)[i] = y[i - n] /\ ((q \o y) \o z)[i] = (q \o y)[i]
      BY <1>c, <1>d, <3>1, Zenon
    <3> QED BY <3>2, <3>3
  <2>3. CASE i > n + Len(a)
    <3>1. /\ i - n \in 1 .. Len(a) + Len(b) /\ ~(i - n <= Len(a)) /\ i - n - Len(a) = i - (n + Len(a))
          /\ i \in n + Len(a) + 1 .. n + Len(a) + Len(b) /\ i \in n + 1 .. n + (Len(a) + Len(b))
      BY <1>1, <1>n, <2>0, <2>3
    <3>2. x[i - n] = z[i - n - Len(a)]
      BY <1>7, <3>1
    <3>3. (q \o x)[i] = x[i - n] /\ ((q \o y) \o z)[i] = z[i - (n + Len(a))]
      BY <1>c, <1>d, <3>1, Zenon
    <3>4. i - n - Len(a) = i - (n + Len(a))
      BY <3>1
    <3> QED BY <3>2, <3>3, <3>4, Zenon
  <2>4. i <= n \/ (i > n /\ i <= n + Len(a)) \/ i > n + Len(a)
    BY <1>1, <1>n, <2>0
  <2> QED BY <2>1, <2>2, <2>3, <2>4, Zenon
<1>10. q \o x \in Seq(FrameSet) /\ (q \o y) \o z \in Seq(FrameSet)
  BY <1>3, <1>4, <1>5
<1>11. q \o x = (q \o y) \o z
  BY <1>8, <1>9, <1>10, SeqEqual, Zenon
<1> QED BY <1>11 DEF n, x, y, z

LEMMA NumberedOne ==
  ASSUME NEW q \in Seq(FrameSet), NEW f \in NewFrames
  PROVE  q \o Numbered(<<f>>, Len(q)) = Append(q, WithNumber(f, Len(q)))
<1>1. <<f>> \in Seq(NewFrames) /\ Len(<<f>>) = 1 /\ <<f>>[1] = f
  OBVIOUS
<1>2. Numbered(<<f>>, Len(q)) \in Seq(FrameSet) /\ Len(Numbered(<<f>>, Len(q))) = 1
      /\ Numbered(<<f>>, Len(q))[1] = WithNumber(f, Len(q))
  <2>1. Len(q) \in Nat /\ Len(q) + 1 - 1 = Len(q) /\ 1 \in 1 .. 1
    OBVIOUS
  <2> QED BY <1>1, <2>1, NumberedType
<1> DEFINE g == WithNumber(f, Len(q))
           x == Numbered(<<f>>, Len(q))
<1>3. g \in FrameSet
  BY <1>2
<1> HIDE DEF g, x
<1>a. x \in Seq(FrameSet) /\ Len(x) = 1 /\ x[1] = g
  BY <1>2 DEF x, g
<1>b. x = <<g>>
  BY <1>a
<1>4. q \o <<g>> = Append(q, g)
  BY <1>3
<1> QED BY <1>b, <1>4 DEF x, g

LEMMA NumberedNone ==
  ASSUME NEW q \in Seq(FrameSet), NEW n \in Nat
  PROVE  q \o Numbered(<<>>, n) = q
<1>1. Numbered(<<>>, n) = <<>>
  BY DEF Numbered
<1> QED BY <1>1

-----------------------------------------------------------------------------
(* What was said *)

Extends(r, q) == Len(q) <= Len(r) /\ \A i \in 1 .. Len(q) : r[i] = q[i]
NoDelta(q, n, m) == \A i \in 1 .. Len(q) : i > m /\ q[i].type \in DeltaTypes => q[i].index # n

LEMMA SaidSame ==
  ASSUME NEW q \in Seq(FrameSet), NEW r \in Seq(FrameSet), Extends(r, q), NEW n, NoDelta(r, n, Len(q))
  PROVE  Said(r, n) = Said(q, n)
<1> DEFINE S == DeltasAt(q, n)
           T == DeltasAt(r, n)
<1>1. Len(q) \in Nat /\ Len(r) \in Nat /\ DOMAIN q = 1 .. Len(q) /\ DOMAIN r = 1 .. Len(r) /\ Len(q) <= Len(r)
  BY DEF Extends
<1>2. Agree(q, S, r, T, Len(q))
  BY <1>1 DEF Agree, DeltasAt, Extends
<1>3. \A i \in 1 .. Len(q) : i > Len(q) => i \notin S
  BY <1>1
<1>4. \A i \in 1 .. Len(r) : i > Len(q) => i \notin T
  BY <1>1 DEF DeltasAt, NoDelta
<1> HIDE DEF S, T
<1>5. Len(q) <= Len(q)
  BY <1>1
<1>6. Selected(q, S) = Selected(r, T)
  BY <1>1, <1>2, <1>3, <1>4, <1>5, SelectedSame
<1> QED BY <1>6, Zenon DEF Said, S, T

LEMMA SaidNone ==
  ASSUME NEW q \in Seq(FrameSet), NEW n, NoDelta(q, n, 0)
  PROVE  Said(q, n) = <<>>
<1> DEFINE S == DeltasAt(q, n)
<1>1. Len(q) \in Nat /\ DOMAIN q = 1 .. Len(q)
  OBVIOUS
<1>2. \A i \in 1 .. Len(q) : i \notin S
  BY <1>1 DEF DeltasAt, NoDelta
<1> HIDE DEF S
<1>3. Selected(q, S) = <<>>
  BY <1>1, <1>2, SelectedNone
<1>4. Said(q, n) = [i \in DOMAIN <<>> |-> <<>>[i].content[1]]
  BY <1>3 DEF Said, S
<1> QED BY <1>4

\* A delta holds one piece.
Delta == {f \in FrameSet : \E p \in Pieces : f.content = <<p>>}
HasDeltas(q) == \A i \in 1 .. Len(q) : q[i].type \in DeltaTypes => q[i] \in Delta

LEMMA SelectedDeltas ==
  ASSUME NEW q \in Seq(FrameSet), HasDeltas(q), NEW n
  PROVE  Selected(q, DeltasAt(q, n)) \in Seq(Delta)
<1> DEFINE S == DeltasAt(q, n)
<1>1. Len(q) \in Nat
  OBVIOUS
<1>2. \A i \in 1 .. Len(q) : i \in S => q[i] \in Delta
  BY DEF HasDeltas, DeltasAt
<1> HIDE DEF S
<1>3. Selected(q, S) \in Seq(Delta)
  BY <1>1, <1>2, SelectedType
<1> QED BY <1>3 DEF S

LEMMA SaidType ==
  ASSUME NEW q \in Seq(FrameSet), HasDeltas(q), NEW n
  PROVE  Said(q, n) \in Seq(Pieces)
<1> DEFINE s == Selected(q, DeltasAt(q, n))
<1>1. s \in Seq(Delta)
  BY SelectedDeltas
<1> HIDE DEF s
<1>2. DOMAIN s = 1 .. Len(s) /\ Len(s) \in Nat
  BY <1>1
<1>3. ASSUME NEW i \in 1 .. Len(s)
      PROVE  s[i].content[1] \in Pieces
  <2>1. s[i] \in Delta
    BY <1>1
  <2>2. PICK p \in Pieces : s[i].content = <<p>>
    BY <2>1 DEF Delta
  <2> QED BY <2>2
<1>4. Said(q, n) = [i \in 1 .. Len(s) |-> s[i].content[1]]
  BY <1>2 DEF Said, s
<1> QED BY <1>2, <1>3, <1>4

LEMMA SaidNext ==
  ASSUME NEW q \in Seq(FrameSet), HasDeltas(q), NEW f \in FrameSet, f.type \in DeltaTypes,
         NEW p \in Pieces, f.content = <<p>>
  PROVE  Said(Append(q, f), f.index) = Append(Said(q, f.index), p)
<1> DEFINE r == Append(q, f)
           n == f.index
           S == DeltasAt(q, n)
           T == DeltasAt(r, n)
           s == Selected(q, S)
<1>1. /\ Len(q) \in Nat /\ Len(r) = Len(q) + 1 /\ DOMAIN q = 1 .. Len(q) /\ DOMAIN r = 1 .. Len(q) + 1
      /\ r[Len(q) + 1] = f /\ \A i \in 1 .. Len(q) : r[i] = q[i]
  OBVIOUS
<1>s. s \in Seq(Delta)
  BY SelectedDeltas
<1> HIDE DEF r
<1>2. Agree(q, S, r, T, Len(q))
  BY <1>1 DEF Agree, DeltasAt
<1>3. \A i \in 1 .. Len(q) : i > Len(q) => i \notin S
  BY <1>1
<1>4. \A i \in 1 .. Len(r) : i > Len(q) + 1 => i \notin T
  BY <1>1
<1>5. Len(q) + 1 \in T
  BY <1>1 DEF DeltasAt
<1>m. Len(q) <= Len(q) /\ Len(q) + 1 <= Len(r) /\ Len(r) \in Nat
  BY <1>1
<1> HIDE DEF S, T, n, s
<1>6. Selected(r, T) = Append(s, f)
  <2>1. Selected(r, T) = Append(Selected(q, S), r[Len(q) + 1])
    BY <1>1, <1>2, <1>3, <1>4, <1>5, <1>m, SelectedNext
  <2> QED BY <1>1, <2>1 DEF s
<1>d. f \in Delta
  BY DEF Delta
<1>7. DOMAIN s = 1 .. Len(s) /\ Len(s) \in Nat
  BY <1>s
<1>8. /\ DOMAIN Append(s, f) = 1 .. Len(s) + 1 /\ Append(s, f)[Len(s) + 1] = f
      /\ \A i \in 1 .. Len(s) : Append(s, f)[i] = s[i]
  BY <1>s, <1>d
<1> DEFINE a == Said(q, n)
           b == Said(r, n)
<1>9. a = [i \in 1 .. Len(s) |-> s[i].content[1]]
  BY <1>7 DEF Said, s, S
<1>10. b = [i \in 1 .. Len(s) + 1 |-> Append(s, f)[i].content[1]]
  BY <1>6, <1>8 DEF Said, T
<1>11. b = [i \in 1 .. Len(s) + 1 |-> IF i = Len(s) + 1 THEN p ELSE s[i].content[1]]
  BY <1>7, <1>8, <1>10
<1>12. a \in Seq(Pieces)
  BY SaidType
<1> HIDE DEF a, b
<1>13. Len(a) = Len(s)
  BY <1>7, <1>9
<1>14. b = Append(a, p)
  BY <1>7, <1>9, <1>11, <1>12, <1>13
<1> QED BY <1>14, Zenon DEF a, b, n, r

-----------------------------------------------------------------------------
(* Valid streams *)

LEMMA MayFollowSame ==
  ASSUME NEW q, NEW r, NEW i \in Nat, \A j \in 1 .. i : r[j] = q[j], i >= 1,
         q[i].type # "response.completed"
  PROVE  MayFollow(r, i) <=> MayFollow(q, i)
<1>1. r[i] = q[i] /\ \A j \in 1 .. i - 1 : r[j] = q[j]
  OBVIOUS
<1>2. \A n : (\E j \in 1 .. i - 1 : Adds(r, j, n)) <=> (\E j \in 1 .. i - 1 : Adds(q, j, n))
  BY <1>1 DEF Adds
<1>3. \A n : (\A j \in 1 .. i - 1 : ~ClosesAt(r, j, n)) <=> (\A j \in 1 .. i - 1 : ~ClosesAt(q, j, n))
  BY <1>1 DEF ClosesAt
<1>4. (\A j \in 1 .. i - 1 : r[j].type = "output_item.added" => r[j].index < q[i].index)
        <=> (\A j \in 1 .. i - 1 : q[j].type = "output_item.added" => q[j].index < q[i].index)
  BY <1>1
<1>5. (\A j \in 1 .. i - 1 : r[j].type \in FinalTypes => r[j].index # q[i].index)
        <=> (\A j \in 1 .. i - 1 : q[j].type \in FinalTypes => q[j].index # q[i].index)
  BY <1>1
<1> HIDE DEF FinalTypes, PartTypes, DeltaTypes
<1> QED BY <1>1, <1>2, <1>3, <1>4, <1>5, Zenon DEF MayFollow

LEMMA ValidPush ==
  ASSUME NEW q \in Seq(FrameSet), Valid(q), Open(q), NEW f \in FrameSet,
         f.type \notin FinalTypes \cup {"response.completed"},
         MayFollow(Append(q, f), Len(q) + 1), IsNumbered(Append(q, f), Len(q) + 1)
  PROVE  Valid(Append(q, f)) /\ Open(Append(q, f))
<1> DEFINE r == Append(q, f)
<1>1. /\ Len(q) \in Nat /\ Len(r) = Len(q) + 1 /\ r[Len(q) + 1] = f
      /\ \A i \in 1 .. Len(q) : r[i] = q[i]
  OBVIOUS
<1>2. MayFollow(r, Len(q) + 1) /\ IsNumbered(r, Len(q) + 1)
  OBVIOUS
<1> HIDE DEF r
<1>3. Open(r)
  BY <1>1 DEF Open
<1>4. ASSUME NEW i \in 1 .. Len(r)
      PROVE  MayFollow(r, i) /\ IsNumbered(r, i) /\ Repeats(r, i)
  <2>1. Repeats(r, i)
    BY <1>3 DEF Open, Repeats
  <2>2. CASE i = Len(q) + 1
    BY <1>2, <2>1, <2>2
  <2>3. CASE i \in 1 .. Len(q)
    <3>1. i \in Nat /\ i >= 1 /\ \A j \in 1 .. i : r[j] = q[j]
      BY <1>1, <2>3
    <3>2. q[i].type # "response.completed" /\ MayFollow(q, i) /\ IsNumbered(q, i)
      BY <2>3 DEF Open, Valid
    <3>3. MayFollow(r, i)
      BY <3>1, <3>2, MayFollowSame
    <3>4. r[1] = q[1] /\ r[i] = q[i]
      BY <3>1
    <3>5. IsNumbered(r, i)
      BY <3>2, <3>4 DEF IsNumbered
    <3> QED BY <2>1, <3>3, <3>5
  <2> QED BY <1>1, <2>2, <2>3
<1> QED BY <1>3, <1>4 DEF Valid, r

LEMMA ValidHasDeltas ==
  ASSUME NEW q \in Seq(FrameSet), Valid(q)
  PROVE  HasDeltas(q)
<1> SUFFICES ASSUME NEW i \in 1 .. Len(q), q[i].type \in DeltaTypes PROVE q[i] \in Delta
  BY DEF HasDeltas
<1>1. \E p \in Pieces : q[i].content = <<p>>
  BY DEF Valid, MayFollow
<1> QED BY <1>1 DEF Delta

\* Whatever is final stays so when the stream goes on.
LEMMA FinalStays ==
  ASSUME NEW r \in Seq(FrameSet), Valid(r), NEW i \in 1 .. Len(r), r[i].type \in FinalTypes
  PROVE  NoDelta(r, r[i].index, i)
<1> SUFFICES ASSUME NEW j \in 1 .. Len(r), j > i, r[j].type \in DeltaTypes PROVE r[j].index # r[i].index
  BY DEF NoDelta
<1>1. MayFollow(r, j)
  BY DEF Valid
<1>2. i \in 1 .. j - 1
  OBVIOUS
<1> QED BY <1>1, <1>2 DEF MayFollow

LEMMA ValidPrefix ==
  ASSUME NEW q \in Seq(FrameSet), NEW r \in Seq(FrameSet), Extends(r, q), Valid(r)
  PROVE  Valid(q)
<1> SUFFICES ASSUME NEW i \in 1 .. Len(q) PROVE MayFollow(q, i) /\ IsNumbered(q, i) /\ Repeats(q, i)
  BY DEF Valid
<1>1. Len(q) \in Nat /\ Len(r) \in Nat /\ i \in 1 .. Len(r) /\ r[i] = q[i] /\ r[1] = q[1]
      /\ i \in Nat /\ i >= 1 /\ \A j \in 1 .. i : r[j] = q[j]
  BY DEF Extends
<1>2. MayFollow(r, i) /\ IsNumbered(r, i) /\ Repeats(r, i)
  BY <1>1 DEF Valid
<1>3. CASE q[i].type = "response.completed"
  <2>1. i = Len(r)
    BY <1>1, <1>2, <1>3 DEF MayFollow
  <2>2. Len(q) = Len(r) /\ \A j \in 1 .. Len(q) : q[j] = r[j]
    BY <1>1, <2>1 DEF Extends
  <2>3. q = r
    BY <2>2, SeqEqual, Zenon
  <2> QED BY <1>2, <2>3
<1>4. CASE q[i].type # "response.completed"
  <2>1. MayFollow(q, i)
    BY <1>1, <1>2, <1>4, MayFollowSame
  <2>2. IsNumbered(q, i)
    BY <1>1, <1>2 DEF IsNumbered
  <2>3. ASSUME q[i].type \in FinalTypes PROVE q[i].content = Said(q, q[i].index)
    <3>1. q[i].content = Said(r, q[i].index)
      BY <1>1, <1>2, <2>3 DEF Repeats
    <3>2. NoDelta(r, q[i].index, i)
      BY <1>1, <2>3, FinalStays
    <3>3. NoDelta(r, q[i].index, Len(q))
      BY <1>1, <3>2 DEF NoDelta
    <3>4. Said(r, q[i].index) = Said(q, q[i].index)
      BY <3>3, SaidSame
    <3> QED BY <3>1, <3>4
  <2> QED BY <1>4, <2>1, <2>2, <2>3 DEF Repeats
<1> QED BY <1>3, <1>4

-----------------------------------------------------------------------------
(* The items of a valid stream *)

AddedTo(q, m) == {j \in 1 .. m : q[j].type = "output_item.added"}
IndicesTo(q, m) == {q[j].index + 1 : j \in AddedTo(q, m)}

Grows(q, m, n) ==
  /\ q[m].type # "output_item.added" => IndicesTo(q, m) = 1 .. n
  /\ q[m].type = "output_item.added" => q[m].index = n /\ IndicesTo(q, m) = 1 .. n + 1

LEMMA IndicesGrow ==
  ASSUME NEW q \in Seq(FrameSet), Valid(q), NEW m \in 1 .. Len(q), NEW n \in Nat,
         IndicesTo(q, m - 1) = 1 .. n
  PROVE  Grows(q, m, n)
<1>1. m \in Nat /\ m - 1 \in Nat /\ MayFollow(q, m)
  BY DEF Valid
<1>2. q[m].type # "output_item.added" => AddedTo(q, m) = AddedTo(q, m - 1)
  BY <1>1 DEF AddedTo
<1>3. ASSUME q[m].type = "output_item.added"
      PROVE  q[m].index = n /\ IndicesTo(q, m) = 1 .. n + 1
  <2>1. q[m].index \in Nat
    BY <1>1, <1>3 DEF MayFollow
  <2>2. ~(q[m].index < n)
    <3> SUFFICES ASSUME q[m].index < n PROVE FALSE
      OBVIOUS
    <3>1. q[m].index + 1 \in IndicesTo(q, m - 1)
      BY <2>1
    <3>2. PICK j \in AddedTo(q, m - 1) : q[j].index + 1 = q[m].index + 1
      BY <3>1 DEF IndicesTo
    <3>3. q[j].index < q[m].index
      BY <1>1, <1>3 DEF MayFollow, AddedTo
    <3>4. q[j].index \in Nat
      <4>1. MayFollow(q, j) /\ q[j].type = "output_item.added"
        BY <1>1 DEF Valid, AddedTo
      <4> QED BY <4>1 DEF MayFollow
    <3> QED BY <2>1, <3>2, <3>3, <3>4
  <2>3. ~(q[m].index > n)
    <3> SUFFICES ASSUME q[m].index > n PROVE FALSE
      OBVIOUS
    <3>1. n \in 0 .. q[m].index - 1
      BY <2>1
    <3>2. PICK j \in 1 .. m - 1 : Adds(q, j, n)
      BY <1>1, <1>3, <3>1 DEF MayFollow
    <3>3. n + 1 \in IndicesTo(q, m - 1)
      BY <3>2 DEF Adds, IndicesTo, AddedTo
    <3> QED BY <3>3
  <2>4. q[m].index = n
    BY <2>1, <2>2, <2>3
  <2>5. AddedTo(q, m) = AddedTo(q, m - 1) \cup {m}
    BY <1>1, <1>3 DEF AddedTo
  <2>6. IndicesTo(q, m) = IndicesTo(q, m - 1) \cup {n + 1}
    BY <2>4, <2>5 DEF IndicesTo
  <2>7. (1 .. n) \cup {n + 1} = 1 .. n + 1
    OBVIOUS
  <2> QED BY <2>4, <2>6, <2>7
<1> QED BY <1>2, <1>3 DEF IndicesTo, Grows

\* The items are numbered from 0 without a gap.
LEMMA IndicesInterval ==
  ASSUME NEW q \in Seq(FrameSet), Valid(q), NEW m \in 0 .. Len(q)
  PROVE  \E n \in Nat : IndicesTo(q, m) = 1 .. n
<1> DEFINE Other == {k \in 0 .. Len(q) : ~\E n \in Nat : IndicesTo(q, k) = 1 .. n}
<1> SUFFICES ASSUME Other # {} PROVE FALSE
  OBVIOUS
<1>1. Other \in SUBSET Nat
  OBVIOUS
<1>2. PICK k \in Other : \A j \in Other : k <= j
  <2> HIDE DEF Other
  <2> QED BY <1>1, HasLeast
<1>3. IndicesTo(q, 0) = 1 .. 0
  BY DEF IndicesTo, AddedTo
<1>4. k # 0
  BY <1>2, <1>3
<1>5. k \in 1 .. Len(q) /\ k - 1 \in 0 .. Len(q) /\ k - 1 \notin Other
  <2>1. k \in 0 .. Len(q) /\ Len(q) \in Nat
    BY <1>2
  <2>2. k - 1 \notin Other
    BY <1>1, <1>2
  <2> QED BY <1>4, <2>1, <2>2
<1>6. PICK n \in Nat : IndicesTo(q, k - 1) = 1 .. n
  BY <1>5
<1>7. IndicesTo(q, k) = 1 .. n \/ IndicesTo(q, k) = 1 .. n + 1
  BY <1>5, <1>6, IndicesGrow DEF Grows
<1> QED BY <1>2, <1>6, <1>7

LEMMA IndicesAre ==
  ASSUME NEW q \in Seq(FrameSet)
  PROVE  Indices(q) = IndicesTo(q, Len(q))
BY DEF Indices, IndicesTo, AddedTo

\* An item is announced once.
LEMMA AddedOnce ==
  ASSUME NEW q \in Seq(FrameSet), Valid(q), NEW i \in AddedTo(q, Len(q)), NEW j \in AddedTo(q, Len(q)),
         q[i].index = q[j].index
  PROVE  i = j
<1> SUFFICES ASSUME i # j PROVE FALSE
  OBVIOUS
<1>1. /\ i \in 1 .. Len(q) /\ j \in 1 .. Len(q) /\ q[i].type = "output_item.added"
      /\ q[j].type = "output_item.added" /\ MayFollow(q, i) /\ MayFollow(q, j)
  BY DEF AddedTo, Valid
<1>2. q[i].index \in Nat
  BY <1>1 DEF MayFollow
<1>3. CASE i < j
  <2>1. i \in 1 .. j - 1
    BY <1>1, <1>3
  <2>2. q[i].index < q[j].index
    BY <1>1, <2>1 DEF MayFollow
  <2> QED BY <1>2, <2>2
<1>4. CASE j < i
  <2>1. j \in 1 .. i - 1
    BY <1>1, <1>4
  <2>2. q[j].index < q[i].index
    BY <1>1, <2>1 DEF MayFollow
  <2> QED BY <1>2, <2>2
<1> QED BY <1>1, <1>3, <1>4

LEMMA KindIs ==
  ASSUME NEW q \in Seq(FrameSet), Valid(q), NEW i \in AddedTo(q, Len(q))
  PROVE  KindOf(q, q[i].index) = q[i].kind
<1> DEFINE n == q[i].index
           A == {k \in DOMAIN q : q[k].type \in {"output_item.added"}}
           c == CHOOSE j \in A : q[j].index = n
<1>1. A = AddedTo(q, Len(q))
  BY DEF AddedTo
<1>2. i \in A /\ q[i].index = n
  BY <1>1
<1>3. c \in A /\ q[c].index = n
  BY <1>2
<1> HIDE DEF c
<1>4. c = i
  <2> HIDE DEF A, n
  <2>1. c \in AddedTo(q, Len(q)) /\ q[c].index = q[i].index
    BY <1>1, <1>2, <1>3
  <2> QED BY <2>1, AddedOnce
<1> QED BY <1>4 DEF KindOf, c

IsOpen(q, n) == \A i \in {j \in DOMAIN q : q[j].type \in {"output_item.done"}} : q[i].index # n
ItemOf(q, n) == [kind |-> KindOf(q, n), content |-> Said(q, n), open |-> IsOpen(q, n)]
ItemsOf(q) == [n \in Indices(q) |-> ItemOf(q, n - 1)]
ItemSet == [kind : {"message", "function_call"}, content : Seq(Pieces), open : BOOLEAN]
Holds(q, type) == \E i \in DOMAIN q : q[i].type = type
StatusOf(q) ==
  IF Holds(q, "response.completed") THEN "completed"
  ELSE IF Holds(q, "response.created") THEN "in_progress" ELSE "none"

LEMMA ItemsType ==
  ASSUME NEW q \in Seq(FrameSet), Valid(q), NEW n \in Nat, Indices(q) = 1 .. n
  PROVE  ItemsOf(q) \in Seq(ItemSet) /\ Len(ItemsOf(q)) = n
<1>1. ASSUME NEW k \in 1 .. n PROVE ItemOf(q, k - 1) \in ItemSet
  <2>1. k \in IndicesTo(q, Len(q))
    BY IndicesAre
  <2>2. PICK i \in AddedTo(q, Len(q)) : k = q[i].index + 1
    BY <2>1 DEF IndicesTo
  <2>3. MayFollow(q, i) /\ q[i].type = "output_item.added"
    BY DEF Valid, AddedTo
  <2>4. q[i].index \in Nat /\ q[i].kind \in {"message", "function_call"}
    BY <2>3 DEF MayFollow
  <2>5. k - 1 = q[i].index
    BY <2>2, <2>4
  <2>6. KindOf(q, k - 1) \in {"message", "function_call"}
    BY <2>4, <2>5, KindIs
  <2>7. Said(q, k - 1) \in Seq(Pieces)
    BY SaidType, ValidHasDeltas
  <2>8. IsOpen(q, k - 1) \in BOOLEAN
    BY DEF IsOpen
  <2> QED BY <2>6, <2>7, <2>8 DEF ItemOf, ItemSet
<1>2. ItemsOf(q) \in [1 .. n -> ItemSet]
  BY <1>1 DEF ItemsOf
<1> HIDE DEF ItemSet
<1> QED BY <1>2

\* What one frame does to the client, in the terms of ResponsesLifecycle.
StepOf(p, r) ==
  \/ StatusOf(p) = "none" /\ StatusOf(r) = "in_progress" /\ ItemsOf(r) = ItemsOf(p)
  \/ /\ StatusOf(p) = "in_progress" /\ StatusOf(r) = "in_progress"
     /\ \/ \E kind \in {"message", "function_call"} :
             ItemsOf(r) = Append(ItemsOf(p), [kind |-> kind, content |-> <<>>, open |-> TRUE])
        \/ \E i \in DOMAIN ItemsOf(p) :
             /\ ItemsOf(p)[i].open
             /\ \/ ItemsOf(r) = ItemsOf(p)
                \/ ItemsOf(r) = [ItemsOf(p) EXCEPT ![i].open = FALSE]
                \/ \E piece \in Pieces :
                     ItemsOf(r) = [ItemsOf(p) EXCEPT ![i].content = Append(@, piece)]
  \/ /\ StatusOf(p) = "in_progress" /\ StatusOf(r) = "completed" /\ ItemsOf(r) = ItemsOf(p)
     /\ \A i \in DOMAIN ItemsOf(p) : ~ItemsOf(p)[i].open

\* Everything a step depends on: r is p and the frame f.
Appended(p, f, r) ==
  /\ r \in Seq(FrameSet) /\ Len(p) \in Nat /\ Len(r) = Len(p) + 1
  /\ DOMAIN p = 1 .. Len(p) /\ DOMAIN r = 1 .. Len(p) + 1
  /\ r[Len(p) + 1] = f /\ \A i \in 1 .. Len(p) : r[i] = p[i]
  /\ Extends(r, p) /\ Valid(p)
  /\ \A i \in 1 .. Len(p) : p[i].type # "response.completed" /\ MayFollow(r, i) /\ MayFollow(p, i)
  /\ MayFollow(r, Len(p) + 1)

LEMMA AppendedFrame ==
  ASSUME NEW p \in Seq(FrameSet), NEW f \in FrameSet, NEW r, r = Append(p, f), Valid(r)
  PROVE  Appended(p, f, r)
<1>1. /\ r \in Seq(FrameSet) /\ Len(p) \in Nat /\ Len(r) = Len(p) + 1
      /\ DOMAIN p = 1 .. Len(p) /\ DOMAIN r = 1 .. Len(p) + 1
      /\ r[Len(p) + 1] = f /\ \A i \in 1 .. Len(p) : r[i] = p[i]
  OBVIOUS
<1>2. Extends(r, p)
  BY <1>1 DEF Extends
<1>3. Valid(p)
  BY <1>1, <1>2, ValidPrefix
<1>4. \A i \in 1 .. Len(r) : MayFollow(r, i)
  BY DEF Valid
<1>5. ASSUME NEW i \in 1 .. Len(p)
      PROVE  p[i].type # "response.completed" /\ MayFollow(r, i) /\ MayFollow(p, i)
  <2>1. i \in 1 .. Len(r) /\ i # Len(r) /\ r[i] = p[i]
    BY <1>1
  <2>2. p[i].type # "response.completed"
    BY <1>4, <2>1 DEF MayFollow
  <2> QED BY <1>3, <1>4, <2>1, <2>2 DEF Valid
<1>6. MayFollow(r, Len(p) + 1)
  BY <1>1, <1>4
<1> QED BY <1>1, <1>2, <1>3, <1>5, <1>6 DEF Appended

LEMMA StatusStep ==
  ASSUME NEW p \in Seq(FrameSet), NEW f \in FrameSet, NEW r, r = Append(p, f), Valid(r)
  PROVE  /\ Len(p) = 0 => /\ StatusOf(p) = "none" /\ StatusOf(r) = "in_progress"
                          /\ f.type = "response.created"
         /\ Len(p) # 0 => /\ StatusOf(p) = "in_progress" /\ f.type # "response.created"
                          /\ StatusOf(r) = IF f.type = "response.completed" THEN "completed" ELSE "in_progress"
<1>1. /\ Len(p) \in Nat /\ DOMAIN p = 1 .. Len(p) /\ DOMAIN r = 1 .. Len(p) + 1
      /\ r[Len(p) + 1] = f /\ \A i \in 1 .. Len(p) : r[i] = p[i]
      /\ \A i \in 1 .. Len(p) : p[i].type # "response.completed" /\ MayFollow(r, i)
      /\ MayFollow(r, Len(p) + 1)
  <2>1. Appended(p, f, r)
    BY AppendedFrame, Zenon
  <2> QED BY <2>1, Zenon DEF Appended
<1>2. CASE Len(p) = 0
  <2>1. f.type = "response.created"
    BY <1>1, <1>2 DEF MayFollow
  <2> QED BY <1>1, <1>2, <2>1 DEF StatusOf, Holds
<1>3. CASE Len(p) # 0
  <2>1. 1 \in 1 .. Len(p) /\ Len(p) + 1 # 1
    BY <1>1, <1>3
  <2>2. p[1].type = "response.created" /\ f.type # "response.created"
    <3>1. MayFollow(r, 1) /\ r[1] = p[1]
      BY <1>1, <2>1
    <3>2. r[1].type = "response.created"
      BY <3>1 DEF MayFollow
    <3>3. r[Len(p) + 1].type # "response.created"
      BY <1>1, <2>1 DEF MayFollow
    <3> QED BY <1>1, <3>1, <3>2, <3>3
  <2>3. StatusOf(p) = "in_progress"
    BY <1>1, <2>1, <2>2 DEF StatusOf, Holds
  <2>4. f.type = "response.completed" <=> Holds(r, "response.completed")
    BY <1>1 DEF Holds
  <2>5. Holds(r, "response.created")
    <3>1. 1 \in DOMAIN r /\ r[1].type = "response.created"
      BY <1>1, <2>1, <2>2
    <3> QED BY <3>1 DEF Holds
  <2> QED BY <1>3, <2>2, <2>3, <2>4, <2>5 DEF StatusOf
<1> QED BY <1>2, <1>3

\* Three observations of a stream after one more frame.
LEMMA KindStays ==
  ASSUME NEW p \in Seq(FrameSet), NEW f \in FrameSet, NEW r, r = Append(p, f), Valid(r),
         NEW k \in Indices(p)
  PROVE  k \in Indices(r) /\ KindOf(r, k - 1) = KindOf(p, k - 1)
<1>1. /\ r \in Seq(FrameSet) /\ Len(p) \in Nat /\ Len(r) = Len(p) + 1 /\ Valid(p)
      /\ \A i \in 1 .. Len(p) : r[i] = p[i] /\ MayFollow(p, i)
  <2>1. Appended(p, f, r)
    BY AppendedFrame, Zenon
  <2> QED BY <2>1, Zenon DEF Appended
<1>2. PICK i \in AddedTo(p, Len(p)) : k = p[i].index + 1
  BY IndicesAre DEF IndicesTo
<1>3. i \in 1 .. Len(p) /\ i \in AddedTo(r, Len(r)) /\ r[i] = p[i] /\ p[i].type = "output_item.added"
  BY <1>1, <1>2 DEF AddedTo
<1>4. p[i].index \in Nat
  BY <1>1, <1>3 DEF MayFollow
<1>5. k - 1 = p[i].index
  BY <1>2, <1>4
<1>6. KindOf(p, p[i].index) = p[i].kind /\ KindOf(r, r[i].index) = r[i].kind
  BY <1>1, <1>2, <1>3, KindIs
<1>7. k \in IndicesTo(r, Len(r))
  BY <1>2, <1>3 DEF IndicesTo
<1> QED BY <1>1, <1>3, <1>5, <1>6, <1>7, IndicesAre

LEMMA SaidStays ==
  ASSUME NEW p \in Seq(FrameSet), NEW f \in FrameSet, NEW r, r = Append(p, f), NEW n,
         ~(f.type \in DeltaTypes /\ f.index = n)
  PROVE  Said(r, n) = Said(p, n)
<1>1. /\ r \in Seq(FrameSet) /\ Len(p) \in Nat /\ Len(r) = Len(p) + 1
      /\ r[Len(p) + 1] = f /\ \A i \in 1 .. Len(p) : r[i] = p[i]
  OBVIOUS
<1>2. Extends(r, p) /\ NoDelta(r, n, Len(p))
  BY <1>1 DEF Extends, NoDelta
<1> QED BY <1>1, <1>2, SaidSame

LEMMA OpenStays ==
  ASSUME NEW p \in Seq(FrameSet), NEW f \in FrameSet, NEW r, r = Append(p, f), NEW n
  PROVE  IsOpen(r, n) <=> IsOpen(p, n) /\ ~(f.type = "output_item.done" /\ f.index = n)
<1>1. /\ Len(p) \in Nat /\ DOMAIN p = 1 .. Len(p) /\ DOMAIN r = 1 .. Len(p) + 1
      /\ r[Len(p) + 1] = f /\ \A i \in 1 .. Len(p) : r[i] = p[i]
  OBVIOUS
<1> QED BY <1>1 DEF IsOpen

\* Every frame of a valid stream makes the client take a step it may expect.
LEMMA EveryFrameIsAStep ==
  ASSUME NEW p \in Seq(FrameSet), NEW f \in FrameSet, NEW r, r = Append(p, f), Valid(r)
  PROVE  StepOf(p, r)
<1>0. Appended(p, f, r)
  BY AppendedFrame, Zenon
<1>1. /\ r \in Seq(FrameSet) /\ Len(p) \in Nat /\ Len(r) = Len(p) + 1 /\ Valid(p)
      /\ r[Len(p) + 1] = f /\ MayFollow(r, Len(p) + 1)
  BY <1>0, Zenon DEF Appended
<1>2. \A i \in 1 .. Len(p) : r[i] = p[i] /\ MayFollow(p, i)
  BY <1>0, Zenon DEF Appended
<1>3. PICK n \in Nat : IndicesTo(p, Len(p)) = 1 .. n
  BY <1>1, IndicesInterval
<1>4. Indices(p) = 1 .. n
  BY <1>3, IndicesAre
<1>5. IndicesTo(r, Len(p)) = 1 .. n
  <2>1. AddedTo(r, Len(p)) = AddedTo(p, Len(p))
    BY <1>2 DEF AddedTo
  <2>2. \A j \in AddedTo(p, Len(p)) : r[j] = p[j]
    BY <1>2 DEF AddedTo
  <2> QED BY <1>3, <2>1, <2>2 DEF IndicesTo
<1>6. /\ f.type # "output_item.added" => Indices(r) = 1 .. n
      /\ f.type = "output_item.added" => f.index = n /\ Indices(r) = 1 .. n + 1
  <2>0. Indices(r) = IndicesTo(r, Len(r))
    BY <1>1, IndicesAre, Zenon
  <2>1. PICK m \in 1 .. Len(r) : m = Len(p) + 1 /\ m - 1 = Len(p)
    BY <1>1
  <2>2. IndicesTo(r, m - 1) = 1 .. n /\ r[m] = f /\ Indices(r) = IndicesTo(r, m)
        /\ m \in 1 .. Len(r)
    BY <1>1, <1>5, <2>0, <2>1
  <2>3. r \in Seq(FrameSet) /\ Valid(r)
    BY <1>1
  <2>4. Grows(r, m, n)
    BY <1>3, <2>2, <2>3, IndicesGrow, Zenon
  <2> QED BY <2>2, <2>4 DEF Grows
<1>7. ItemsOf(p) = [k \in 1 .. n |-> ItemOf(p, k - 1)]
  BY <1>4 DEF ItemsOf
<1>8. f.type # "output_item.added" => ItemsOf(r) = [k \in 1 .. n |-> ItemOf(r, k - 1)]
  BY <1>6 DEF ItemsOf
<1>9. \A k \in 1 .. n : KindOf(r, k - 1) = KindOf(p, k - 1)
  BY <1>4, KindStays
<1>10. \A k \in 1 .. n : ~(f.type \in DeltaTypes /\ f.index = k - 1) => Said(r, k - 1) = Said(p, k - 1)
  BY SaidStays
<1>11. \A k \in 1 .. n :
         IsOpen(r, k - 1) <=> IsOpen(p, k - 1) /\ ~(f.type = "output_item.done" /\ f.index = k - 1)
  BY OpenStays
<1>12. \A k \in 1 .. n : IsOpen(r, k - 1) \in BOOLEAN /\ IsOpen(p, k - 1) \in BOOLEAN
  BY DEF IsOpen
\* A frame that neither announces, extends nor closes leaves the items alone.
<1>13. f.type \notin {"output_item.added", "output_item.done"} \cup DeltaTypes => ItemsOf(r) = ItemsOf(p)
  <2> SUFFICES ASSUME f.type \notin {"output_item.added", "output_item.done"} \cup DeltaTypes
               PROVE  ItemsOf(r) = ItemsOf(p)
    OBVIOUS
  <2>1. ASSUME NEW k \in 1 .. n PROVE ItemOf(r, k - 1) = ItemOf(p, k - 1)
    <3>1. KindOf(r, k - 1) = KindOf(p, k - 1) /\ Said(r, k - 1) = Said(p, k - 1)
      BY <1>9, <1>10
    <3>2. IsOpen(r, k - 1) = IsOpen(p, k - 1)
      BY <1>11, <1>12
    <3> QED BY <3>1, <3>2 DEF ItemOf
  <2> QED BY <1>7, <1>8, <2>1
<1>14. CASE Len(p) = 0
  <2>1. StatusOf(p) = "none" /\ StatusOf(r) = "in_progress" /\ f.type = "response.created"
    BY <1>14, StatusStep, Zenon
  <2>2. ItemsOf(r) = ItemsOf(p)
    BY <1>13, <2>1 DEF DeltaTypes
  <2> QED BY <2>1, <2>2, Zenon DEF StepOf
<1>15. ASSUME Len(p) # 0 PROVE StepOf(p, r)
  <2>1. /\ StatusOf(p) = "in_progress" /\ f.type # "response.created"
        /\ StatusOf(r) = IF f.type = "response.completed" THEN "completed" ELSE "in_progress"
    BY <1>15, StatusStep, Zenon
  <2>2. f.type \in Types
    BY DEF FrameSet
  <2>3. ASSUME f.type \in DeltaTypes \cup PartTypes
        PROVE  /\ f.index + 1 \in 1 .. n /\ f.index + 1 \in DOMAIN ItemsOf(p) /\ f.index + 1 - 1 = f.index
               /\ f.index \in Nat /\ IsOpen(p, f.index) /\ ItemsOf(p)[f.index + 1].open
    <3>1. PICK j \in 1 .. Len(p) : Adds(r, j, f.index)
      <4>1. (Len(p) + 1) - 1 = Len(p)
        BY <1>1
      <4> QED BY <1>1, <2>3, <4>1 DEF MayFollow
    <3>2. p[j].type = "output_item.added" /\ p[j].index = f.index
      BY <1>2, <3>1 DEF Adds
    <3>3. f.index \in Nat
      BY <1>2, <3>2 DEF MayFollow
    <3>4. f.index + 1 \in 1 .. n
      BY <1>3, <3>2 DEF IndicesTo, AddedTo
    <3>5. \A i \in 1 .. Len(p) : ~ClosesAt(r, i, f.index)
      <4>1. (Len(p) + 1) - 1 = Len(p)
        BY <1>1
      <4> QED BY <1>1, <2>3, <4>1 DEF MayFollow
    <3>6. DOMAIN p = 1 .. Len(p)
      OBVIOUS
    <3>7. IsOpen(p, f.index)
      BY <1>2, <3>5, <3>6 DEF IsOpen, ClosesAt
    <3>8. f.index + 1 - 1 = f.index
      BY <3>3
    <3>9. ItemsOf(p)[f.index + 1].open
      <4>1. ItemsOf(p)[f.index + 1] = ItemOf(p, f.index)
        <5>1. \A k \in 1 .. n : ItemsOf(p)[k] = ItemOf(p, k - 1)
          BY <1>7
        <5>2. PICK m \in 1 .. n : m = f.index + 1 /\ m - 1 = f.index
          BY <3>3, <3>4
        <5>3. ItemsOf(p)[m] = ItemOf(p, m - 1)
          BY <5>1, <5>2
        <5> QED BY <5>2, <5>3
      <4> QED BY <3>7, <4>1 DEF ItemOf
    <3> QED BY <1>7, <3>3, <3>4, <3>7, <3>8, <3>9
  <2>4. CASE f.type = "output_item.added"
    <3>1. f.index = n /\ Indices(r) = 1 .. n + 1 /\ f.kind \in {"message", "function_call"}
      BY <1>1, <1>6, <2>4 DEF MayFollow
    <3> DEFINE new == [kind |-> f.kind, content |-> <<>>, open |-> TRUE]
    <3>2. ItemsOf(p) \in Seq(ItemSet) /\ Len(ItemsOf(p)) = n
      BY <1>1, <1>4, ItemsType
    <3>3. \A k \in 1 .. n : ItemOf(r, k - 1) = ItemOf(p, k - 1)
      <4> SUFFICES ASSUME NEW k \in 1 .. n PROVE ItemOf(r, k - 1) = ItemOf(p, k - 1)
        OBVIOUS
      <4>1. KindOf(r, k - 1) = KindOf(p, k - 1) /\ Said(r, k - 1) = Said(p, k - 1)
        BY <1>9, <1>10, <2>4 DEF DeltaTypes
      <4>2. IsOpen(r, k - 1) = IsOpen(p, k - 1)
        BY <1>11, <1>12, <2>4
      <4> QED BY <4>1, <4>2 DEF ItemOf
    <3>4. ItemOf(r, n) = new
      <4>1. Len(p) + 1 \in AddedTo(r, Len(r))
        BY <1>1, <2>4 DEF AddedTo
      <4>2. KindOf(r, n) = f.kind
        BY <1>1, <3>1, <4>1, KindIs
      \* No earlier frame is about the new item.
      <4>3. \A i \in 1 .. Len(p) : p[i].type \in DeltaTypes \cup PartTypes => p[i].index # n
        <5> SUFFICES ASSUME NEW i \in 1 .. Len(p), p[i].type \in DeltaTypes \cup PartTypes, p[i].index = n
                     PROVE  FALSE
          OBVIOUS
        <5>1. PICK j \in 1 .. i - 1 : Adds(p, j, n)
          BY <1>2 DEF MayFollow
        <5>2. j \in AddedTo(p, Len(p)) /\ p[j].index = n
          BY <1>1, <5>1 DEF Adds, AddedTo
        <5>3. n + 1 \in IndicesTo(p, Len(p))
          BY <5>2 DEF IndicesTo
        <5> QED BY <1>3, <5>3
      <4>4. Said(p, n) = <<>>
        <5>1. NoDelta(p, n, 0)
          BY <4>3 DEF NoDelta
        <5> QED BY <5>1, SaidNone
      <4>5. Said(r, n) = <<>>
        <5>1. f.type \notin DeltaTypes
          BY <2>4 DEF DeltaTypes
        <5>2. ~(f.type \in DeltaTypes /\ f.index = n)
          BY <5>1
        <5>3. Said(r, n) = Said(p, n)
          BY <5>2, SaidStays, Zenon
        <5> QED BY <4>4, <5>3
      <4>6. IsOpen(p, n)
        <5>1. DOMAIN p = 1 .. Len(p)
          OBVIOUS
        <5> QED BY <4>3, <5>1 DEF IsOpen, PartTypes
      <4>7. IsOpen(r, n)
        BY <2>4, <4>6, OpenStays
      <4> QED BY <4>2, <4>5, <4>7 DEF ItemOf
    <3>5. ItemsOf(r) = [k \in 1 .. n + 1 |-> IF k = n + 1 THEN new ELSE ItemsOf(p)[k]]
      <4>1. ItemsOf(r) = [k \in 1 .. n + 1 |-> ItemOf(r, k - 1)]
        BY <3>1 DEF ItemsOf
      <4>2. \A k \in 1 .. n + 1 : ItemOf(r, k - 1) = IF k = n + 1 THEN new ELSE ItemsOf(p)[k]
        <5> SUFFICES ASSUME NEW k \in 1 .. n + 1
                     PROVE  ItemOf(r, k - 1) = IF k = n + 1 THEN new ELSE ItemsOf(p)[k]
          OBVIOUS
        <5> HIDE DEF new
        <5>1. CASE k = n + 1
          <6>1. k - 1 = n
            BY <5>1
          <6> QED BY <3>4, <5>1, <6>1
        <5>2. CASE k # n + 1
          <6>1. k \in 1 .. n
            BY <5>2
          <6> QED BY <1>7, <3>3, <5>2, <6>1
        <5> QED BY <5>1, <5>2
      <4> HIDE DEF new
      <4> QED BY <4>1, <4>2
    <3>6. new \in ItemSet
      <4>1. <<>> \in Seq(Pieces)
        OBVIOUS
      <4> QED BY <3>1, <4>1 DEF ItemSet
    <3> HIDE DEF new, ItemSet
    <3>7. ItemsOf(r) = Append(ItemsOf(p), new)
      <4> DEFINE it == ItemsOf(p)
      <4>1. it \in Seq(ItemSet) /\ Len(it) = n /\ ItemsOf(r) = [k \in 1 .. n + 1 |-> IF k = n + 1 THEN new ELSE it[k]]
        BY <3>2, <3>5
      <4> HIDE DEF it
      <4>2. Append(it, new) = [k \in 1 .. n + 1 |-> IF k = n + 1 THEN new ELSE it[k]]
        <5>1. Append(it, new) \in Seq(ItemSet) /\ Len(Append(it, new)) = n + 1
              /\ Append(it, new)[n + 1] = new /\ \A k \in 1 .. n : Append(it, new)[k] = it[k]
          BY <3>6, <4>1, AppendProperties
        <5> DEFINE a == Append(it, new)
        <5> HIDE DEF a
        <5>a. a \in Seq(ItemSet) /\ Len(a) = n + 1
          BY <5>1 DEF a
        <5>2. a = [k \in 1 .. n + 1 |-> a[k]]
          BY <5>a
        <5>3. \A k \in 1 .. n + 1 : a[k] = IF k = n + 1 THEN new ELSE it[k]
          BY <5>1 DEF a
        <5> QED BY <5>2, <5>3 DEF a
      <4> QED BY <4>1, <4>2 DEF it
    <3>8. StatusOf(r) = "in_progress"
      BY <2>1, <2>4
    <3> QED BY <2>1, <3>1, <3>7, <3>8, Zenon DEF StepOf, new
  <2>5. CASE f.type \in DeltaTypes
    <3>1. /\ f.index + 1 \in 1 .. n /\ f.index + 1 \in DOMAIN ItemsOf(p) /\ f.index + 1 - 1 = f.index
          /\ f.index \in Nat /\ ItemsOf(p)[f.index + 1].open
      BY <2>3, <2>5
    <3>2. PICK piece \in Pieces : f.content = <<piece>>
      BY <1>1, <2>5 DEF MayFollow
    <3>3. Said(r, f.index) = Append(Said(p, f.index), piece)
      BY <1>1, <2>5, <3>2, SaidNext, ValidHasDeltas
    <3>4. f.type # "output_item.added" /\ f.type # "output_item.done" /\ f.type # "response.completed"
      BY <2>5 DEF DeltaTypes
    <3> DEFINE m == f.index + 1
    <3>5. ASSUME NEW k \in 1 .. n
          PROVE  ItemOf(r, k - 1) = IF k = m THEN [ItemOf(p, k - 1) EXCEPT !.content = Append(@, piece)]
                                    ELSE ItemOf(p, k - 1)
      <4>1. IsOpen(r, k - 1) = IsOpen(p, k - 1) /\ KindOf(r, k - 1) = KindOf(p, k - 1)
        BY <1>9, <1>11, <1>12, <3>4
      <4>2. CASE k = m
        <5>1. k - 1 = f.index
          BY <3>1, <4>2
        <5> QED BY <3>3, <4>1, <4>2, <5>1 DEF ItemOf
      <4>3. CASE k # m
        <5>1. f.index # k - 1
          BY <3>1, <4>3
        <5>2. Said(r, k - 1) = Said(p, k - 1)
          BY <1>10, <5>1
        <5> QED BY <4>1, <4>3, <5>2 DEF ItemOf
      <4> QED BY <4>2, <4>3
    <3>6. ItemsOf(r) = [ItemsOf(p) EXCEPT ![m].content = Append(@, piece)]
      <4>1. ItemsOf(r) = [k \in 1 .. n |-> ItemOf(r, k - 1)]
        BY <1>8, <3>4
      <4> QED BY <1>7, <3>5, <4>1
    <3>7. StatusOf(r) = "in_progress"
      BY <2>1, <3>4
    <3> QED BY <2>1, <3>1, <3>6, <3>7, Zenon DEF StepOf
  <2>6. CASE f.type = "output_item.done"
    <3>1. /\ f.index + 1 \in 1 .. n /\ f.index + 1 \in DOMAIN ItemsOf(p) /\ f.index + 1 - 1 = f.index
          /\ f.index \in Nat /\ ItemsOf(p)[f.index + 1].open
      BY <2>3, <2>6 DEF PartTypes
    <3>2. f.type \notin DeltaTypes
      BY <2>6 DEF DeltaTypes
    <3> DEFINE m == f.index + 1
    <3>3. ASSUME NEW k \in 1 .. n
          PROVE  ItemOf(r, k - 1) = IF k = m THEN [ItemOf(p, k - 1) EXCEPT !.open = FALSE]
                                    ELSE ItemOf(p, k - 1)
      <4>1. Said(r, k - 1) = Said(p, k - 1) /\ KindOf(r, k - 1) = KindOf(p, k - 1)
        BY <1>9, <1>10, <3>2
      <4>2. CASE k = m
        <5>1. k - 1 = f.index
          BY <3>1, <4>2
        <5>2. IsOpen(r, k - 1) = FALSE
          BY <1>11, <1>12, <2>6, <5>1
        <5> QED BY <4>1, <4>2, <5>2 DEF ItemOf
      <4>3. CASE k # m
        <5>1. f.index # k - 1
          BY <3>1, <4>3
        <5>2. IsOpen(r, k - 1) = IsOpen(p, k - 1)
          BY <1>11, <1>12, <5>1
        <5> QED BY <4>1, <4>3, <5>2 DEF ItemOf
      <4> QED BY <4>2, <4>3
    <3>4. ItemsOf(r) = [ItemsOf(p) EXCEPT ![m].open = FALSE]
      <4>1. ItemsOf(r) = [k \in 1 .. n |-> ItemOf(r, k - 1)]
        BY <1>8, <2>6
      <4> QED BY <1>7, <3>3, <4>1
    <3>5. StatusOf(r) = "in_progress"
      BY <2>1, <2>6
    <3> QED BY <2>1, <3>1, <3>4, <3>5, Zenon DEF StepOf
  <2>7. CASE f.type \in PartTypes /\ f.type # "output_item.done"
    <3>1. f.index + 1 \in DOMAIN ItemsOf(p) /\ ItemsOf(p)[f.index + 1].open
      BY <2>3, <2>7
    <3>2. ItemsOf(r) = ItemsOf(p) /\ StatusOf(r) = "in_progress"
      BY <1>13, <2>1, <2>7 DEF PartTypes, DeltaTypes
    <3> QED BY <2>1, <3>1, <3>2, Zenon DEF StepOf
  <2>8. CASE f.type = "response.completed"
    <3>1. ItemsOf(r) = ItemsOf(p) /\ StatusOf(r) = "completed"
      BY <1>13, <2>1, <2>8 DEF DeltaTypes
    <3>2. ASSUME NEW k \in 1 .. n PROVE ~ItemsOf(p)[k].open
      <4>1. PICK j \in AddedTo(p, Len(p)) : k = p[j].index + 1
        BY <1>3 DEF IndicesTo
      <4>2. j \in 1 .. Len(p) /\ r[j].type = "output_item.added" /\ r[j] = p[j]
        BY <1>2 DEF AddedTo
      <4>3. PICK i \in 1 .. Len(p) : ClosesAt(r, i, p[j].index)
        <5>1. (Len(p) + 1) - 1 = Len(p)
          BY <1>1
        <5> QED BY <1>1, <2>8, <4>2, <5>1 DEF MayFollow
      <4>4. p[j].index \in Nat
        BY <1>2, <4>2 DEF MayFollow
      <4>5. k - 1 = p[j].index /\ DOMAIN p = 1 .. Len(p)
        BY <4>1, <4>4
      <4>6. ~IsOpen(p, k - 1)
        BY <1>2, <4>3, <4>5 DEF IsOpen, ClosesAt
      <4> QED BY <1>7, <4>6 DEF ItemOf
    <3>3. DOMAIN ItemsOf(p) = 1 .. n
      BY <1>7
    <3> QED BY <2>1, <3>1, <3>2, <3>3, Zenon DEF StepOf
  <2> QED BY <2>1, <2>2, <2>4, <2>5, <2>6, <2>7, <2>8 DEF Types
<1> QED BY <1>14, <1>15

-----------------------------------------------------------------------------
(* The encoder and its frames *)

LEMMA CallsType ==
  ASSUME NEW tools
  PROVE  tools \in Calls <=>
           /\ tools = [k \in DOMAIN tools |-> tools[k]] /\ DOMAIN tools \subseteq Tools
           /\ \A k \in DOMAIN tools : tools[k] \in [index : Nat, arguments : Seq(Pieces)]
<1>1. ASSUME tools \in Calls
      PROVE  /\ tools = [k \in DOMAIN tools |-> tools[k]] /\ DOMAIN tools \subseteq Tools
             /\ \A k \in DOMAIN tools : tools[k] \in [index : Nat, arguments : Seq(Pieces)]
  <2> DEFINE R == [index : Nat, arguments : Seq(Pieces)]
  <2> HIDE DEF R
  <2>1. PICK D \in SUBSET Tools : tools \in [D -> R]
    BY <1>1 DEF Calls, R
  <2>2. DOMAIN tools = D /\ tools = [k \in D |-> tools[k]] /\ \A k \in D : tools[k] \in R
    BY <2>1
  <2> QED BY <2>1, <2>2 DEF R
<1>2. ASSUME /\ tools = [k \in DOMAIN tools |-> tools[k]] /\ DOMAIN tools \subseteq Tools
             /\ \A k \in DOMAIN tools : tools[k] \in [index : Nat, arguments : Seq(Pieces)]
      PROVE  tools \in Calls
  <2> DEFINE R == [index : Nat, arguments : Seq(Pieces)]
  <2> HIDE DEF R
  <2>1. tools \in [DOMAIN tools -> R]
    BY <1>2 DEF R
  <2> QED BY <1>2, <2>1 DEF Calls, R
<1> QED BY <1>1, <1>2, Zenon

\* What the encoder keeps of the stream q: its counters, ...
Counts(e, q) ==
  /\ e.sequence = Len(q)
  /\ e.created <=> Len(q) # 0
  /\ e.created => e.id # None /\ q[1].id = e.id
  /\ e.completed <=> Holds(q, "response.completed")
  /\ ~e.completed => Open(q)

\* ... the place of every item, ...
Places(e, q) ==
  /\ IsFiniteSet(DOMAIN e.tools)
  /\ IndicesTo(q, Len(q)) = 1 .. e.next
  /\ \A i \in AddedTo(q, Len(q)) :
       q[i].kind = IF q[i].index = e.textIndex THEN "message" ELSE "function_call"
  /\ e.textIndex # None => e.textIndex < e.next
  /\ \A n \in 0 .. e.next - 1 : n = e.textIndex \/ \E k \in DOMAIN e.tools : e.tools[k].index = n
  /\ \A k \in DOMAIN e.tools : e.tools[k].index < e.next /\ e.tools[k].index # e.textIndex
  /\ \A k, l \in DOMAIN e.tools : e.tools[k].index = e.tools[l].index => k = l

\* ... and what was said of each.
Texts(e, q) ==
  /\ e.textIndex = None => e.text = <<>>
  /\ e.textIndex # None => Said(q, e.textIndex) = e.text
  /\ \A k \in DOMAIN e.tools : Said(q, e.tools[k].index) = e.tools[k].arguments

Live(e, q) ==
  /\ e \in Encoder /\ q \in Seq(FrameSet) /\ Valid(q)
  /\ Counts(e, q) /\ Places(e, q) /\ Texts(e, q)

LEMMA EncoderType ==
  ASSUME NEW e \in Encoder
  PROVE  /\ e.id \in ResponseIds /\ e.sequence \in Nat /\ e.created \in BOOLEAN /\ e.completed \in BOOLEAN
         /\ e.next \in Nat /\ e.textIndex \in Nat \cup {None} /\ e.text \in Seq(Pieces)
         /\ e.tools \in Calls /\ DOMAIN e.tools \subseteq Tools
         /\ \A k \in DOMAIN e.tools : e.tools[k].index \in Nat /\ e.tools[k].arguments \in Seq(Pieces)
<1>1. /\ e.id \in ResponseIds /\ e.sequence \in Nat /\ e.created \in BOOLEAN /\ e.completed \in BOOLEAN
      /\ e.next \in Nat /\ e.textIndex \in Nat \cup {None} /\ e.text \in Seq(Pieces) /\ e.tools \in Calls
  BY DEF Encoder
<1>2. DOMAIN e.tools \subseteq Tools
      /\ \A k \in DOMAIN e.tools : e.tools[k] \in [index : Nat, arguments : Seq(Pieces)]
  BY <1>1, CallsType, Zenon
<1> QED BY <1>1, <1>2

\* The stream q, and the frame f with the next number.
Then(q, f) == Append(q, WithNumber(f, Len(q)))

LEMMA ThenIs ==
  ASSUME NEW q \in Seq(FrameSet), NEW f \in NewFrames
  PROVE  /\ WithNumber(f, Len(q)) \in FrameSet /\ Then(q, f) \in Seq(FrameSet)
         /\ Len(q) \in Nat /\ Len(Then(q, f)) = Len(q) + 1
         /\ Then(q, f)[Len(q) + 1] = WithNumber(f, Len(q))
         /\ \A i \in 1 .. Len(q) : Then(q, f)[i] = q[i]
         /\ Extends(Then(q, f), q)
<1> DEFINE g == WithNumber(f, Len(q))
<1>1. g \in FrameSet /\ Len(q) \in Nat
  BY DEF WithNumber, NewFrames, FrameSet
<1> HIDE DEF g
<1>2. /\ Append(q, g) \in Seq(FrameSet) /\ Len(Append(q, g)) = Len(q) + 1
      /\ Append(q, g)[Len(q) + 1] = g /\ \A i \in 1 .. Len(q) : Append(q, g)[i] = q[i]
  BY <1>1
<1> QED BY <1>1, <1>2 DEF Then, Extends, g

LEMMA NumberIs ==
  ASSUME NEW f, NEW n
  PROVE  /\ WithNumber(f, n).type = f.type /\ WithNumber(f, n).kind = f.kind
         /\ WithNumber(f, n).id = f.id /\ WithNumber(f, n).index = f.index
         /\ WithNumber(f, n).content = f.content /\ WithNumber(f, n).sequence = n
BY DEF WithNumber

LEMMA PushCounts ==
  ASSUME NEW e, NEW q, Live(e, q), ~e.completed, e.created,
         NEW f \in NewFrames,
         f.type \notin FinalTypes \cup {"response.completed", "response.created"},
         f.kind # "function_call" => f.id = e.id,
         MayFollow(Then(q, f), Len(q) + 1),
         NEW d \in Encoder, d.sequence = e.sequence + 1, d.created = e.created,
         d.completed = e.completed, d.id = e.id
  PROVE  Then(q, f) \in Seq(FrameSet) /\ Valid(Then(q, f)) /\ Counts(d, Then(q, f))
<1> DEFINE r == Then(q, f)
           g == WithNumber(f, Len(q))
<1>1. q \in Seq(FrameSet) /\ Valid(q) /\ Counts(e, q)
  BY DEF Live
<1>2. /\ g \in FrameSet /\ r \in Seq(FrameSet) /\ Len(q) \in Nat /\ Len(r) = Len(q) + 1
      /\ r[Len(q) + 1] = g /\ \A i \in 1 .. Len(q) : r[i] = q[i]
  BY <1>1, ThenIs
<1>3. g.type = f.type /\ g.kind = f.kind /\ g.id = f.id /\ g.sequence = Len(q)
  BY NumberIs
<1>4. r = Append(q, g)
  BY DEF Then
<1>5. Len(q) # 0 /\ Open(q) /\ q[1].id = e.id /\ e.id # None
  BY <1>1 DEF Counts
<1> HIDE DEF r, g
<1>6. IsNumbered(r, Len(q) + 1)
  <2>1. r[1] = q[1]
    BY <1>2, <1>5
  <2> QED BY <1>2, <1>3, <1>5, <2>1 DEF IsNumbered
<1>7. MayFollow(r, Len(q) + 1)
  BY DEF r
<1>8. Valid(r) /\ Open(r)
  <2>1. g.type \notin FinalTypes \cup {"response.completed"}
    BY <1>3
  <2>2. MayFollow(Append(q, g), Len(q) + 1) /\ IsNumbered(Append(q, g), Len(q) + 1)
    BY <1>4, <1>6, <1>7
  <2>3. Valid(Append(q, g)) /\ Open(Append(q, g))
    BY <1>1, <1>2, <1>5, <2>1, <2>2, ValidPush, Zenon
  <2> QED BY <1>4, <2>3
<1>9. ~Holds(r, "response.completed")
  BY <1>2, <1>8 DEF Holds, Open
<1>10. Counts(d, r)
  <2>1. d.sequence = Len(r) /\ Len(r) # 0 /\ r[1] = q[1]
    BY <1>1, <1>2, <1>5 DEF Counts
  <2> QED BY <1>5, <1>8, <1>9, <2>1 DEF Counts
<1> QED BY <1>2, <1>8, <1>10 DEF r

\* An item the encoder has placed was announced.
LEMMA ItemKnown ==
  ASSUME NEW e, NEW q, Live(e, q), NEW n \in Nat, n < e.next, NEW r, Extends(r, q)
  PROVE  \E j \in 1 .. Len(q) : Adds(r, j, n)
<1>1. n + 1 \in IndicesTo(q, Len(q))
  <2>1. e.next \in Nat /\ IndicesTo(q, Len(q)) = 1 .. e.next
    BY EncoderType DEF Live, Places
  <2> QED BY <2>1
<1>2. PICK j \in AddedTo(q, Len(q)) : n + 1 = q[j].index + 1
  BY <1>1 DEF IndicesTo
<1>3. j \in 1 .. Len(q) /\ q[j].type = "output_item.added" /\ MayFollow(q, j)
  BY DEF AddedTo, Live, Valid
<1>4. q[j].index \in Nat
  BY <1>3 DEF MayFollow
<1>5. r[j] = q[j]
  BY <1>3 DEF Extends
<1> QED BY <1>2, <1>3, <1>4, <1>5 DEF Adds

LEMMA PlacesStay ==
  ASSUME NEW e, NEW q, Live(e, q), NEW f \in NewFrames, f.type # "output_item.added",
         NEW d, d.next = e.next, d.textIndex = e.textIndex, DOMAIN d.tools = DOMAIN e.tools,
         \A k \in DOMAIN e.tools : d.tools[k].index = e.tools[k].index
  PROVE  Places(d, Then(q, f))
<1> DEFINE r == Then(q, f)
<1>1. q \in Seq(FrameSet) /\ Places(e, q)
  BY DEF Live
<1>2. /\ Len(q) \in Nat /\ Len(r) = Len(q) + 1 /\ r[Len(q) + 1].type = f.type
      /\ \A i \in 1 .. Len(q) : r[i] = q[i]
  BY <1>1, ThenIs, NumberIs
<1> HIDE DEF r
<1>3. AddedTo(r, Len(r)) = AddedTo(q, Len(q)) /\ \A i \in AddedTo(q, Len(q)) : r[i] = q[i]
  BY <1>2 DEF AddedTo
<1>4. IndicesTo(r, Len(r)) = IndicesTo(q, Len(q))
  BY <1>3 DEF IndicesTo
<1>5. \A i \in AddedTo(r, Len(r)) :
        r[i].kind = IF r[i].index = d.textIndex THEN "message" ELSE "function_call"
  BY <1>1, <1>3 DEF Places
<1>6. Places(d, r)
  BY <1>1, <1>4, <1>5 DEF Places
<1> QED BY <1>6 DEF r

LEMMA TextsStay ==
  ASSUME NEW e, NEW q, Live(e, q), NEW f \in NewFrames, f.type \notin DeltaTypes,
         NEW d, d.text = e.text, d.textIndex = e.textIndex, d.tools = e.tools
  PROVE  Texts(d, Then(q, f))
<1>1. q \in Seq(FrameSet) /\ Texts(e, q)
  BY DEF Live
<1>2. WithNumber(f, Len(q)) \in FrameSet /\ WithNumber(f, Len(q)).type \notin DeltaTypes
  BY <1>1, ThenIs, NumberIs
<1>3. ASSUME NEW n PROVE Said(Then(q, f), n) = Said(q, n)
  <2> DEFINE g == WithNumber(f, Len(q))
             r == Then(q, f)
  <2>1. g \in FrameSet /\ ~(g.type \in DeltaTypes /\ g.index = n)
    BY <1>2
  <2>2. r = Append(q, g)
    BY DEF Then
  <2> HIDE DEF g, r
  <2>3. Said(r, n) = Said(q, n)
    BY <1>1, <2>1, <2>2, SaidStays
  <2> QED BY <2>3 DEF r
<1> QED BY <1>1, <1>3 DEF Texts

\* The first frame announces the response.
LEMMA PushCreated ==
  ASSUME NEW e, NEW q, Live(e, q), ~e.created, NEW f \in NewFrames,
         f.type = "response.created", NEW d \in Encoder, d.id # None, f.id = d.id,
         d.sequence = e.sequence + 1, d.created, d.completed = e.completed,
         d.next = e.next, d.textIndex = e.textIndex, d.text = e.text, d.tools = e.tools
  PROVE  Live(d, Then(q, f)) /\ ~d.completed
<1> DEFINE r == Then(q, f)
           g == WithNumber(f, Len(q))
<1>1. q \in Seq(FrameSet) /\ Valid(q) /\ Counts(e, q) /\ Len(q) = 0
  BY DEF Live, Counts
<1>2. /\ g \in FrameSet /\ r \in Seq(FrameSet) /\ Len(q) \in Nat /\ Len(r) = 1 /\ r[1] = g
  <2>1. /\ g \in FrameSet /\ r \in Seq(FrameSet) /\ Len(r) = Len(q) + 1 /\ r[Len(q) + 1] = g
    BY <1>1, ThenIs, Zenon
  <2> HIDE DEF g, r
  <2> QED BY <1>1, <2>1
<1>3. g.type = f.type /\ g.kind = f.kind /\ g.id = f.id /\ g.sequence = 0
  BY <1>1, NumberIs
<1>4. Places(d, r)
  BY PlacesStay
<1>5. Texts(d, r)
  BY TextsStay DEF DeltaTypes
<1>6. r = Append(q, g)
  BY DEF Then
<1> HIDE DEF r, g
<1>7. ~Holds(q, "response.completed") /\ Open(q)
  BY <1>1 DEF Holds, Open
<1>8. MayFollow(r, 1) /\ IsNumbered(r, 1)
  BY <1>2, <1>3 DEF MayFollow, IsNumbered, DeltaTypes, PartTypes
<1>9. Valid(r) /\ Open(r)
  <2>1. MayFollow(Append(q, g), Len(q) + 1) /\ IsNumbered(Append(q, g), Len(q) + 1)
    BY <1>1, <1>6, <1>8
  <2>2. g.type \notin FinalTypes \cup {"response.completed"}
    BY <1>3 DEF FinalTypes
  <2>3. Valid(Append(q, g)) /\ Open(Append(q, g))
    BY <1>1, <1>2, <1>7, <2>1, <2>2, ValidPush, Zenon
  <2> QED BY <1>6, <2>3
<1>10. ~d.completed /\ ~Holds(r, "response.completed")
  BY <1>1, <1>2, <1>7, <1>9 DEF Counts, Holds, Open
<1>11. Counts(d, r)
  BY <1>1, <1>2, <1>3, <1>9, <1>10 DEF Counts
<1> QED BY <1>2, <1>4, <1>5, <1>9, <1>10, <1>11 DEF Live, r

\* A part of an item that was announced.
LEMMA PushPart ==
  ASSUME NEW e, NEW q, Live(e, q), ~e.completed, e.created, NEW f \in NewFrames,
         f.type = "content_part.added", f.id = e.id, f.index = e.textIndex, e.textIndex # None,
         NEW d \in Encoder, d.id = e.id,
         d.sequence = e.sequence + 1, d.created = e.created, d.completed = e.completed,
         d.next = e.next, d.textIndex = e.textIndex, d.text = e.text, d.tools = e.tools
  PROVE  Live(d, Then(q, f))
<1> DEFINE r == Then(q, f)
<1>1. q \in Seq(FrameSet) /\ Valid(q) /\ Counts(e, q) /\ Places(e, q) /\ e \in Encoder
  BY DEF Live
<1>2. /\ Len(q) \in Nat /\ Len(r) = Len(q) + 1 /\ Extends(r, q)
      /\ r[Len(q) + 1].type = f.type /\ r[Len(q) + 1].index = f.index
      /\ \A i \in 1 .. Len(q) : r[i] = q[i]
  BY <1>1, ThenIs, NumberIs
<1>3. Places(d, r)
  BY PlacesStay
<1>4. Texts(d, r)
  BY TextsStay DEF DeltaTypes
<1> HIDE DEF r
<1>5. MayFollow(r, Len(q) + 1)
  <2>1. e.textIndex \in Nat /\ e.textIndex < e.next
    BY <1>1, EncoderType DEF Places
  <2>2. \E j \in 1 .. Len(q) : Adds(r, j, f.index)
    BY <1>2, <2>1, ItemKnown
  <2>3. \A j \in 1 .. Len(q) : ~ClosesAt(r, j, f.index)
    BY <1>1, <1>2 DEF Counts, Open, ClosesAt, FinalTypes
  <2>4. Len(q) + 1 # 1 /\ (Len(q) + 1) - 1 = Len(q)
    BY <1>1, <1>2 DEF Counts
  <2> QED BY <1>2, <2>2, <2>3, <2>4 DEF MayFollow, DeltaTypes
<1>6. r \in Seq(FrameSet) /\ Valid(r) /\ Counts(d, r)
  <2>1. f.type \notin FinalTypes \cup {"response.completed", "response.created"}
    BY DEF FinalTypes
  <2> QED BY <1>5, <2>1, PushCounts DEF r
<1> QED BY <1>3, <1>4, <1>6 DEF Live, r

\* An item is announced: the message, ...
LEMMA AddedMayFollow ==
  ASSUME NEW e, NEW q, Live(e, q), ~e.completed, e.created, NEW f \in NewFrames,
         f.type = "output_item.added", f.index = e.next, f.content = <<>>,
         f.kind \in {"message", "function_call"}
  PROVE  /\ MayFollow(Then(q, f), Len(q) + 1)
         /\ AddedTo(Then(q, f), Len(q) + 1) = AddedTo(q, Len(q)) \cup {Len(q) + 1}
         /\ IndicesTo(Then(q, f), Len(q) + 1) = 1 .. e.next + 1
         /\ \A i \in AddedTo(q, Len(q)) : q[i].index \in Nat /\ q[i].index < e.next
<1> DEFINE r == Then(q, f)
<1>1. q \in Seq(FrameSet) /\ Valid(q) /\ Counts(e, q) /\ Places(e, q) /\ e \in Encoder
  BY DEF Live
<1>2. /\ Len(q) \in Nat /\ Len(r) = Len(q) + 1 /\ Extends(r, q)
      /\ r[Len(q) + 1].type = f.type /\ r[Len(q) + 1].index = f.index
      /\ r[Len(q) + 1].kind = f.kind /\ r[Len(q) + 1].content = f.content
      /\ \A i \in 1 .. Len(q) : r[i] = q[i]
  BY <1>1, ThenIs, NumberIs
<1>3. e.next \in Nat
  BY <1>1, EncoderType
<1> HIDE DEF r
<1>4. \A i \in AddedTo(q, Len(q)) : q[i].index \in Nat /\ q[i].index < e.next
  <2> SUFFICES ASSUME NEW i \in AddedTo(q, Len(q)) PROVE q[i].index \in Nat /\ q[i].index < e.next
    OBVIOUS
  <2>1. i \in 1 .. Len(q) /\ MayFollow(q, i) /\ q[i].type = "output_item.added"
    BY <1>1 DEF AddedTo, Valid
  <2>2. q[i].index \in Nat
    BY <2>1 DEF MayFollow
  <2>3. q[i].index + 1 \in 1 .. e.next
    BY <1>1 DEF Places, IndicesTo
  <2> QED BY <1>3, <2>2, <2>3
<1>5. MayFollow(r, Len(q) + 1)
  <2>1. Len(q) + 1 # 1 /\ (Len(q) + 1) - 1 = Len(q)
    BY <1>1, <1>2 DEF Counts
  <2>2. \A n \in 0 .. e.next - 1 : \E j \in 1 .. Len(q) : Adds(r, j, n)
    BY <1>2, <1>3, ItemKnown
  <2>3. \A j \in 1 .. Len(q) : r[j].type = "output_item.added" => r[j].index < e.next
    BY <1>2, <1>4 DEF AddedTo
  <2> QED BY <1>2, <1>3, <2>1, <2>2, <2>3 DEF MayFollow, DeltaTypes, PartTypes
<1>6. AddedTo(r, Len(q) + 1) = AddedTo(q, Len(q)) \cup {Len(q) + 1}
  BY <1>2 DEF AddedTo
<1>7. IndicesTo(r, Len(q) + 1) = 1 .. e.next + 1
  <2>1. \A i \in AddedTo(q, Len(q)) : r[i] = q[i]
    BY <1>2 DEF AddedTo
  <2>2. IndicesTo(r, Len(q) + 1) = IndicesTo(q, Len(q)) \cup {e.next + 1}
    BY <1>2, <1>6, <2>1 DEF IndicesTo
  <2>3. (1 .. e.next) \cup {e.next + 1} = 1 .. e.next + 1
    BY <1>3
  <2> QED BY <1>1, <2>2, <2>3 DEF Places
<1> QED BY <1>4, <1>5, <1>6, <1>7 DEF r

LEMMA NothingSaidYet ==
  ASSUME NEW e, NEW q, Live(e, q)
  PROVE  Said(q, e.next) = <<>>
<1>1. q \in Seq(FrameSet) /\ Valid(q) /\ Places(e, q) /\ e.next \in Nat
  BY EncoderType DEF Live
<1>2. NoDelta(q, e.next, 0)
  <2> SUFFICES ASSUME NEW i \in 1 .. Len(q), q[i].type \in DeltaTypes, q[i].index = e.next PROVE FALSE
    BY DEF NoDelta
  <2>1. PICK j \in 1 .. i - 1 : Adds(q, j, e.next)
    BY <1>1 DEF Valid, MayFollow
  <2>2. j \in AddedTo(q, Len(q)) /\ q[j].index = e.next
    BY <1>1, <2>1 DEF Adds, AddedTo
  <2>3. e.next + 1 \in IndicesTo(q, Len(q))
    BY <2>2 DEF IndicesTo
  <2> QED BY <1>1, <2>3 DEF Places
<1> QED BY <1>1, <1>2, SaidNone

LEMMA PushMessage ==
  ASSUME NEW e, NEW q, Live(e, q), ~e.completed, e.created, NEW f \in NewFrames,
         f.type = "output_item.added", f.index = e.next, f.content = <<>>, f.kind = "message",
         f.id = e.id, e.textIndex = None,
         NEW d \in Encoder, d.id = e.id,
         d.sequence = e.sequence + 1, d.created = e.created, d.completed = e.completed,
         d.next = e.next + 1, d.textIndex = e.next, d.text = e.text, d.tools = e.tools
  PROVE  Live(d, Then(q, f))
<1> DEFINE r == Then(q, f)
<1>1. q \in Seq(FrameSet) /\ Valid(q) /\ Counts(e, q) /\ Places(e, q) /\ Texts(e, q) /\ e \in Encoder
  BY DEF Live
<1>2. /\ Len(q) \in Nat /\ Len(r) = Len(q) + 1
      /\ r[Len(q) + 1].type = f.type /\ r[Len(q) + 1].index = f.index
      /\ r[Len(q) + 1].kind = f.kind
      /\ \A i \in 1 .. Len(q) : r[i] = q[i]
  BY <1>1, ThenIs, NumberIs
<1>3. e.next \in Nat /\ \A k \in DOMAIN e.tools : e.tools[k].index \in Nat
  BY <1>1, EncoderType
<1>4. /\ MayFollow(r, Len(q) + 1)
      /\ AddedTo(r, Len(q) + 1) = AddedTo(q, Len(q)) \cup {Len(q) + 1}
      /\ IndicesTo(r, Len(q) + 1) = 1 .. e.next + 1
      /\ \A i \in AddedTo(q, Len(q)) : q[i].index \in Nat /\ q[i].index < e.next
  BY AddedMayFollow
<1>n. \A n \in Nat : n # None
  BY ConstantsAssumption
<1>5. r \in Seq(FrameSet) /\ Valid(r) /\ Counts(d, r)
  <2>1. f.type \notin FinalTypes \cup {"response.completed", "response.created"}
    BY DEF FinalTypes
  <2> QED BY <1>4, <2>1, PushCounts
<1>6. \A n : Said(r, n) = Said(q, n)
  <2> SUFFICES ASSUME NEW n PROVE Said(r, n) = Said(q, n)
    OBVIOUS
  <2> DEFINE g == WithNumber(f, Len(q))
  <2>1. g \in FrameSet /\ g.type \notin DeltaTypes
    BY <1>1, ThenIs, NumberIs DEF DeltaTypes
  <2>2. r = Append(q, g)
    BY DEF Then
  <2> HIDE DEF g, r
  <2> QED BY <1>1, <2>1, <2>2, SaidStays
<1> HIDE DEF r
<1>7. Places(d, r)
  <2>1. \A i \in AddedTo(r, Len(r)) :
          r[i].kind = IF r[i].index = d.textIndex THEN "message" ELSE "function_call"
    <3> SUFFICES ASSUME NEW i \in AddedTo(r, Len(q) + 1)
                 PROVE  r[i].kind = IF r[i].index = d.textIndex THEN "message" ELSE "function_call"
      BY <1>2
    <3>1. CASE i = Len(q) + 1
      BY <1>2, <3>1
    <3>2. CASE i \in AddedTo(q, Len(q))
      <4>1. r[i] = q[i]
        BY <1>2, <3>2 DEF AddedTo
      <4>2. q[i].index \in Nat /\ q[i].index < e.next
        BY <1>4, <3>2
      <4>3. q[i].index # e.next /\ q[i].index # None
        BY <1>3, <1>n, <4>2
      <4>4. q[i].kind = "function_call"
        BY <1>1, <3>2, <4>3 DEF Places
      <4> QED BY <4>1, <4>3, <4>4
    <3> QED BY <1>4, <3>1, <3>2
  <2>2. \A n \in 0 .. d.next - 1 : n = d.textIndex \/ \E k \in DOMAIN d.tools : d.tools[k].index = n
    <3> SUFFICES ASSUME NEW n \in 0 .. d.next - 1, n # d.textIndex
                 PROVE  \E k \in DOMAIN d.tools : d.tools[k].index = n
      OBVIOUS
    <3>1. n \in 0 .. e.next - 1
      BY <1>3
    <3>2. n # e.textIndex
      BY <1>n, <3>1
    <3> QED BY <1>1, <3>1, <3>2 DEF Places
  <2>3. \A k \in DOMAIN d.tools : d.tools[k].index < d.next /\ d.tools[k].index # d.textIndex
    BY <1>1, <1>3 DEF Places
  <2>4. d.textIndex < d.next
    BY <1>3
  <2>5. IndicesTo(r, Len(r)) = 1 .. d.next
    BY <1>2, <1>4
  <2>6. IsFiniteSet(DOMAIN d.tools) /\ \A k, l \in DOMAIN d.tools : d.tools[k].index = d.tools[l].index => k = l
    BY <1>1 DEF Places
  <2> QED BY <2>1, <2>2, <2>3, <2>4, <2>5, <2>6 DEF Places
<1>8. Texts(d, r)
  <2>1. d.textIndex # None /\ e.text = <<>>
    BY <1>1, <1>3, <1>n DEF Texts
  <2>2. Said(r, d.textIndex) = <<>>
    BY <1>6, NothingSaidYet
  <2>3. \A k \in DOMAIN d.tools : Said(r, d.tools[k].index) = d.tools[k].arguments
    BY <1>1, <1>6 DEF Texts
  <2> QED BY <2>1, <2>2, <2>3 DEF Texts
<1> QED BY <1>5, <1>7, <1>8 DEF Live, r

\* ... or a call.
LEMMA PushCall ==
  ASSUME NEW e, NEW q, Live(e, q), ~e.completed, e.created, NEW f \in NewFrames,
         f.type = "output_item.added", f.index = e.next, f.content = <<>>, f.kind = "function_call",
         NEW d \in Encoder, d.id = e.id, NEW k, k \notin DOMAIN e.tools,
         d.sequence = e.sequence + 1, d.created = e.created, d.completed = e.completed,
         d.next = e.next + 1, d.textIndex = e.textIndex, d.text = e.text,
         DOMAIN d.tools = DOMAIN e.tools \cup {k}, \A l \in DOMAIN e.tools : d.tools[l] = e.tools[l],
         d.tools[k].index = e.next, d.tools[k].arguments = <<>>
  PROVE  Live(d, Then(q, f))
<1> DEFINE r == Then(q, f)
<1>1. q \in Seq(FrameSet) /\ Valid(q) /\ Counts(e, q) /\ Places(e, q) /\ Texts(e, q) /\ e \in Encoder
  BY DEF Live
<1>2. /\ Len(q) \in Nat /\ Len(r) = Len(q) + 1
      /\ r[Len(q) + 1].type = f.type /\ r[Len(q) + 1].index = f.index
      /\ r[Len(q) + 1].kind = f.kind
      /\ \A i \in 1 .. Len(q) : r[i] = q[i]
  BY <1>1, ThenIs, NumberIs
<1>3. e.next \in Nat /\ e.textIndex \in Nat \cup {None} /\ \A l \in DOMAIN e.tools : e.tools[l].index \in Nat
  BY <1>1, EncoderType
<1>4. /\ MayFollow(r, Len(q) + 1)
      /\ AddedTo(r, Len(q) + 1) = AddedTo(q, Len(q)) \cup {Len(q) + 1}
      /\ IndicesTo(r, Len(q) + 1) = 1 .. e.next + 1
      /\ \A i \in AddedTo(q, Len(q)) : q[i].index \in Nat /\ q[i].index < e.next
  BY AddedMayFollow
<1>n. e.next # e.textIndex
  BY <1>1, <1>3, ConstantsAssumption DEF Places
<1>5. r \in Seq(FrameSet) /\ Valid(r) /\ Counts(d, r)
  <2>1. f.type \notin FinalTypes \cup {"response.completed", "response.created"}
    BY DEF FinalTypes
  <2> QED BY <1>4, <2>1, PushCounts
<1>6. \A n : Said(r, n) = Said(q, n)
  <2> SUFFICES ASSUME NEW n PROVE Said(r, n) = Said(q, n)
    OBVIOUS
  <2> DEFINE g == WithNumber(f, Len(q))
  <2>1. g \in FrameSet /\ g.type \notin DeltaTypes
    BY <1>1, ThenIs, NumberIs DEF DeltaTypes
  <2>2. r = Append(q, g)
    BY DEF Then
  <2> HIDE DEF g, r
  <2> QED BY <1>1, <2>1, <2>2, SaidStays
<1> HIDE DEF r
<1>7. Places(d, r)
  <2>1. \A i \in AddedTo(r, Len(r)) :
          r[i].kind = IF r[i].index = d.textIndex THEN "message" ELSE "function_call"
    <3> SUFFICES ASSUME NEW i \in AddedTo(r, Len(q) + 1)
                 PROVE  r[i].kind = IF r[i].index = d.textIndex THEN "message" ELSE "function_call"
      BY <1>2
    <3>1. CASE i = Len(q) + 1
      BY <1>2, <1>n, <3>1
    <3>2. CASE i \in AddedTo(q, Len(q))
      <4>1. r[i] = q[i]
        BY <1>2, <3>2 DEF AddedTo
      <4> QED BY <1>1, <3>2, <4>1 DEF Places
    <3> QED BY <1>4, <3>1, <3>2
  <2>2. \A n \in 0 .. d.next - 1 : n = d.textIndex \/ \E l \in DOMAIN d.tools : d.tools[l].index = n
    <3> SUFFICES ASSUME NEW n \in 0 .. d.next - 1, n # d.textIndex
                 PROVE  \E l \in DOMAIN d.tools : d.tools[l].index = n
      OBVIOUS
    <3>1. CASE n = e.next
      BY <3>1
    <3>2. CASE n # e.next
      <4>1. n \in 0 .. e.next - 1
        BY <1>3, <3>2
      <4>2. PICK l \in DOMAIN e.tools : e.tools[l].index = n
        BY <1>1, <4>1 DEF Places
      <4> QED BY <4>2
    <3> QED BY <3>1, <3>2
  <2>3. \A l \in DOMAIN d.tools : d.tools[l].index < d.next /\ d.tools[l].index # d.textIndex
    <3> SUFFICES ASSUME NEW l \in DOMAIN d.tools PROVE d.tools[l].index < d.next /\ d.tools[l].index # d.textIndex
      OBVIOUS
    <3>1. CASE l = k
      BY <1>3, <1>n, <3>1
    <3>2. CASE l \in DOMAIN e.tools
      BY <1>1, <1>3, <3>2 DEF Places
    <3> QED BY <3>1, <3>2
  <2>4. d.textIndex # None => d.textIndex < d.next
    BY <1>1, <1>3 DEF Places
  <2>5. IndicesTo(r, Len(r)) = 1 .. d.next
    BY <1>2, <1>4
  <2>6. IsFiniteSet(DOMAIN d.tools)
    BY <1>1, FS_AddElement DEF Places
  <2>7. \A l, m \in DOMAIN d.tools : d.tools[l].index = d.tools[m].index => l = m
    <3>1. \A l \in DOMAIN e.tools : d.tools[l].index < e.next /\ d.tools[l].index \in Nat
      BY <1>1, <1>3 DEF Places
    <3>2. \A l \in DOMAIN e.tools : d.tools[l].index # e.next
      BY <1>3, <3>1
    <3> SUFFICES ASSUME NEW l \in DOMAIN d.tools, NEW m \in DOMAIN d.tools,
                        d.tools[l].index = d.tools[m].index
                 PROVE  l = m
      OBVIOUS
    <3>3. CASE l \in DOMAIN e.tools /\ m \in DOMAIN e.tools
      BY <1>1, <3>3 DEF Places
    <3>4. CASE l = k \/ m = k
      BY <3>2, <3>4
    <3> QED BY <3>3, <3>4
  <2> QED BY <2>1, <2>2, <2>3, <2>4, <2>5, <2>6, <2>7 DEF Places
<1>8. Texts(d, r)
  <2>1. Said(r, d.tools[k].index) = d.tools[k].arguments
    BY <1>6, NothingSaidYet
  <2>2. \A l \in DOMAIN e.tools : Said(r, d.tools[l].index) = d.tools[l].arguments
    BY <1>1, <1>6 DEF Texts
  <2> QED BY <1>1, <1>6, <2>1, <2>2 DEF Texts
<1> QED BY <1>5, <1>7, <1>8 DEF Live, r

\* One more piece of an item.
LEMMA DeltaMayFollow ==
  ASSUME NEW e, NEW q, Live(e, q), ~e.completed, e.created, NEW f \in NewFrames,
         f.type \in DeltaTypes, f.index \in Nat, f.index < e.next, NEW p \in Pieces, f.content = <<p>>
  PROVE  /\ MayFollow(Then(q, f), Len(q) + 1)
         /\ Said(Then(q, f), f.index) = Append(Said(q, f.index), p)
         /\ \A n : n # f.index => Said(Then(q, f), n) = Said(q, n)
<1> DEFINE r == Then(q, f)
           g == WithNumber(f, Len(q))
<1>1. q \in Seq(FrameSet) /\ Valid(q) /\ Counts(e, q) /\ e \in Encoder
  BY DEF Live
<1>2. /\ g \in FrameSet /\ Len(q) \in Nat /\ Len(r) = Len(q) + 1 /\ Extends(r, q)
      /\ r[Len(q) + 1].type = f.type /\ r[Len(q) + 1].index = f.index
      /\ r[Len(q) + 1].content = f.content
      /\ \A i \in 1 .. Len(q) : r[i] = q[i]
  BY <1>1, ThenIs, NumberIs
<1>3. g.type = f.type /\ g.index = f.index /\ g.content = f.content
  BY NumberIs
<1>4. r = Append(q, g)
  BY DEF Then
<1> HIDE DEF r, g
<1>5. MayFollow(r, Len(q) + 1)
  <2>1. \E j \in 1 .. Len(q) : Adds(r, j, f.index)
    BY <1>2, ItemKnown
  <2>2. \A j \in 1 .. Len(q) : ~ClosesAt(r, j, f.index) /\ r[j].type \notin FinalTypes
    BY <1>1, <1>2 DEF Counts, Open, ClosesAt, FinalTypes
  <2>3. Len(q) + 1 # 1 /\ (Len(q) + 1) - 1 = Len(q)
    BY <1>1, <1>2 DEF Counts
  <2>4. f.type \notin {"response.created", "output_item.added", "response.completed"}
    BY DEF DeltaTypes
  <2>5. \E x \in Pieces : f.content = <<x>>
    OBVIOUS
  <2> HIDE DEF DeltaTypes
  <2> QED BY <1>2, <2>1, <2>2, <2>3, <2>4, <2>5 DEF MayFollow
<1>6. HasDeltas(q)
  BY <1>1, ValidHasDeltas
<1>7. Said(Append(q, g), g.index) = Append(Said(q, g.index), p)
  BY <1>1, <1>2, <1>3, <1>6, SaidNext
<1>8. ASSUME NEW n, n # f.index PROVE Said(r, n) = Said(q, n)
  <2>1. ~(g.type \in DeltaTypes /\ g.index = n)
    BY <1>3, <1>8
  <2> QED BY <1>1, <1>2, <1>4, <2>1, SaidStays
<1> QED BY <1>3, <1>4, <1>5, <1>7, <1>8 DEF r

LEMMA PushText ==
  ASSUME NEW e, NEW q, Live(e, q), ~e.completed, e.created, NEW f \in NewFrames,
         f.type = "output_text.delta", f.id = e.id, f.index = e.textIndex, e.textIndex # None,
         NEW p \in Pieces, f.content = <<p>>,
         NEW d \in Encoder, d.id = e.id,
         d.sequence = e.sequence + 1, d.created = e.created, d.completed = e.completed,
         d.next = e.next, d.textIndex = e.textIndex, d.text = Append(e.text, p), d.tools = e.tools
  PROVE  Live(d, Then(q, f))
<1> DEFINE r == Then(q, f)
<1>1. Places(e, q) /\ Texts(e, q) /\ e \in Encoder
  BY DEF Live
<1>2. f.index \in Nat /\ f.index < e.next /\ f.type \in DeltaTypes
  BY <1>1, EncoderType DEF Places, DeltaTypes
<1>3. /\ MayFollow(r, Len(q) + 1)
      /\ Said(r, f.index) = Append(Said(q, f.index), p)
      /\ \A n : n # f.index => Said(r, n) = Said(q, n)
  BY <1>2, DeltaMayFollow
<1>4. Places(d, r)
  BY PlacesStay
<1>5. r \in Seq(FrameSet) /\ Valid(r) /\ Counts(d, r)
  <2>1. f.type \notin FinalTypes \cup {"response.completed", "response.created"}
    BY DEF FinalTypes
  <2> QED BY <1>3, <2>1, PushCounts
<1> HIDE DEF r
<1>6. Texts(d, r)
  <2>1. Said(r, d.textIndex) = d.text
    BY <1>1, <1>3 DEF Texts
  <2>2. \A k \in DOMAIN e.tools : Said(r, e.tools[k].index) = e.tools[k].arguments
    BY <1>1, <1>3 DEF Texts, Places
  <2> QED BY <2>1, <2>2 DEF Texts
<1> QED BY <1>4, <1>5, <1>6 DEF Live, r

LEMMA PushArguments ==
  ASSUME NEW e, NEW q, Live(e, q), ~e.completed, e.created, NEW f \in NewFrames,
         f.type = "function_call_arguments.delta", f.kind = "function_call",
         NEW k \in DOMAIN e.tools, f.index = e.tools[k].index,
         NEW p \in Pieces, f.content = <<p>>,
         NEW d \in Encoder, d.id = e.id,
         d.sequence = e.sequence + 1, d.created = e.created, d.completed = e.completed,
         d.next = e.next, d.textIndex = e.textIndex, d.text = e.text,
         DOMAIN d.tools = DOMAIN e.tools, \A l \in DOMAIN e.tools : l # k => d.tools[l] = e.tools[l],
         d.tools[k].index = e.tools[k].index, d.tools[k].arguments = Append(e.tools[k].arguments, p)
  PROVE  Live(d, Then(q, f))
<1> DEFINE r == Then(q, f)
<1>1. Places(e, q) /\ Texts(e, q) /\ e \in Encoder
  BY DEF Live
<1>2. f.index \in Nat /\ f.index < e.next /\ f.type \in DeltaTypes
  BY <1>1, EncoderType DEF Places, DeltaTypes
<1>3. /\ MayFollow(r, Len(q) + 1)
      /\ Said(r, f.index) = Append(Said(q, f.index), p)
      /\ \A n : n # f.index => Said(r, n) = Said(q, n)
  BY <1>2, DeltaMayFollow
<1>4. Places(d, r)
  <2>1. \A l \in DOMAIN e.tools : d.tools[l].index = e.tools[l].index
    OBVIOUS
  <2> QED BY <2>1, PlacesStay
<1>5. r \in Seq(FrameSet) /\ Valid(r) /\ Counts(d, r)
  <2>1. f.type \notin FinalTypes \cup {"response.completed", "response.created"}
    BY DEF FinalTypes
  <2> QED BY <1>3, <2>1, PushCounts
<1> HIDE DEF r
<1>6. Texts(d, r)
  <2>1. Said(r, d.tools[k].index) = d.tools[k].arguments
    BY <1>1, <1>3 DEF Texts
  <2>2. \A l \in DOMAIN e.tools : l # k => Said(r, d.tools[l].index) = d.tools[l].arguments
    BY <1>1, <1>3 DEF Texts, Places
  <2>3. d.textIndex # None => Said(r, d.textIndex) = d.text
    BY <1>1, <1>3 DEF Texts, Places
  <2> QED BY <1>1, <2>1, <2>2, <2>3 DEF Texts
<1> QED BY <1>4, <1>5, <1>6 DEF Live, r

-----------------------------------------------------------------------------
(* The end of a message *)

\* A frame that repeats an item of the encoder.
RepeatsItem(e, f) ==
  /\ f.type \in FinalTypes /\ f.index \in Nat /\ f.index < e.next
  /\ f.kind = "message" => f.id = e.id
  /\ f.kind \in {"message", "function_call"}
  /\ \/ e.textIndex # None /\ f.index = e.textIndex /\ f.content = e.text
     \/ \E k \in DOMAIN e.tools : f.index = e.tools[k].index /\ f.content = e.tools[k].arguments

Closing(e, new) ==
  /\ new \in Seq(NewFrames) /\ Len(new) >= 1
  /\ \A i \in 1 .. Len(new) - 1 : RepeatsItem(e, new[i])
  /\ \A n \in 0 .. e.next - 1 : \E i \in 1 .. Len(new) - 1 : ClosesAt(new, i, n)
  /\ \A i, j \in 1 .. Len(new) - 1 :
       i < j => ~ClosesAt(new, i, new[j].index)
  /\ new[Len(new)] = Completion(e)

AllFollow(q) == \A i \in 1 .. Len(q) : MayFollow(q, i)

LEMMA KindIsOf ==
  ASSUME NEW q \in Seq(FrameSet), AllFollow(q), NEW i \in AddedTo(q, Len(q))
  PROVE  KindOf(q, q[i].index) = q[i].kind
<1> DEFINE n == q[i].index
           A == {k \in DOMAIN q : q[k].type \in {"output_item.added"}}
           c == CHOOSE j \in A : q[j].index = n
<1>1. A = AddedTo(q, Len(q))
  BY DEF AddedTo
<1>2. i \in A /\ q[i].index = n
  BY <1>1
<1>3. c \in A /\ q[c].index = n
  BY <1>2
<1> HIDE DEF c
<1>4. c = i
  <2>1. /\ i \in 1 .. Len(q) /\ c \in 1 .. Len(q) /\ q[i].type = "output_item.added"
        /\ q[c].type = "output_item.added" /\ MayFollow(q, i) /\ MayFollow(q, c) /\ q[c].index = q[i].index
    BY <1>1, <1>2, <1>3 DEF AddedTo, AllFollow
  <2> HIDE DEF A, n
  <2>2. q[i].index \in Nat
    BY <2>1 DEF MayFollow
  <2>3. ~(i < c)
    <3> SUFFICES ASSUME i < c PROVE FALSE
      OBVIOUS
    <3>1. i \in 1 .. c - 1
      BY <2>1
    <3>2. q[i].index < q[c].index
      BY <2>1, <3>1 DEF MayFollow
    <3> QED BY <2>1, <2>2, <3>2
  <2>4. ~(c < i)
    <3> SUFFICES ASSUME c < i PROVE FALSE
      OBVIOUS
    <3>1. c \in 1 .. i - 1
      BY <2>1
    <3>2. q[c].index < q[i].index
      BY <2>1, <3>1 DEF MayFollow
    <3> QED BY <2>1, <2>2, <3>2
  <2> QED BY <2>1, <2>3, <2>4
<1> QED BY <1>4 DEF KindOf, c

\* The item with a number is the message or one call.
LEMMA ItemIs ==
  ASSUME NEW e, NEW q, Live(e, q), NEW n \in 0 .. e.next - 1
  PROVE  \/ e.textIndex = n /\ e.textIndex # None
         \/ /\ e.textIndex # n
            /\ \E k \in DOMAIN e.tools : /\ e.tools[k].index = n
                                         /\ k = CHOOSE j \in DOMAIN e.tools : e.tools[j].index = n
<1>1. Places(e, q) /\ e.next \in Nat
  BY EncoderType DEF Live
<1>2. n # None
  BY <1>1, ConstantsAssumption
<1>3. CASE e.textIndex # n
  <2>1. PICK k \in DOMAIN e.tools : e.tools[k].index = n
    BY <1>1, <1>3 DEF Places
  <2> DEFINE c == CHOOSE j \in DOMAIN e.tools : e.tools[j].index = n
  <2>2. c \in DOMAIN e.tools /\ e.tools[c].index = n
    BY <2>1
  <2> QED BY <1>3, <2>2
<1> QED BY <1>2, <1>3

LEMMA OutputType ==
  ASSUME NEW e, NEW q, Live(e, q)
  PROVE  Output(e) \in Outputs
<1>1. e \in Encoder /\ e.next \in Nat /\ e.text \in Seq(Pieces)
      /\ \A k \in DOMAIN e.tools : e.tools[k].arguments \in Seq(Pieces)
  BY EncoderType DEF Live
<1> DEFINE R == [kind : Kinds, content : Seq(Pieces)]
           out(i) == IF e.textIndex = i - 1 THEN [kind |-> "message", content |-> e.text]
                     ELSE LET k == CHOOSE j \in DOMAIN e.tools : e.tools[j].index = i - 1 IN
                          [kind |-> "function_call", content |-> e.tools[k].arguments]
<1>2. ASSUME NEW i \in 1 .. e.next PROVE out(i) \in R
  <2>1. i - 1 \in 0 .. e.next - 1
    BY <1>1
  <2>2. CASE e.textIndex = i - 1
    BY <1>1, <2>2 DEF Kinds
  <2>3. CASE e.textIndex # i - 1
    <3> DEFINE c == CHOOSE j \in DOMAIN e.tools : e.tools[j].index = i - 1
    <3>1. c \in DOMAIN e.tools
      BY <2>1, <2>3, ItemIs
    <3> HIDE DEF c
    <3>2. [kind |-> "function_call", content |-> e.tools[c].arguments] \in R
      BY <1>1, <3>1 DEF Kinds
    <3> QED BY <2>3, <3>2 DEF c
  <2> QED BY <2>2, <2>3
<1>3. Output(e) = [i \in 1 .. e.next |-> out(i)]
  BY DEF Output
<1> HIDE DEF out, R
<1>4. Output(e) \in Seq(R)
  BY <1>1, <1>2, <1>3
<1> QED BY <1>4 DEF R, Outputs

LEMMA PushEnd ==
  ASSUME NEW e, NEW q, Live(e, q), ~e.completed, e.created, NEW new, Closing(e, new),
         NEW d \in Encoder, d.id = e.id,
         d.sequence = e.sequence + Len(new), d.created = e.created, d.completed,
         d.next = e.next, d.textIndex = e.textIndex, d.text = e.text, d.tools = e.tools
  PROVE  Live(d, q \o Numbered(new, Len(q)))
<1> DEFINE L == Len(q)
           N == Len(new)
           t == Numbered(new, L)
           r == q \o t
<1>1. q \in Seq(FrameSet) /\ Valid(q) /\ Counts(e, q) /\ Places(e, q) /\ Texts(e, q) /\ e \in Encoder
  BY DEF Live
<1>2. L \in Nat /\ N \in Nat /\ N >= 1 /\ new \in Seq(NewFrames)
  BY <1>1 DEF Closing
<1>3. t \in Seq(FrameSet) /\ Len(t) = N /\ \A i \in 1 .. N : t[i] = WithNumber(new[i], L + i - 1)
  BY <1>2, NumberedType
<1> HIDE DEF t
<1>4. /\ r \in Seq(FrameSet) /\ Len(r) = L + N
      /\ \A i \in 1 .. L : r[i] = q[i]
      /\ \A i \in L + 1 .. L + N : r[i] = t[i - L]
  <2>1. /\ r \in Seq(FrameSet) /\ Len(r) = L + Len(t)
        /\ \A i \in 1 .. L : r[i] = q[i]
        /\ \A i \in L + 1 .. L + Len(t) : r[i] = t[i - L]
    BY <1>1, <1>3, Joined, Zenon
  <2> HIDE DEF r, L, N
  <2> QED BY <1>3, <2>1
<1> HIDE DEF r, L, N
<1>5. ASSUME NEW i \in 1 .. N
      PROVE  /\ L + i \in 1 .. L + N /\ r[L + i].type = new[i].type /\ r[L + i].kind = new[i].kind
             /\ r[L + i].id = new[i].id /\ r[L + i].index = new[i].index
             /\ r[L + i].content = new[i].content /\ r[L + i].sequence = L + i - 1
  <2>1. L + i \in L + 1 .. L + N /\ (L + i) - L = i /\ L + i \in 1 .. L + N
    BY <1>2
  <2>2. r[L + i] = WithNumber(new[i], L + i - 1)
    BY <1>3, <1>4, <2>1
  <2> QED BY <2>1, <2>2, NumberIs
<1>6. ASSUME NEW i \in 1 .. L + N
      PROVE  i \in 1 .. L \/ \E j \in 1 .. N : i = L + j
  <2> SUFFICES ASSUME i \notin 1 .. L PROVE i - L \in 1 .. N /\ i = L + (i - L)
    OBVIOUS
  <2> QED BY <1>2
<1>7. L # 0 /\ Open(q) /\ q[1].id = e.id /\ r[1] = q[1]
  BY <1>1, <1>2, <1>4 DEF Counts, L
<1>8. /\ \A i \in 1 .. N - 1 : RepeatsItem(e, new[i]) /\ i \in 1 .. N
      /\ \A n \in 0 .. e.next - 1 : \E i \in 1 .. N - 1 : ClosesAt(new, i, n)
      /\ \A i, j \in 1 .. N - 1 : i < j => ~ClosesAt(new, i, new[j].index)
      /\ new[N] = Completion(e) /\ N \in 1 .. N
  BY <1>2 DEF Closing, N
<1>9. \A i \in 1 .. N : new[i].type \in FinalTypes \cup {"response.completed"}
  <2> SUFFICES ASSUME NEW i \in 1 .. N PROVE new[i].type \in FinalTypes \cup {"response.completed"}
    OBVIOUS
  <2>1. CASE i = N
    BY <1>8, <2>1 DEF Completion, Frame
  <2>2. CASE i \in 1 .. N - 1
    BY <1>8, <2>2 DEF RepeatsItem
  <2> QED BY <1>2, <2>1, <2>2
<1>10. AddedTo(r, Len(r)) = AddedTo(q, L) /\ \A i \in AddedTo(q, L) : r[i] = q[i]
  <2>1. \A j \in 1 .. N : r[L + j].type # "output_item.added"
    BY <1>5, <1>9 DEF FinalTypes
  <2>2. \A i \in 1 .. L : i \in 1 .. L + N
    BY <1>2
  <2> QED BY <1>4, <1>6, <2>1, <2>2 DEF AddedTo
<1>11. IndicesTo(r, Len(r)) = 1 .. e.next
  BY <1>1, <1>10 DEF Places, IndicesTo, L
<1>12. Extends(r, q)
  BY <1>2, <1>4 DEF Extends, L
<1>13. e.next \in Nat
  BY <1>1, EncoderType
<1>14. ASSUME NEW i \in 1 .. Len(r) PROVE MayFollow(r, i)
  <2>1. CASE i \in 1 .. L
    <3>1. MayFollow(q, i) /\ q[i].type # "response.completed"
      BY <1>1, <1>7, <2>1 DEF Valid, Open, L
    <3>2. i \in Nat /\ i >= 1 /\ \A j \in 1 .. i : r[j] = q[j]
      BY <1>2, <1>4, <2>1
    <3> QED BY <3>1, <3>2, MayFollowSame
  <2>2. ASSUME NEW j \in 1 .. N - 1, i = L + j PROVE MayFollow(r, i)
    <3>1. RepeatsItem(e, new[j]) /\ j \in 1 .. N
      BY <1>8
    <3>2. r[i].type = new[j].type /\ r[i].index = new[j].index
      BY <1>5, <2>2, <3>1
    <3>3. r[i].type \in FinalTypes /\ r[i].index \in Nat /\ r[i].index < e.next
      BY <3>1, <3>2 DEF RepeatsItem
    <3>4. PICK a \in 1 .. L : Adds(r, a, r[i].index)
      BY <1>12, <3>3, ItemKnown DEF L
    <3>5. ASSUME NEW m \in 1 .. i - 1 PROVE ~ClosesAt(r, m, r[i].index)
      <4>1. CASE m \in 1 .. L
        BY <1>4, <1>7, <4>1 DEF Open, ClosesAt, FinalTypes, L
      <4>2. CASE m \notin 1 .. L
        <5>1. m \in 1 .. L + N
          BY <1>2, <2>2
        <5>2. PICK x \in 1 .. N : m = L + x
          BY <1>6, <4>2, <5>1
        <5>3. x < j /\ x \in 1 .. N - 1
          BY <1>2, <2>2, <5>2
        <5>4. ~ClosesAt(new, x, new[j].index)
          BY <1>8, <5>3
        <5> QED BY <1>5, <3>2, <5>2, <5>4 DEF ClosesAt
      <4> QED BY <4>1, <4>2
    <3>6. i # 1 /\ a \in 1 .. i - 1
      BY <1>2, <1>7, <2>2
    <3> QED BY <3>3, <3>4, <3>5, <3>6 DEF MayFollow, FinalTypes, PartTypes, DeltaTypes
  <2>3. CASE i = L + N
    <3>1. r[i].type = "response.completed"
      BY <1>5, <1>8, <2>3 DEF Completion, Frame
    <3>2. i # 1 /\ i = Len(r)
      BY <1>2, <1>4, <1>7, <2>3
    <3>3. ASSUME NEW j \in 1 .. i - 1, r[j].type = "output_item.added"
          PROVE  \E m \in 1 .. i - 1 : ClosesAt(r, m, r[j].index)
      <4>1. j \in AddedTo(r, Len(r))
        BY <1>2, <3>2, <3>3, <1>4, <2>3 DEF AddedTo
      <4>2. j \in AddedTo(q, L) /\ r[j] = q[j]
        BY <1>10, <4>1
      <4>3. q[j].index \in Nat
        <5>1. MayFollow(q, j) /\ q[j].type = "output_item.added"
          BY <1>1, <4>2 DEF Valid, AddedTo, L
        <5> QED BY <5>1 DEF MayFollow
      <4>4. q[j].index + 1 \in IndicesTo(r, Len(r))
        BY <4>1, <4>2 DEF IndicesTo
      <4>5. q[j].index \in 0 .. e.next - 1
        BY <1>11, <1>13, <4>3, <4>4
      <4>6. PICK x \in 1 .. N - 1 : ClosesAt(new, x, q[j].index)
        BY <1>8, <4>5
      <4>7. x \in 1 .. N /\ L + x \in 1 .. i - 1
        BY <1>2, <2>3
      <4>8. ClosesAt(r, L + x, r[j].index)
        BY <1>5, <4>2, <4>6, <4>7 DEF ClosesAt
      <4> QED BY <4>7, <4>8
    <3> QED BY <3>1, <3>2, <3>3 DEF MayFollow, PartTypes, DeltaTypes
  <2>4. i \in 1 .. L \/ i = L + N \/ \E j \in 1 .. N - 1 : i = L + j
    <3>1. i \in 1 .. L + N
      BY <1>4
    <3> QED BY <1>2, <1>6, <3>1
  <2> QED BY <2>1, <2>2, <2>3, <2>4
<1>15. AllFollow(r)
  BY <1>14 DEF AllFollow
<1>16. ASSUME NEW n PROVE Said(r, n) = Said(q, n)
  <2>1. NoDelta(r, n, Len(q))
    <3> SUFFICES ASSUME NEW i \in 1 .. Len(r), i > L PROVE r[i].type \notin DeltaTypes
      BY DEF NoDelta, L
    <3>1. PICK j \in 1 .. N : i = L + j
      BY <1>2, <1>4, <1>6
    <3>2. r[i].type = new[j].type
      BY <1>5, <3>1
    <3> QED BY <1>9, <3>2 DEF FinalTypes, DeltaTypes
  <2> QED BY <1>1, <1>4, <1>12, <2>1, SaidSame
<1>17. ASSUME NEW i \in 1 .. Len(r) PROVE IsNumbered(r, i)
  <2>1. CASE i \in 1 .. L
    <3>1. IsNumbered(q, i) /\ r[i] = q[i]
      BY <1>1, <1>4, <2>1 DEF Valid, L
    <3> QED BY <1>7, <3>1 DEF IsNumbered
  <2>2. ASSUME NEW j \in 1 .. N, i = L + j PROVE IsNumbered(r, i)
    <3>1. r[i].sequence = i - 1 /\ r[i].kind = new[j].kind /\ r[i].id = new[j].id
      <4>1. /\ r[L + j].kind = new[j].kind /\ r[L + j].id = new[j].id /\ r[L + j].sequence = L + j - 1
        BY <1>5, Zenon
      <4>2. L + j - 1 = i - 1 /\ r[L + j] = r[i]
        BY <1>2, <2>2
      <4> QED BY <4>1, <4>2
    <3>2. new[j].kind # "function_call" => new[j].id = e.id
      <4>1. CASE j = N
        BY <1>8, <4>1 DEF Completion, Frame
      <4>2. CASE j # N
        <5>1. j \in 1 .. N - 1
          BY <1>2, <4>2
        <5> QED BY <1>8, <5>1 DEF RepeatsItem
      <4> QED BY <4>1, <4>2
    <3> QED BY <1>7, <3>1, <3>2 DEF IsNumbered
  <2> QED BY <1>4, <1>6, <2>1, <2>2
<1>18. Indices(r) = 1 .. e.next
  BY <1>4, <1>11, IndicesAre
<1>19. Output(e) = [n \in Indices(r) |-> [kind |-> KindOf(r, n - 1), content |-> Said(r, n - 1)]]
  <2> DEFINE out(i) == IF e.textIndex = i - 1 THEN [kind |-> "message", content |-> e.text]
                       ELSE LET k == CHOOSE j \in DOMAIN e.tools : e.tools[j].index = i - 1 IN
                            [kind |-> "function_call", content |-> e.tools[k].arguments]
  <2>1. Output(e) = [n \in 1 .. e.next |-> out(n)]
    BY DEF Output
  <2>2. ASSUME NEW n \in 1 .. e.next
        PROVE  out(n) = [kind |-> KindOf(r, n - 1), content |-> Said(r, n - 1)]
    <3>1. n - 1 \in 0 .. e.next - 1
      BY <1>13
    <3>2. KindOf(r, n - 1) = IF n - 1 = e.textIndex THEN "message" ELSE "function_call"
      <4>1. n \in IndicesTo(r, Len(r))
        BY <1>11
      <4>2. PICK j \in AddedTo(r, Len(r)) : n = r[j].index + 1
        BY <4>1 DEF IndicesTo
      <4>3. j \in AddedTo(q, L) /\ r[j] = q[j]
        BY <1>10
      <4>4. r[j].index \in Nat
        <5>1. MayFollow(q, j) /\ q[j].type = "output_item.added"
          BY <1>1, <4>3 DEF Valid, AddedTo, L
        <5> QED BY <4>3, <5>1 DEF MayFollow
      <4>5. n - 1 = r[j].index
        BY <4>2, <4>4
      <4>6. KindOf(r, n - 1) = r[j].kind
        BY <1>4, <1>15, <4>5, KindIsOf
      <4>7. q[j].kind = IF q[j].index = e.textIndex THEN "message" ELSE "function_call"
        BY <1>1, <4>3 DEF Places, L
      <4> QED BY <4>3, <4>5, <4>6, <4>7
    <3>3. CASE e.textIndex = n - 1
      <4>1. Said(r, n - 1) = e.text
        BY <1>1, <1>16, <3>1, <3>3, ItemIs DEF Texts
      <4> QED BY <3>2, <3>3, <4>1
    <3>4. CASE e.textIndex # n - 1
      <4> DEFINE c == CHOOSE j \in DOMAIN e.tools : e.tools[j].index = n - 1
      <4>1. c \in DOMAIN e.tools /\ e.tools[c].index = n - 1
        BY <3>1, <3>4, ItemIs
      <4> HIDE DEF c
      <4>2. Said(r, n - 1) = e.tools[c].arguments
        BY <1>1, <1>16, <4>1 DEF Texts
      <4>3. out(n) = [kind |-> "function_call", content |-> e.tools[c].arguments]
        BY <3>4 DEF c
      <4> HIDE DEF out
      <4> QED BY <3>2, <3>4, <4>2, <4>3
    <3> QED BY <3>3, <3>4
  <2> HIDE DEF out
  <2> QED BY <1>18, <2>1, <2>2
<1>20. ASSUME NEW i \in 1 .. Len(r) PROVE Repeats(r, i)
  <2>1. CASE i \in 1 .. L
    BY <1>4, <1>7, <2>1 DEF Open, Repeats, L
  <2>2. ASSUME NEW j \in 1 .. N - 1, i = L + j PROVE Repeats(r, i)
    <3>1. RepeatsItem(e, new[j]) /\ j \in 1 .. N
      BY <1>8
    <3>2. r[i].type = new[j].type /\ r[i].index = new[j].index /\ r[i].content = new[j].content
      BY <1>5, <2>2, <3>1
    <3>3. r[i].type # "response.completed"
      BY <3>1, <3>2 DEF RepeatsItem, FinalTypes
    <3>4. r[i].content = Said(r, r[i].index)
      BY <1>1, <1>16, <3>1, <3>2 DEF RepeatsItem, Texts
    <3> QED BY <3>3, <3>4 DEF Repeats
  <2>3. CASE i = L + N
    <3>1. r[i].type = "response.completed" /\ r[i].content.output = Output(e)
      BY <1>5, <1>8, <2>3 DEF Completion, Frame
    <3> QED BY <1>19, <3>1 DEF Repeats, FinalTypes
  <2>4. i \in 1 .. L \/ i = L + N \/ \E j \in 1 .. N - 1 : i = L + j
    <3>1. i \in 1 .. L + N
      BY <1>4
    <3> QED BY <1>2, <1>6, <3>1
  <2> QED BY <2>1, <2>2, <2>3, <2>4
<1>21. Valid(r)
  BY <1>14, <1>17, <1>20 DEF Valid
<1>22. Counts(d, r)
  <2>1. L + N \in DOMAIN r /\ r[L + N].type = "response.completed"
    <3>1. DOMAIN r = 1 .. L + N
      BY <1>4
    <3> QED BY <1>5, <1>8, <3>1 DEF Completion, Frame
  <2>2. d.sequence = Len(r) /\ Len(r) # 0
    BY <1>1, <1>2, <1>4 DEF Counts, L, N
  <2> QED BY <1>1, <1>7, <2>1, <2>2 DEF Counts, Holds
<1>23. Places(d, r)
  BY <1>1, <1>10, <1>11 DEF Places, L
<1>24. Texts(d, r)
  BY <1>1, <1>16 DEF Texts
<1> QED BY <1>4, <1>21, <1>22, <1>23, <1>24 DEF Live, r, t, L

LEMMA JoinedNew ==
  ASSUME NEW q \in Seq(NewFrames), NEW r \in Seq(NewFrames)
  PROVE  /\ q \o r \in Seq(NewFrames) /\ Len(q) \in Nat /\ Len(r) \in Nat
         /\ Len(q \o r) = Len(q) + Len(r)
         /\ \A i \in 1 .. Len(q) : (q \o r)[i] = q[i]
         /\ \A i \in Len(q) + 1 .. Len(q) + Len(r) : (q \o r)[i] = r[i - Len(q)]
<1>1. q \o r \in Seq(NewFrames) /\ Len(q \o r) = Len(q) + Len(r)
  BY ConcatProperties, Zenon
<1>2. \A i \in 1 .. Len(q) + Len(r) : (q \o r)[i] = IF i <= Len(q) THEN q[i] ELSE r[i - Len(q)]
  BY ConcatProperties, Zenon
<1>3. Len(q) \in Nat /\ Len(r) \in Nat
  OBVIOUS
<1> HIDE DEF NewFrames
<1> QED BY <1>1, <1>2, <1>3

LEMMA MessageClosed ==
  ASSUME NEW e, NEW q, Live(e, q)
  PROVE  /\ ClosedMessage(e) \in Seq(NewFrames)
         /\ e.textIndex = None => Len(ClosedMessage(e)) = 0
         /\ e.textIndex # None => Len(ClosedMessage(e)) = 3 /\ ClosesAt(ClosedMessage(e), 3, e.textIndex)
         /\ \A i \in 1 .. Len(ClosedMessage(e)) :
              /\ RepeatsItem(e, ClosedMessage(e)[i]) /\ ClosedMessage(e)[i].index = e.textIndex
              /\ ClosedMessage(e)[i].type = "output_item.done" => i = 3
<1> DEFINE a == Message("output_text.done", e, e.text)
           b == Message("content_part.done", e, e.text)
           c == Message("output_item.done", e, e.text)
<1>1. e \in Encoder /\ Places(e, q)
  BY DEF Live
<1>2. CASE e.textIndex = None
  <2>1. ClosedMessage(e) = <<>>
    BY <1>2 DEF ClosedMessage
  <2> QED BY <1>2, <2>1
<1>3. CASE e.textIndex # None
  <2>1. e.textIndex \in Nat /\ e.textIndex < e.next /\ e.text \in Seq(Pieces) /\ e.id \in ResponseIds
    BY <1>1, <1>3, EncoderType DEF Places
  <2>2. ASSUME NEW type \in FinalTypes
        PROVE  Message(type, e, e.text) \in NewFrames /\ RepeatsItem(e, Message(type, e, e.text))
    BY <1>3, <2>1, <2>2 DEF Message, Frame, NewFrames, Kinds, Types, Contents, RepeatsItem, FinalTypes, PartTypes
  <2>3. a \in NewFrames /\ b \in NewFrames /\ c \in NewFrames
        /\ RepeatsItem(e, a) /\ RepeatsItem(e, b) /\ RepeatsItem(e, c)
    BY <2>2 DEF FinalTypes
  <2>4. /\ a.type = "output_text.done" /\ b.type = "content_part.done" /\ c.type = "output_item.done"
        /\ a.index = e.textIndex /\ b.index = e.textIndex /\ c.index = e.textIndex
    BY DEF Message, Frame
  <2>5. ClosedMessage(e) = <<a, b, c>>
    BY <1>3 DEF ClosedMessage
  <2> HIDE DEF a, b, c
  <2>6. /\ <<a, b, c>> \in Seq(NewFrames) /\ Len(<<a, b, c>>) = 3
        /\ <<a, b, c>>[1] = a /\ <<a, b, c>>[2] = b /\ <<a, b, c>>[3] = c
    BY <2>3
  <2>7. \A i \in 1 .. 3 : i = 1 \/ i = 2 \/ i = 3
    OBVIOUS
  <2> DEFINE s == ClosedMessage(e)
  <2>8. s \in Seq(NewFrames) /\ Len(s) = 3 /\ s[1] = a /\ s[2] = b /\ s[3] = c
    BY <2>5, <2>6
  <2> HIDE DEF s
  <2>9. ASSUME NEW i \in 1 .. Len(s)
        PROVE  RepeatsItem(e, s[i]) /\ s[i].index = e.textIndex /\ (s[i].type = "output_item.done" => i = 3)
    BY <2>3, <2>4, <2>7, <2>8
  <2>10. ClosesAt(s, 3, e.textIndex)
    BY <2>4, <2>8 DEF ClosesAt
  <2> QED BY <1>3, <2>8, <2>9, <2>10 DEF s
<1> QED BY <1>2, <1>3

\* The call that frame x of the closed calls is about.
CallAt(e, x) == Ascending(DOMAIN e.tools)[(x + 1) \div 2]

LEMMA CallsClosed ==
  ASSUME NEW e, NEW q, Live(e, q), NEW s, s = ClosedCalls(e)
  PROVE  /\ s \in Seq(NewFrames) /\ Len(s) \in Nat
         /\ \A x \in 1 .. Len(s) :
              RepeatsItem(e, s[x]) /\ CallAt(e, x) \in DOMAIN e.tools /\ s[x].index = e.tools[CallAt(e, x)].index
         /\ \A k \in DOMAIN e.tools : \E x \in 1 .. Len(s) : ClosesAt(s, x, e.tools[k].index)
         /\ \A x, y \in 1 .. Len(s) : x < y /\ s[x].type = "output_item.done" => s[x].index # s[y].index
<1> DEFINE slots == Ascending(DOMAIN e.tools)
           K == Len(slots)
           type(x) == IF x % 2 = 1 THEN "function_call_arguments.done" ELSE "output_item.done"
           call(x) == Call(type(x), e.tools[CallAt(e, x)].index, e.tools[CallAt(e, x)].arguments)
<1>1. e \in Encoder /\ Places(e, q)
  BY DEF Live
<1>2. DOMAIN e.tools \in SUBSET Nat /\ IsFiniteSet(DOMAIN e.tools)
  BY <1>1, EncoderType, ConstantsAssumption DEF Places
<1>3. /\ K \in Nat
      /\ \A i \in 1 .. K : slots[i] \in DOMAIN e.tools
      /\ \A i, j \in 1 .. K : slots[i] = slots[j] => i = j
      /\ \A k \in DOMAIN e.tools : \E i \in 1 .. K : slots[i] = k
  BY <1>2, AscendingIs
<1>4. s = [x \in 1 .. 2 * K |-> call(x)]
  BY DEF ClosedCalls, CallAt
<1> HIDE DEF slots, K
<1>5. ASSUME NEW x \in 1 .. 2 * K PROVE (x + 1) \div 2 \in 1 .. K
  BY <1>3
<1>6. ASSUME NEW x \in 1 .. 2 * K PROVE CallAt(e, x) \in DOMAIN e.tools
  BY <1>3, <1>5 DEF CallAt, slots
<1>7. ASSUME NEW x \in 1 .. 2 * K PROVE call(x) \in NewFrames /\ RepeatsItem(e, call(x))
  <2> DEFINE k == CallAt(e, x)
  <2>1. k \in DOMAIN e.tools
    BY <1>6
  <2> HIDE DEF k
  <2>2. e.tools[k].index \in Nat /\ e.tools[k].index < e.next /\ e.tools[k].arguments \in Seq(Pieces)
    BY <1>1, <2>1, EncoderType DEF Places
  <2>3. type(x) \in FinalTypes
    BY DEF FinalTypes
  <2> HIDE DEF type
  <2>4. call(x) = [type |-> type(x), kind |-> "function_call", id |-> None, index |-> e.tools[k].index,
                   content |-> e.tools[k].arguments]
    BY DEF Call, Frame, k
  <2> HIDE DEF call
  <2>5. call(x) \in NewFrames
    BY <2>2, <2>3, <2>4 DEF NewFrames, Kinds, Types, Contents, ResponseIds, FinalTypes, PartTypes
  <2>6. RepeatsItem(e, call(x))
    BY <2>1, <2>2, <2>3, <2>4 DEF RepeatsItem
  <2> QED BY <2>5, <2>6
<1>8. ASSUME NEW x PROVE call(x).index = e.tools[CallAt(e, x)].index /\ call(x).type = type(x)
  BY DEF Call, Frame
<1> HIDE DEF call
<1>9. s \in Seq(NewFrames) /\ Len(s) = 2 * K /\ \A x \in 1 .. 2 * K : s[x] = call(x)
  <2>1. 2 * K \in Nat
    BY <1>3
  <2> HIDE DEF NewFrames
  <2> QED BY <1>4, <1>7, <2>1
<1>10. ASSUME NEW k \in DOMAIN e.tools
       PROVE  \E x \in 1 .. 2 * K : ClosesAt(s, x, e.tools[k].index)
  <2>1. PICK i \in 1 .. K : slots[i] = k
    BY <1>3
  <2>2. 2 * i \in 1 .. 2 * K /\ (2 * i + 1) \div 2 = i /\ (2 * i) % 2 # 1
    BY <1>3
  <2>3. CallAt(e, 2 * i) = k
    BY <2>1, <2>2 DEF CallAt, slots
  <2>4. s[2 * i].type = "output_item.done" /\ s[2 * i].index = e.tools[k].index
    BY <1>8, <1>9, <2>2, <2>3
  <2> QED BY <2>2, <2>4 DEF ClosesAt
<1>11. ASSUME NEW x \in 1 .. 2 * K, NEW y \in 1 .. 2 * K, x < y, s[x].type = "output_item.done"
       PROVE  s[x].index # s[y].index
  <2>1. x % 2 # 1
    BY <1>8, <1>9, <1>11
  <2>2. (x + 1) \div 2 # (y + 1) \div 2
    BY <1>3, <1>11, <2>1
  <2>3. CallAt(e, x) # CallAt(e, y)
    BY <1>3, <1>5, <2>2 DEF CallAt, slots
  <2>4. e.tools[CallAt(e, x)].index # e.tools[CallAt(e, y)].index
    BY <1>1, <1>6, <2>3 DEF Places
  <2> QED BY <1>8, <1>9, <2>4
<1>12. \A x \in 1 .. 2 * K :
          RepeatsItem(e, s[x]) /\ CallAt(e, x) \in DOMAIN e.tools /\ s[x].index = e.tools[CallAt(e, x)].index
  BY <1>6, <1>7, <1>8, <1>9
<1>13. 2 * K \in Nat
  BY <1>3
<1> QED BY <1>9, <1>10, <1>11, <1>12, <1>13

LEMMA ClosingIs ==
  ASSUME NEW e, NEW q, Live(e, q)
  PROVE  Closing(e, ClosedMessage(e) \o ClosedCalls(e) \o <<Completion(e)>>)
<1> DEFINE s == ClosedMessage(e)
           t == ClosedCalls(e)
           u == s \o t
           c == Completion(e)
           new == u \o <<c>>
           a == Len(s)
           b == Len(t)
<1>1. e \in Encoder /\ Places(e, q) /\ e.next \in Nat
      /\ \A k \in DOMAIN e.tools : e.tools[k].index \in Nat /\ e.tools[k].index # e.textIndex
  BY EncoderType DEF Live, Places
<1>2. /\ s \in Seq(NewFrames) /\ a \in Nat
      /\ e.textIndex = None => a = 0
      /\ e.textIndex # None => a = 3 /\ ClosesAt(s, 3, e.textIndex)
      /\ \A i \in 1 .. a :
           /\ RepeatsItem(e, s[i]) /\ s[i].index = e.textIndex
           /\ s[i].type = "output_item.done" => i = 3
  BY MessageClosed
<1> HIDE DEF s
<1>3. /\ t \in Seq(NewFrames) /\ b \in Nat
      /\ \A x \in 1 .. b :
           RepeatsItem(e, t[x]) /\ CallAt(e, x) \in DOMAIN e.tools /\ t[x].index = e.tools[CallAt(e, x)].index
      /\ \A k \in DOMAIN e.tools : \E x \in 1 .. b : ClosesAt(t, x, e.tools[k].index)
      /\ \A x, y \in 1 .. b : x < y /\ t[x].type = "output_item.done" => t[x].index # t[y].index
  BY CallsClosed
<1> HIDE DEF t
<1>4. c \in NewFrames
  <2>1. Output(e) \in Outputs
    BY OutputType
  <2>2. e.id \in ResponseIds /\ e.usage \in Usages \cup {None}
    BY <1>1 DEF Encoder
  <2> QED BY <2>1, <2>2 DEF Completion, Frame, NewFrames, Kinds, Types, Contents
<1> HIDE DEF c
<1>5. /\ u \in Seq(NewFrames) /\ Len(u) = a + b
      /\ \A i \in 1 .. a : u[i] = s[i]
      /\ \A i \in a + 1 .. a + b : u[i] = t[i - a]
  BY <1>2, <1>3, JoinedNew, Zenon
<1> HIDE DEF u
<1>6. <<c>> \in Seq(NewFrames) /\ Len(<<c>>) = 1 /\ <<c>>[1] = c
  BY <1>4
<1>7. /\ new \in Seq(NewFrames) /\ Len(new) = a + b + 1
      /\ \A i \in 1 .. a + b : new[i] = u[i]
      /\ new[a + b + 1] = c
  <2> DEFINE v == <<c>>
  <2>1. v \in Seq(NewFrames) /\ Len(v) = 1 /\ v[1] = c
    BY <1>6
  <2> HIDE DEF v
  <2>2. /\ u \o v \in Seq(NewFrames) /\ Len(u \o v) = Len(u) + Len(v)
        /\ \A i \in 1 .. Len(u) : (u \o v)[i] = u[i]
        /\ \A i \in Len(u) + 1 .. Len(u) + Len(v) : (u \o v)[i] = v[i - Len(u)]
    BY <1>5, <2>1, JoinedNew, Zenon
  <2> DEFINE w == u \o v
             m == a + b
  <2>3. m \in Nat /\ m = a + b
    BY <1>2, <1>3
  <2> HIDE DEF w, m
  <2>4. /\ w \in Seq(NewFrames) /\ Len(w) = m + 1
        /\ \A i \in 1 .. m : w[i] = u[i]
        /\ \A i \in m + 1 .. m + 1 : w[i] = v[i - m]
    BY <1>5, <2>1, <2>2, <2>3 DEF w
  <2>5. w[m + 1] = v[1]
    BY <2>3, <2>4
  <2> QED BY <2>1, <2>3, <2>4, <2>5 DEF w, v
<1> HIDE DEF new
<1> DEFINE m == a + b
<1> HIDE DEF a, b
<1>8. m \in Nat /\ Len(new) = m + 1 /\ Len(new) >= 1 /\ Len(new) - 1 = m /\ a \in Nat /\ b \in Nat
  BY <1>2, <1>3, <1>7
<1>9. /\ \A i \in 1 .. a : i \in 1 .. m /\ new[i] = s[i]
      /\ \A x \in 1 .. b : a + x \in 1 .. m /\ new[a + x] = t[x]
  <2>1. ASSUME NEW i \in 1 .. a PROVE i \in 1 .. m /\ new[i] = s[i]
    BY <1>5, <1>7, <1>8
  <2>2. ASSUME NEW x \in 1 .. b PROVE a + x \in 1 .. m /\ new[a + x] = t[x]
    <3>1. a + x \in 1 .. a + b /\ a + x \in a + 1 .. a + b /\ (a + x) - a = x
      BY <1>8
    <3> QED BY <1>5, <1>7, <3>1
  <2> QED BY <2>1, <2>2
<1>10. \A i \in 1 .. m : i \in 1 .. a \/ \E x \in 1 .. b : i = a + x
  <2> SUFFICES ASSUME NEW i \in 1 .. m, i \notin 1 .. a PROVE i - a \in 1 .. b /\ i = a + (i - a)
    OBVIOUS
  <2> QED BY <1>8
<1>11. ASSUME NEW i \in 1 .. m PROVE RepeatsItem(e, new[i])
  BY <1>2, <1>3, <1>9, <1>10
<1>12. ASSUME NEW n \in 0 .. e.next - 1 PROVE \E i \in 1 .. m : ClosesAt(new, i, n)
  <2>1. CASE e.textIndex = n /\ e.textIndex # None
    <3>1. 3 \in 1 .. a /\ ClosesAt(s, 3, n)
      BY <1>2, <2>1
    <3> QED BY <1>9, <3>1 DEF ClosesAt
  <2>2. ASSUME NEW k \in DOMAIN e.tools, e.tools[k].index = n PROVE \E i \in 1 .. m : ClosesAt(new, i, n)
    <3>1. PICK x \in 1 .. b : ClosesAt(t, x, n)
      BY <1>3, <2>2
    <3> QED BY <1>9, <3>1 DEF ClosesAt
  <2> QED BY <2>1, <2>2, ItemIs
<1>13. ASSUME NEW i \in 1 .. m, NEW j \in 1 .. m, i < j PROVE ~ClosesAt(new, i, new[j].index)
  <2>1. CASE i \in 1 .. a
    <3>1. CASE j \in 1 .. a
      <4>1. i # 3
        BY <1>2, <1>8, <1>13, <3>1
      <4> QED BY <1>2, <1>9, <2>1, <4>1 DEF ClosesAt
    <3>2. ASSUME NEW y \in 1 .. b, j = a + y PROVE ~ClosesAt(new, i, new[j].index)
      <4>1. new[j].index = e.tools[CallAt(e, y)].index /\ CallAt(e, y) \in DOMAIN e.tools
        BY <1>3, <1>9, <3>2
      <4>2. new[i].index = e.textIndex
        BY <1>2, <1>9, <2>1
      <4> QED BY <1>1, <4>1, <4>2 DEF ClosesAt
    <3> QED BY <1>10, <3>1, <3>2
  <2>2. ASSUME NEW x \in 1 .. b, i = a + x PROVE ~ClosesAt(new, i, new[j].index)
    <3>1. j \notin 1 .. a
      BY <1>8, <1>13, <2>2
    <3>2. PICK y \in 1 .. b : j = a + y
      BY <1>10, <3>1
    <3>3. x < y
      BY <1>8, <1>13, <2>2, <3>2
    <3>4. new[i] = t[x] /\ new[j] = t[y]
      BY <1>9, <2>2, <3>2
    <3> QED BY <1>3, <3>3, <3>4 DEF ClosesAt
  <2> QED BY <1>10, <2>1, <2>2
<1>14. new[Len(new)] = Completion(e)
  BY <1>7, <1>8 DEF c
<1>15. Closing(e, new)
  BY <1>7, <1>8, <1>11, <1>12, <1>13, <1>14 DEF Closing
<1> QED BY <1>15 DEF new, u, s, t, c

-----------------------------------------------------------------------------
(* What each canonical event does to the encoder and the stream *)

Counted(e, new) == [e EXCEPT !.sequence = @ + Len(new)]
Emitted(q, new) == q \o Numbered(new, Len(q))

LEMMA CountedIs ==
  ASSUME NEW e \in Encoder, NEW new \in Seq(NewFrames)
  PROVE  /\ Counted(e, new) \in Encoder /\ Counted(e, new).id = e.id
         /\ Counted(e, new).sequence = e.sequence + Len(new)
         /\ Counted(e, new).created = e.created /\ Counted(e, new).completed = e.completed
         /\ Counted(e, new).next = e.next /\ Counted(e, new).textIndex = e.textIndex
         /\ Counted(e, new).text = e.text /\ Counted(e, new).tools = e.tools
         /\ Counted(e, new).usage = e.usage
<1>1. Len(new) \in Nat /\ e.sequence \in Nat
  BY EncoderType
<1> QED BY <1>1 DEF Counted, Encoder

LEMMA CreatedIs ==
  ASSUME NEW e \in Encoder, NEW d, d = Created(e)
  PROVE  /\ d \in Encoder /\ d.id = (IF ~e.created /\ e.id = None THEN Default ELSE e.id)
         /\ d.created = TRUE /\ d.sequence = e.sequence /\ d.completed = e.completed /\ d.next = e.next
         /\ d.textIndex = e.textIndex /\ d.text = e.text /\ d.tools = e.tools /\ d.usage = e.usage
BY DEF Created, Encoder, ResponseIds

LEMMA OpeningType ==
  ASSUME NEW e \in Encoder
  PROVE  /\ Opening(e) \in Seq(NewFrames)
         /\ e.created => Opening(e) = <<>> /\ Len(Opening(e)) = 0
         /\ ~e.created =>
              /\ Opening(e) = <<Frame("response.created", "response", Created(e).id, None, <<>>)>>
              /\ Frame("response.created", "response", Created(e).id, None, <<>>) \in NewFrames
              /\ Len(Opening(e)) = 1
<1> DEFINE f == Frame("response.created", "response", Created(e).id, None, <<>>)
<1>1. Created(e).id \in ResponseIds
  BY CreatedIs, EncoderType
<1>2. f \in NewFrames
  <2>1. <<>> \in Seq(Pieces)
    OBVIOUS
  <2> QED BY <1>1, <2>1 DEF Frame, NewFrames, Kinds, Types, Contents
<1> HIDE DEF f
<1>3. Opening(e) = IF e.created THEN <<>> ELSE <<f>>
  BY DEF Opening, f
<1> QED BY <1>2, <1>3 DEF f

\* ensure_created, whatever the event.
LEMMA OpenedLive ==
  ASSUME NEW e, NEW q, Live(e, q), ~e.completed
  PROVE  Live(Counted(Created(e), Opening(e)), Emitted(q, Opening(e)))
<1> DEFINE c == Created(e)
           d == Counted(c, Opening(e))
<1>1. e \in Encoder /\ q \in Seq(FrameSet) /\ Counts(e, q) /\ Valid(q) /\ Places(e, q) /\ Texts(e, q)
  BY DEF Live
<1>2. /\ c \in Encoder /\ c.id = (IF ~e.created /\ e.id = None THEN Default ELSE e.id)
      /\ c.created = TRUE /\ c.sequence = e.sequence /\ c.completed = e.completed /\ c.next = e.next
      /\ c.textIndex = e.textIndex /\ c.text = e.text /\ c.tools = e.tools
  BY <1>1, CreatedIs
<1>3. Opening(e) \in Seq(NewFrames)
  BY <1>1, OpeningType
<1>4. /\ d \in Encoder /\ d.id = c.id /\ d.sequence = c.sequence + Len(Opening(e))
      /\ d.created = c.created /\ d.completed = c.completed /\ d.next = c.next
      /\ d.textIndex = c.textIndex /\ d.text = c.text /\ d.tools = c.tools
  BY <1>2, <1>3, CountedIs
<1>5. Len(q) \in Nat /\ e.sequence \in Nat /\ e.created \in BOOLEAN
  BY <1>1, EncoderType
<1> HIDE DEF c, d
<1>6. CASE e.created
  <2>1. Opening(e) = <<>> /\ Len(Opening(e)) = 0
    BY <1>1, <1>6, OpeningType
  <2>2. Emitted(q, Opening(e)) = q
    BY <1>1, <1>5, <2>1, NumberedNone DEF Emitted
  <2>3. d.id = e.id /\ d.sequence = e.sequence /\ d.created = e.created
    <3>1. d.id = e.id /\ d.sequence = e.sequence
      BY <1>2, <1>4, <1>5, <1>6, <2>1
    <3>2. d.created = e.created
      BY <1>2, <1>4, <1>5, <1>6
    <3> QED BY <3>1, <3>2
  <2>4. Counts(d, q)
    BY <1>1, <1>2, <1>4, <2>3 DEF Counts
  <2>5. Places(d, q) /\ Texts(d, q)
    BY <1>1, <1>2, <1>4 DEF Places, Texts
  <2> QED BY <1>1, <1>4, <2>2, <2>4, <2>5 DEF Live, d, c
<1>7. CASE ~e.created
  <2> DEFINE f == Frame("response.created", "response", Created(e).id, None, <<>>)
  <2>1. Opening(e) = <<f>> /\ f \in NewFrames /\ Len(Opening(e)) = 1
    BY <1>1, <1>7, OpeningType
  <2>2. f.type = "response.created" /\ f.id = d.id
    BY <1>4 DEF Frame, c
  <2> HIDE DEF f
  <2>3. Emitted(q, Opening(e)) = Then(q, f)
    BY <1>1, <2>1, NumberedOne DEF Emitted, Then
  <2>4. d.id # None
    BY <1>2, <1>4, <1>7, ConstantsAssumption
  <2>5. d.sequence = e.sequence + 1 /\ d.created
    BY <1>2, <1>4, <2>1
  <2>6. /\ d.completed = e.completed /\ d.next = e.next
        /\ d.textIndex = e.textIndex /\ d.text = e.text /\ d.tools = e.tools
    BY <1>2, <1>4
  <2>7. Live(d, Then(q, f))
    BY <1>4, <1>7, <2>1, <2>2, <2>4, <2>5, <2>6, PushCreated
  <2> QED BY <2>3, <2>7 DEF d, c
<1> QED BY <1>5, <1>6, <1>7

\* Frames emitted in two parts.
LEMMA EmittedConcat ==
  ASSUME NEW q \in Seq(FrameSet), NEW a \in Seq(NewFrames), NEW b \in Seq(NewFrames)
  PROVE  Emitted(q, a \o b) = Emitted(Emitted(q, a), b)
BY NumberedConcat DEF Emitted

LEMMA EmittedType ==
  ASSUME NEW q \in Seq(FrameSet), NEW a \in Seq(NewFrames)
  PROVE  Emitted(q, a) \in Seq(FrameSet)
<1>1. Numbered(a, Len(q)) \in Seq(FrameSet)
  BY NumberedType
<1> QED BY <1>1, Joined DEF Emitted

LEMMA EmittedOne ==
  ASSUME NEW q \in Seq(FrameSet), NEW f \in NewFrames
  PROVE  Emitted(q, <<f>>) = Then(q, f)
BY NumberedOne DEF Emitted, Then

LEMMA EmittedTwo ==
  ASSUME NEW q \in Seq(FrameSet), NEW f \in NewFrames, NEW g \in NewFrames
  PROVE  Emitted(q, <<f, g>>) = Then(Then(q, f), g)
<1>1. <<f>> \in Seq(NewFrames) /\ <<g>> \in Seq(NewFrames)
  OBVIOUS
<1>2. <<f, g>> = <<f>> \o <<g>>
  <2>1. <<f, g>> \in Seq(NewFrames) /\ Len(<<f, g>>) = 2 /\ <<f, g>>[1] = f /\ <<f, g>>[2] = g
    OBVIOUS
  <2>2. Len(<<f>>) = 1 /\ Len(<<g>>) = 1 /\ <<f>>[1] = f /\ <<g>>[1] = g
    OBVIOUS
  <2> DEFINE a == <<f>>
             b == <<g>>
             c == <<f, g>>
  <2>3. /\ a \in Seq(NewFrames) /\ b \in Seq(NewFrames) /\ Len(a) = 1 /\ Len(b) = 1 /\ a[1] = f /\ b[1] = g
        /\ c \in Seq(NewFrames) /\ Len(c) = 2 /\ c[1] = f /\ c[2] = g
    BY <1>1, <2>1, <2>2
  <2> HIDE DEF a, b, c
  <2>4. /\ a \o b \in Seq(NewFrames) /\ Len(a \o b) = Len(a) + Len(b)
        /\ \A i \in 1 .. Len(a) : (a \o b)[i] = a[i]
        /\ \A i \in Len(a) + 1 .. Len(a) + Len(b) : (a \o b)[i] = b[i - Len(a)]
    BY <2>3, JoinedNew, Zenon
  <2> DEFINE d == a \o b
  <2> HIDE DEF d
  <2>5. d \in Seq(NewFrames) /\ Len(d) = 2 /\ d[1] = f /\ d[2] = g
    BY <2>3, <2>4 DEF d
  <2>6. Len(c) = Len(d) /\ \A i \in 1 .. Len(c) : c[i] = d[i]
    BY <2>3, <2>5
  <2>7. c = d
    BY <2>3, <2>5, <2>6, SeqEqual, Zenon
  <2> QED BY <2>7 DEF a, b, c, d
<1>3. Emitted(q, <<f>> \o <<g>>) = Emitted(Emitted(q, <<f>>), <<g>>)
  BY <1>1, EmittedConcat
<1>4. Emitted(q, <<f>>) = Then(q, f)
  BY EmittedOne
<1>5. Then(q, f) \in Seq(FrameSet)
  BY ThenIs
<1>6. Emitted(Then(q, f), <<g>>) = Then(Then(q, f), g)
  BY <1>5, EmittedOne
<1> QED BY <1>2, <1>3, <1>4, <1>6

LEMMA StartLive ==
  ASSUME NEW e, NEW q, Live(e, q), ~e.completed, NEW id \in ResponseIds,
         NEW d, d = [e EXCEPT !.id = IF @ = None THEN id ELSE @]
  PROVE  d \in Encoder /\ Live(d, q) /\ ~d.completed
<1>1. e \in Encoder /\ Counts(e, q) /\ q \in Seq(FrameSet) /\ Valid(q) /\ Places(e, q) /\ Texts(e, q)
  BY DEF Live
<1>2. /\ d \in Encoder /\ d.id = (IF e.id = None THEN id ELSE e.id)
      /\ d.created = e.created /\ d.sequence = e.sequence /\ d.completed = e.completed /\ d.next = e.next
      /\ d.textIndex = e.textIndex /\ d.text = e.text /\ d.tools = e.tools
  BY <1>1 DEF Encoder
<1>3. Counts(d, q)
  BY <1>1, <1>2 DEF Counts
<1>4. Places(d, q) /\ Texts(d, q)
  BY <1>1, <1>2 DEF Places, Texts
<1> QED BY <1>1, <1>2, <1>3, <1>4 DEF Live

LEMMA UsageLive ==
  ASSUME NEW e, NEW q, Live(e, q), NEW usage \in Usages \cup {None}, NEW d, d = [e EXCEPT !.usage = usage]
  PROVE  d \in Encoder /\ Live(d, q)
<1>1. e \in Encoder /\ Counts(e, q) /\ q \in Seq(FrameSet) /\ Valid(q) /\ Places(e, q) /\ Texts(e, q)
  BY DEF Live
<1>2. /\ d \in Encoder /\ d.id = e.id
      /\ d.created = e.created /\ d.sequence = e.sequence /\ d.completed = e.completed /\ d.next = e.next
      /\ d.textIndex = e.textIndex /\ d.text = e.text /\ d.tools = e.tools
  BY <1>1 DEF Encoder
<1>3. Counts(d, q)
  BY <1>1, <1>2 DEF Counts
<1>4. Places(d, q) /\ Texts(d, q)
  BY <1>1, <1>2 DEF Places, Texts
<1> QED BY <1>1, <1>2, <1>3, <1>4 DEF Live

LEMMA FrameType ==
  ASSUME NEW type \in Types, NEW kind \in Kinds, NEW id \in ResponseIds, NEW index \in Nat \cup {None},
         NEW content \in Seq(Pieces)
  PROVE  /\ Frame(type, kind, id, index, content) \in NewFrames
         /\ Frame(type, kind, id, index, content).type = type
         /\ Frame(type, kind, id, index, content).kind = kind
         /\ Frame(type, kind, id, index, content).id = id
         /\ Frame(type, kind, id, index, content).index = index
         /\ Frame(type, kind, id, index, content).content = content
BY DEF Frame, NewFrames, Contents

IsFrame(f, type, kind, id, index, content) ==
  /\ f \in NewFrames /\ f.type = type /\ f.kind = kind /\ f.id = id /\ f.index = index
  /\ f.content = content

LEMMA MessageType ==
  ASSUME NEW type \in Types, NEW e \in Encoder, NEW content \in Seq(Pieces)
  PROVE  IsFrame(Message(type, e, content), type, "message", e.id, e.textIndex, content)
<1>1. e.id \in ResponseIds /\ e.textIndex \in Nat \cup {None} /\ "message" \in Kinds
  BY EncoderType DEF Kinds
<1> QED BY <1>1 DEF Message, Frame, NewFrames, Contents, IsFrame

OpensMessage(c, q, f, g, d) ==
  /\ Live(d, Emitted(q, <<f, g>>))
  /\ d.id = c.id /\ d.sequence = c.sequence + 2 /\ d.created = c.created
  /\ d.completed = c.completed /\ d.next = c.next + 1 /\ d.textIndex = c.next
  /\ d.text = c.text /\ d.tools = c.tools

\* The message the first piece of text opens.
LEMMA MessageOpened ==
  ASSUME NEW c, NEW q, Live(c, q), ~c.completed, c.created, c.textIndex = None,
         NEW f \in NewFrames, NEW g \in NewFrames,
         f.type = "output_item.added", f.kind = "message", f.id = c.id, f.index = c.next, f.content = <<>>,
         g.type = "content_part.added", g.id = c.id, g.index = c.next
  PROVE  \E d \in Encoder : OpensMessage(c, q, f, g, d)
<1> DEFINE d1 == [c EXCEPT !.textIndex = c.next, !.next = @ + 1, !.sequence = @ + 1]
           d2 == [d1 EXCEPT !.sequence = @ + 1]
<1>1. c \in Encoder /\ q \in Seq(FrameSet) /\ c.next \in Nat /\ c.sequence \in Nat
  BY EncoderType DEF Live
<1>2. /\ d1 \in Encoder /\ d1.id = c.id /\ d1.sequence = c.sequence + 1 /\ d1.created = c.created
      /\ d1.completed = c.completed /\ d1.next = c.next + 1 /\ d1.textIndex = c.next
      /\ d1.text = c.text /\ d1.tools = c.tools
  <2>1. c.next + 1 \in Nat /\ c.sequence + 1 \in Nat
    BY <1>1
  <2> QED BY <1>1, <2>1 DEF Encoder
<1> HIDE DEF d1
<1>3. /\ d2 \in Encoder /\ d2.id = d1.id /\ d2.sequence = d1.sequence + 1 /\ d2.created = d1.created
      /\ d2.completed = d1.completed /\ d2.next = d1.next /\ d2.textIndex = d1.textIndex
      /\ d2.text = d1.text /\ d2.tools = d1.tools
  <2>1. d1.sequence + 1 \in Nat /\ d1 \in Encoder
    BY <1>1, <1>2
  <2> QED BY <2>1 DEF Encoder
<1> HIDE DEF d2
<1>4. Live(d1, Then(q, f))
  BY <1>2, PushMessage
<1>5. d1.textIndex # None
  BY <1>1, <1>2, ConstantsAssumption
<1>6. Live(d2, Then(Then(q, f), g))
  <2>1. ~d1.completed /\ d1.created /\ g.id = d1.id /\ g.index = d1.textIndex
    BY <1>2
  <2> QED BY <1>3, <1>4, <1>5, <2>1, PushPart
<1>7. Emitted(q, <<f, g>>) = Then(Then(q, f), g)
  BY <1>1, EmittedTwo
<1>8. d2.sequence = c.sequence + 2
  BY <1>1, <1>2, <1>3
<1>9. Live(d2, Emitted(q, <<f, g>>))
  BY <1>6, <1>7
<1> QED BY <1>2, <1>3, <1>8, <1>9 DEF OpensMessage

\* TextDelta, as operators.
Written(e, p) ==
  LET base == Created(e) IN
  [base EXCEPT !.textIndex = IF e.textIndex = None THEN base.next ELSE @,
               !.next = IF e.textIndex = None THEN @ + 1 ELSE @,
               !.text = Append(@, p)]
MessageItem(e, d) ==
  IF e.textIndex = None THEN <<Message("output_item.added", d, <<>>), Message("content_part.added", d, <<>>)>>
  ELSE <<>>
TextFrames(e, p) ==
  Opening(e) \o MessageItem(e, Written(e, p)) \o <<Message("output_text.delta", Written(e, p), <<p>>)>>

LEMMA TextLive ==
  ASSUME NEW e, NEW q, Live(e, q), ~e.completed, NEW p \in Pieces
  PROVE  /\ Written(e, p) \in Encoder /\ TextFrames(e, p) \in Seq(NewFrames)
         /\ Live(Counted(Written(e, p), TextFrames(e, p)), Emitted(q, TextFrames(e, p)))
<1> DEFINE base == Created(e)
           d == Written(e, p)
           item == MessageItem(e, d)
           new == TextFrames(e, p)
           o == Opening(e)
           f == Message("output_item.added", d, <<>>)
           g == Message("content_part.added", d, <<>>)
           h == Message("output_text.delta", d, <<p>>)
           c1 == Counted(base, o)
           q1 == Emitted(q, o)
           q2 == Emitted(q1, item)
<1>1. e \in Encoder /\ q \in Seq(FrameSet) /\ e.next \in Nat /\ e.text \in Seq(Pieces)
      /\ e.textIndex \in Nat \cup {None} /\ e.sequence \in Nat
  BY EncoderType DEF Live
<1>2. /\ base \in Encoder /\ base.id \in ResponseIds
      /\ base.created = TRUE /\ base.sequence = e.sequence /\ base.completed = e.completed /\ base.next = e.next
      /\ base.textIndex = e.textIndex /\ base.text = e.text /\ base.tools = e.tools
  <2>1. /\ base \in Encoder
        /\ base.created = TRUE /\ base.sequence = e.sequence /\ base.completed = e.completed /\ base.next = e.next
        /\ base.textIndex = e.textIndex /\ base.text = e.text /\ base.tools = e.tools
    BY <1>1, CreatedIs
  <2> QED BY <2>1, EncoderType
<1>3. /\ d \in Encoder /\ d.id = base.id /\ d.sequence = e.sequence /\ d.created = TRUE
      /\ d.completed = e.completed /\ d.next = (IF e.textIndex = None THEN e.next + 1 ELSE e.next)
      /\ d.textIndex = (IF e.textIndex = None THEN e.next ELSE e.textIndex)
      /\ d.text = Append(e.text, p) /\ d.tools = e.tools
  <2>1. Append(e.text, p) \in Seq(Pieces) /\ e.next + 1 \in Nat
    BY <1>1
  <2> HIDE DEF base
  <2> QED BY <1>1, <1>2, <2>1 DEF Encoder, Written, base
<1>4. o \in Seq(NewFrames) /\ Len(o) \in Nat
  BY <1>1, OpeningType
<1>5. Live(c1, q1)
  BY OpenedLive
<1>6. /\ c1 \in Encoder /\ c1.id = base.id /\ c1.sequence = e.sequence + Len(o)
      /\ c1.created = TRUE /\ c1.completed = e.completed /\ c1.next = e.next
      /\ c1.textIndex = e.textIndex /\ c1.text = e.text /\ c1.tools = e.tools
  <2>1. /\ c1 \in Encoder /\ c1.id = base.id /\ c1.sequence = base.sequence + Len(o)
        /\ c1.created = base.created /\ c1.completed = base.completed /\ c1.next = base.next
        /\ c1.textIndex = base.textIndex /\ c1.text = base.text /\ c1.tools = base.tools
    BY <1>2, <1>4, CountedIs
  <2> HIDE DEF c1, o, base
  <2> QED BY <1>2, <2>1
<1>m. f = Message("output_item.added", d, <<>>) /\ g = Message("content_part.added", d, <<>>)
      /\ h = Message("output_text.delta", d, <<p>>) /\ o = Opening(e) /\ item = (IF e.textIndex = None THEN <<f, g>> ELSE <<>>)
      /\ new = o \o item \o <<h>>
  BY DEF MessageItem, TextFrames
<1> HIDE DEF f, g, h, base, d, item, new
<1>7. d.id \in ResponseIds /\ d.textIndex \in Nat \cup {None}
  BY <1>3, EncoderType
<1>8. /\ f \in NewFrames /\ f.type = "output_item.added" /\ f.kind = "message" /\ f.id = d.id
      /\ f.index = d.textIndex /\ f.content = <<>>
  <2>1. "output_item.added" \in Types /\ "message" \in Kinds /\ <<>> \in Seq(Pieces)
    BY DEF Types, Kinds
  <2>2. d \in Encoder
    BY <1>3
  <2>3. IsFrame(Message("output_item.added", d, <<>>), "output_item.added", "message", d.id, d.textIndex, <<>>)
    BY <2>1, <2>2, MessageType, Zenon
  <2>4. IsFrame(f, "output_item.added", "message", d.id, d.textIndex, <<>>)
    BY <2>3 DEF f
  <2> QED BY <2>4, Zenon DEF IsFrame
<1>9. /\ g \in NewFrames /\ g.type = "content_part.added" /\ g.kind = "message" /\ g.id = d.id
      /\ g.index = d.textIndex /\ g.content = <<>>
  <2>1. "content_part.added" \in Types /\ "message" \in Kinds /\ <<>> \in Seq(Pieces)
    BY DEF Types, PartTypes, Kinds
  <2>2. d \in Encoder
    BY <1>3
  <2>3. IsFrame(Message("content_part.added", d, <<>>), "content_part.added", "message", d.id, d.textIndex, <<>>)
    BY <2>1, <2>2, MessageType, Zenon
  <2>4. IsFrame(g, "content_part.added", "message", d.id, d.textIndex, <<>>)
    BY <2>3 DEF g
  <2> QED BY <2>4, Zenon DEF IsFrame
<1>10. /\ h \in NewFrames /\ h.type = "output_text.delta" /\ h.kind = "message" /\ h.id = d.id
       /\ h.index = d.textIndex /\ h.content = <<p>>
  <2>1. "output_text.delta" \in Types /\ "message" \in Kinds /\ <<p>> \in Seq(Pieces)
    BY DEF Types, DeltaTypes, Kinds
  <2>2. d \in Encoder
    BY <1>3
  <2>3. IsFrame(Message("output_text.delta", d, <<p>>), "output_text.delta", "message", d.id, d.textIndex, <<p>>)
    BY <2>1, <2>2, MessageType, Zenon
  <2>4. IsFrame(h, "output_text.delta", "message", d.id, d.textIndex, <<p>>)
    BY <2>3 DEF h
  <2> QED BY <2>4, Zenon DEF IsFrame
<1> HIDE DEF o, c1, q1
<1>11. item \in Seq(NewFrames) /\ Len(item) \in Nat
       /\ Len(item) = (IF e.textIndex = None THEN 2 ELSE 0)
       /\ item = (IF e.textIndex = None THEN <<f, g>> ELSE <<>>)
  BY <1>m, <1>8, <1>9
<1>12. /\ new \in Seq(NewFrames) /\ Len(new) = Len(o) + Len(item) + 1
       /\ Emitted(q, new) = Then(q2, h)
  <2>1. new = o \o item \o <<h>>
    BY <1>m
  <2>2. <<h>> \in Seq(NewFrames) /\ Len(<<h>>) = 1
    BY <1>10
  <2>3. o \o item \in Seq(NewFrames) /\ Len(o \o item) = Len(o) + Len(item)
    BY <1>4, <1>11, JoinedNew
  <2>4. (o \o item) \o <<h>> \in Seq(NewFrames) /\ Len((o \o item) \o <<h>>) = Len(o \o item) + Len(<<h>>)
    BY <2>2, <2>3, JoinedNew, Zenon
  <2>5. Emitted(q, (o \o item) \o <<h>>) = Emitted(Emitted(q, o \o item), <<h>>)
    <3> DEFINE x == o \o item
               y == <<h>>
    <3>1. x \in Seq(NewFrames) /\ y \in Seq(NewFrames)
      BY <2>2, <2>3
    <3> HIDE DEF x, y
    <3>2. Emitted(q, x \o y) = Emitted(Emitted(q, x), y)
      BY <1>1, <3>1, EmittedConcat, Zenon
    <3> QED BY <3>2 DEF x, y
  <2>6. Emitted(q, o \o item) = q2
    BY <1>1, <1>4, <1>11, EmittedConcat DEF q1
  <2>7. q2 \in Seq(FrameSet)
    BY <1>5, <1>11, EmittedType DEF Live
  <2> HIDE DEF q2
  <2>8. Emitted(q2, <<h>>) = Then(q2, h)
    BY <1>10, <2>7, EmittedOne
  <2> QED BY <2>1, <2>2, <2>3, <2>4, <2>5, <2>6, <2>8
<1> DEFINE c3 == Counted(d, new)
<1>13. /\ c3 \in Encoder /\ c3.id = d.id /\ c3.sequence = d.sequence + Len(new)
       /\ c3.created = d.created /\ c3.completed = d.completed /\ c3.next = d.next
       /\ c3.textIndex = d.textIndex /\ c3.text = d.text /\ c3.tools = d.tools
  BY <1>3, <1>12, CountedIs, Zenon
\* The stream before the piece itself.
<1>14. \E c2 \in Encoder :
         /\ Live(c2, q2)
         /\ c2.id = d.id /\ c2.sequence + 1 = c3.sequence /\ c2.created = TRUE /\ c2.completed = e.completed
         /\ c2.next = d.next /\ c2.textIndex = d.textIndex /\ c2.text = e.text /\ c2.tools = e.tools
  <2>1. CASE e.textIndex = None
    <3>1. /\ f.id = c1.id /\ f.index = c1.next /\ g.id = c1.id /\ g.index = c1.next
          /\ c1.textIndex = None /\ c1.created /\ ~c1.completed
      BY <1>3, <1>6, <1>8, <1>9, <2>1
    <3>a. PICK c2 \in Encoder : OpensMessage(c1, q1, f, g, c2)
      BY <1>5, <1>8, <1>9, <3>1, MessageOpened, Zenon
    <3>2. /\ Live(c2, Emitted(q1, <<f, g>>))
          /\ c2.id = c1.id /\ c2.sequence = c1.sequence + 2 /\ c2.created = c1.created
          /\ c2.completed = c1.completed /\ c2.next = c1.next + 1 /\ c2.textIndex = c1.next
          /\ c2.text = c1.text /\ c2.tools = c1.tools
      BY <3>a DEF OpensMessage
    <3>3. Live(c2, q2)
      BY <1>11, <2>1, <3>2
    <3>4. c2.sequence + 1 = c3.sequence
      <4> HIDE DEF c3
      <4>1. c2.sequence = e.sequence + Len(o) + 2
        BY <1>6, <3>2
      <4>2. c3.sequence = e.sequence + (Len(o) + 2 + 1)
        BY <1>3, <1>11, <1>12, <1>13, <2>1
      <4>3. e.sequence + Len(o) + 2 + 1 = e.sequence + (Len(o) + 2 + 1)
        <5>1. \A a, b \in Nat : a + b + 2 + 1 = a + (b + 2 + 1) /\ a + b + 1 = a + (b + 1)
          OBVIOUS
        <5>2. e.sequence \in Nat /\ Len(o) \in Nat
          BY <1>1, <1>4
        <5> QED BY <5>1, <5>2, Zenon
      <4> QED BY <4>1, <4>2, <4>3
    <3>5. c2.id = d.id /\ c2.created = TRUE /\ c2.completed = e.completed
         /\ c2.next = d.next /\ c2.textIndex = d.textIndex /\ c2.text = e.text /\ c2.tools = e.tools
      BY <1>3, <1>6, <2>1, <3>2
    <3> QED BY <3>2, <3>3, <3>4, <3>5
  <2>2. CASE e.textIndex # None
    <3>1. q2 = q1
      <4>1. Live(c1, q1) /\ q1 \in Seq(FrameSet) /\ Len(q1) \in Nat
        BY <1>5 DEF Live
      <4>2. item = <<>>
        BY <1>11, <2>2
      <4> QED BY <4>1, <4>2, NumberedNone DEF Emitted
    <3>2. c1.sequence + 1 = c3.sequence
      <4> HIDE DEF c3
      <4>0. Len(item) = 0
        BY <1>11, <2>2
      <4>2. Len(new) = Len(o) + 1
        BY <1>4, <1>12, <4>0
      <4>1. c3.sequence = e.sequence + (Len(o) + 1)
        BY <1>3, <1>13, <4>2
      <4>3. e.sequence + Len(o) + 1 = e.sequence + (Len(o) + 1)
        <5>1. \A a, b \in Nat : a + b + 2 + 1 = a + (b + 2 + 1) /\ a + b + 1 = a + (b + 1)
          OBVIOUS
        <5>2. e.sequence \in Nat /\ Len(o) \in Nat
          BY <1>1, <1>4
        <5> QED BY <5>1, <5>2, Zenon
      <4>4. c1.sequence = e.sequence + Len(o)
        BY <1>6
      <4> QED BY <4>1, <4>3, <4>4
    <3>3. c1.next = d.next /\ c1.textIndex = d.textIndex
      BY <1>3, <1>6, <2>2
    <3> QED BY <1>3, <1>5, <1>6, <3>1, <3>2, <3>3
  <2> QED BY <2>1, <2>2
<1> HIDE DEF c3, q2
<1>15. PICK c2 \in Encoder :
         /\ Live(c2, q2)
         /\ c2.id = d.id /\ c2.sequence + 1 = c3.sequence /\ c2.created = TRUE /\ c2.completed = e.completed
         /\ c2.next = d.next /\ c2.textIndex = d.textIndex /\ c2.text = e.text /\ c2.tools = e.tools
  BY <1>14
<1>16. d.textIndex # None
  BY <1>1, <1>3, ConstantsAssumption
<1>17. Live(c3, Then(q2, h))
  <2>1. ~c2.completed /\ c2.created /\ h.id = c2.id /\ h.index = c2.textIndex /\ c2.textIndex # None
    BY <1>10, <1>15, <1>16
  <2>2. /\ c3.id = c2.id /\ c3.sequence = c2.sequence + 1 /\ c3.created = c2.created
        /\ c3.completed = c2.completed /\ c3.next = c2.next /\ c3.textIndex = c2.textIndex
        /\ c3.text = Append(c2.text, p) /\ c3.tools = c2.tools
    BY <1>3, <1>13, <1>15
  <2>3. h \in NewFrames /\ h.type = "output_text.delta" /\ h.content = <<p>> /\ c3 \in Encoder /\ Live(c2, q2)
    BY <1>10, <1>13, <1>15
  <2> QED BY <2>1, <2>2, <2>3, PushText, Zenon
<1> QED BY <1>3, <1>12, <1>17 DEF c3, d, new

-----------------------------------------------------------------------------
\* Calls of tools are calls: one more, or one of them replaced.
LEMMA ToolsWith ==
  ASSUME NEW e \in Encoder, NEW k \in Tools, NEW tool \in [index : Nat, arguments : Seq(Pieces)],
         NEW d, d = WithTool(e, k, tool)
  PROVE  /\ d \in Encoder /\ d.id = e.id /\ d.sequence = e.sequence /\ d.created = e.created
         /\ d.completed = e.completed /\ d.next = e.next /\ d.textIndex = e.textIndex /\ d.text = e.text
         /\ d.usage = e.usage
         /\ DOMAIN d.tools = DOMAIN e.tools \cup {k} /\ d.tools[k] = tool
         /\ \A l \in DOMAIN e.tools : l # k => d.tools[l] = e.tools[l]
<1> DEFINE R == [index : Nat, arguments : Seq(Pieces)]
           t == [j \in DOMAIN e.tools \cup {k} |-> IF j = k THEN tool ELSE e.tools[j]]
<1>1. e.tools \in Calls /\ DOMAIN e.tools \subseteq Tools /\ \A l \in DOMAIN e.tools : e.tools[l] \in R
  <2>1. e.tools \in Calls
    BY EncoderType
  <2> QED BY <2>1, CallsType, Zenon
<1> HIDE DEF R
<1>2. tool \in R
  BY DEF R
<1>3. /\ DOMAIN t = DOMAIN e.tools \cup {k} /\ t[k] = tool
      /\ \A l \in DOMAIN e.tools : l # k => t[l] = e.tools[l]
      /\ t = [l \in DOMAIN t |-> t[l]]
  OBVIOUS
<1>4. d = [e EXCEPT !.tools = t]
  BY DEF WithTool
<1> HIDE DEF t
<1>5. DOMAIN t \subseteq Tools /\ \A l \in DOMAIN t : t[l] \in R
  BY <1>1, <1>2, <1>3
<1>6. t \in Calls
  BY <1>3, <1>5, CallsType, Zenon DEF R
<1>7. /\ d \in Encoder /\ d.id = e.id /\ d.sequence = e.sequence /\ d.created = e.created
      /\ d.completed = e.completed /\ d.next = e.next /\ d.textIndex = e.textIndex /\ d.text = e.text
      /\ d.usage = e.usage /\ d.tools = t
  BY <1>4, <1>6 DEF Encoder
<1> QED BY <1>3, <1>7

LEMMA CallType ==
  ASSUME NEW type \in Types, NEW index \in Nat, NEW content \in Seq(Pieces)
  PROVE  IsFrame(Call(type, index, content), type, "function_call", None, index, content)
BY DEF Call, Frame, NewFrames, Contents, IsFrame, Kinds, ResponseIds

\* ToolCallStart and ToolArgumentsDelta, as operators.
Started(e, k) == WithTool([Created(e) EXCEPT !.next = @ + 1], k, [index |-> e.next, arguments |-> <<>>])
StartFrames(e) == Opening(e) \o <<Call("output_item.added", e.next, <<>>)>>
Argued(e, k, p) == WithTool(e, k, [e.tools[k] EXCEPT !.arguments = Append(@, p)])
ArgumentFrames(e, k, p) == <<Call("function_call_arguments.delta", e.tools[k].index, <<p>>)>>

LEMMA CallLive ==
  ASSUME NEW e, NEW q, Live(e, q), ~e.completed, NEW k \in Tools, k \notin DOMAIN e.tools
  PROVE  /\ Started(e, k) \in Encoder /\ StartFrames(e) \in Seq(NewFrames)
         /\ Live(Counted(Started(e, k), StartFrames(e)), Emitted(q, StartFrames(e)))
<1> DEFINE base == Created(e)
           b1 == [base EXCEPT !.next = @ + 1]
           tool == [index |-> e.next, arguments |-> <<>>]
           d == Started(e, k)
           new == StartFrames(e)
           o == Opening(e)
           f == Call("output_item.added", e.next, <<>>)
           c1 == Counted(base, o)
           q1 == Emitted(q, o)
           c3 == Counted(d, new)
<1>1. e \in Encoder /\ q \in Seq(FrameSet) /\ e.next \in Nat /\ e.sequence \in Nat
  BY EncoderType DEF Live
<1>2. /\ base \in Encoder /\ base.created = TRUE /\ base.sequence = e.sequence /\ base.completed = e.completed
      /\ base.next = e.next /\ base.textIndex = e.textIndex /\ base.text = e.text /\ base.tools = e.tools
  BY <1>1, CreatedIs
<1>3. Live(c1, q1)
  BY OpenedLive
<1>4. o \in Seq(NewFrames) /\ Len(o) \in Nat
  BY <1>1, OpeningType
<1>5. /\ c1 \in Encoder /\ c1.id = base.id /\ c1.sequence = base.sequence + Len(o)
      /\ c1.created = base.created /\ c1.completed = base.completed /\ c1.next = base.next
      /\ c1.textIndex = base.textIndex /\ c1.text = base.text /\ c1.tools = base.tools
  BY <1>2, <1>4, CountedIs
<1>6. new = o \o <<f>> /\ d = WithTool(b1, k, tool)
  BY DEF StartFrames, Started
<1>7. /\ f \in NewFrames /\ f.type = "output_item.added" /\ f.kind = "function_call"
      /\ f.index = e.next /\ f.content = <<>>
  <2>1. "output_item.added" \in Types /\ <<>> \in Seq(Pieces)
    BY DEF Types
  <2>2. IsFrame(Call("output_item.added", e.next, <<>>), "output_item.added", "function_call", None, e.next, <<>>)
    BY <1>1, <2>1, CallType, Zenon
  <2>3. IsFrame(f, "output_item.added", "function_call", None, e.next, <<>>)
    BY <2>2 DEF f
  <2> QED BY <2>3, Zenon DEF IsFrame
<1> HIDE DEF base, f, o, c1, q1, new, d
<1>8. /\ b1 \in Encoder /\ b1.id = base.id /\ b1.sequence = base.sequence /\ b1.created = base.created
      /\ b1.completed = base.completed /\ b1.next = base.next + 1 /\ b1.textIndex = base.textIndex
      /\ b1.text = base.text /\ b1.tools = base.tools
  <2>1. base.next + 1 \in Nat
    BY <1>1, <1>2
  <2> QED BY <1>2, <2>1 DEF Encoder
<1>9. tool \in [index : Nat, arguments : Seq(Pieces)] /\ tool.index = e.next /\ tool.arguments = <<>>
  BY <1>1
<1> HIDE DEF b1, tool
<1>10. /\ d \in Encoder /\ d.id = b1.id /\ d.sequence = b1.sequence /\ d.created = b1.created
       /\ d.completed = b1.completed /\ d.next = b1.next /\ d.textIndex = b1.textIndex /\ d.text = b1.text
       /\ DOMAIN d.tools = DOMAIN b1.tools \cup {k} /\ d.tools[k] = tool
       /\ \A l \in DOMAIN b1.tools : l # k => d.tools[l] = b1.tools[l]
  BY <1>6, <1>8, <1>9, ToolsWith
<1>11. /\ new \in Seq(NewFrames) /\ Len(new) = Len(o) + 1 /\ Emitted(q, new) = Then(q1, f)
  <2>1. <<f>> \in Seq(NewFrames) /\ Len(<<f>>) = 1
    BY <1>7
  <2>2. o \o <<f>> \in Seq(NewFrames) /\ Len(o \o <<f>>) = Len(o) + Len(<<f>>)
    BY <1>4, <2>1, JoinedNew, Zenon
  <2>3. Emitted(q, o \o <<f>>) = Emitted(q1, <<f>>)
    <3> DEFINE y == <<f>>
    <3>1. y \in Seq(NewFrames)
      BY <2>1
    <3> HIDE DEF y
    <3>2. Emitted(q, o \o y) = Emitted(Emitted(q, o), y)
      BY <1>1, <1>4, <3>1, EmittedConcat, Zenon
    <3> QED BY <3>2 DEF y, q1
  <2>4. q1 \in Seq(FrameSet)
    BY <1>3 DEF Live
  <2>5. Emitted(q1, <<f>>) = Then(q1, f)
    BY <1>7, <2>4, EmittedOne
  <2> QED BY <1>6, <2>1, <2>2, <2>3, <2>5
<1>12. /\ c3 \in Encoder /\ c3.id = d.id /\ c3.sequence = d.sequence + Len(new)
       /\ c3.created = d.created /\ c3.completed = d.completed /\ c3.next = d.next
       /\ c3.textIndex = d.textIndex /\ c3.text = d.text /\ c3.tools = d.tools
  BY <1>10, <1>11, CountedIs, Zenon
<1> HIDE DEF c3
<1>13. Live(c3, Then(q1, f))
  <2>1. ~c1.completed /\ c1.created /\ f.index = c1.next /\ k \notin DOMAIN c1.tools
    BY <1>2, <1>5, <1>7
  <2>2. c3.sequence = c1.sequence + 1
    <3>1. c3.sequence = e.sequence + (Len(o) + 1) /\ c1.sequence = e.sequence + Len(o)
      BY <1>2, <1>5, <1>8, <1>10, <1>11, <1>12
    <3>2. \A a, b \in Nat : a + (b + 1) = a + b + 1
      OBVIOUS
    <3>3. e.sequence + (Len(o) + 1) = e.sequence + Len(o) + 1
      BY <1>1, <1>4, <3>2, Zenon
    <3> QED BY <3>1, <3>3
  <2>3. /\ c3.id = c1.id /\ c3.created = c1.created /\ c3.completed = c1.completed
        /\ c3.next = c1.next + 1 /\ c3.textIndex = c1.textIndex /\ c3.text = c1.text
    BY <1>5, <1>8, <1>10, <1>12
  <2>4. /\ DOMAIN c3.tools = DOMAIN c1.tools \cup {k} /\ \A l \in DOMAIN c1.tools : c3.tools[l] = c1.tools[l]
        /\ c3.tools[k].index = c1.next /\ c3.tools[k].arguments = <<>>
    <3>1. c3.tools = d.tools /\ c1.tools = base.tools /\ b1.tools = base.tools /\ c1.next = e.next
      BY <1>2, <1>5, <1>8, <1>12
    <3> QED BY <1>9, <1>10, <2>1, <3>1
  <2> QED BY <1>3, <1>7, <1>12, <2>1, <2>2, <2>3, <2>4, PushCall, Zenon
<1> QED BY <1>10, <1>11, <1>13 DEF c3, d, new

LEMMA ArgumentsLive ==
  ASSUME NEW e, NEW q, Live(e, q), ~e.completed, NEW k \in DOMAIN e.tools, NEW p \in Pieces
  PROVE  /\ Argued(e, k, p) \in Encoder /\ ArgumentFrames(e, k, p) \in Seq(NewFrames)
         /\ Live(Counted(Argued(e, k, p), ArgumentFrames(e, k, p)), Emitted(q, ArgumentFrames(e, k, p)))
<1> DEFINE tool == [e.tools[k] EXCEPT !.arguments = Append(@, p)]
           d == Argued(e, k, p)
           new == ArgumentFrames(e, k, p)
           f == Call("function_call_arguments.delta", e.tools[k].index, <<p>>)
           c3 == Counted(d, new)
<1>1. e \in Encoder /\ q \in Seq(FrameSet) /\ e.next \in Nat /\ e.sequence \in Nat /\ k \in Tools
      /\ e.tools[k].index \in Nat /\ e.tools[k].arguments \in Seq(Pieces)
  BY EncoderType DEF Live
<1>2. /\ tool \in [index : Nat, arguments : Seq(Pieces)] /\ tool.index = e.tools[k].index
      /\ tool.arguments = Append(e.tools[k].arguments, p)
  <2>1. e.tools[k] \in [index : Nat, arguments : Seq(Pieces)]
    <3>1. e.tools \in Calls
      BY <1>1, EncoderType
    <3> QED BY <3>1, CallsType, Zenon
  <2>2. Append(e.tools[k].arguments, p) \in Seq(Pieces)
    BY <1>1
  <2> QED BY <2>1, <2>2
<1>3. d = WithTool(e, k, tool) /\ new = <<f>>
  BY DEF Argued, ArgumentFrames
<1>4. /\ f \in NewFrames /\ f.type = "function_call_arguments.delta" /\ f.kind = "function_call"
      /\ f.index = e.tools[k].index /\ f.content = <<p>>
  <2>1. "function_call_arguments.delta" \in Types /\ <<p>> \in Seq(Pieces)
    BY DEF Types, DeltaTypes
  <2> DEFINE i == e.tools[k].index
             s == <<p>>
  <2> HIDE DEF i, s
  <2>2. i \in Nat /\ s \in Seq(Pieces) /\ f = Call("function_call_arguments.delta", i, s)
    BY <1>1, <2>1 DEF i, s, f
  <2>3. IsFrame(Call("function_call_arguments.delta", i, s), "function_call_arguments.delta", "function_call", None, i, s)
    BY <2>1, <2>2, CallType, Zenon
  <2>4. IsFrame(f, "function_call_arguments.delta", "function_call", None, i, s)
    BY <2>2, <2>3
  <2>5. f.index = i /\ f.content = s
    BY <2>4 DEF IsFrame
  <2> QED BY <2>4, <2>5, Zenon DEF IsFrame, i, s
<1> HIDE DEF tool, d, new, f
<1>5. /\ d \in Encoder /\ d.id = e.id /\ d.sequence = e.sequence /\ d.created = e.created
      /\ d.completed = e.completed /\ d.next = e.next /\ d.textIndex = e.textIndex /\ d.text = e.text
      /\ DOMAIN d.tools = DOMAIN e.tools \cup {k} /\ d.tools[k] = tool
      /\ \A l \in DOMAIN e.tools : l # k => d.tools[l] = e.tools[l]
  BY <1>1, <1>2, <1>3, ToolsWith
<1>6. new \in Seq(NewFrames) /\ Len(new) = 1 /\ Emitted(q, new) = Then(q, f)
  BY <1>1, <1>3, <1>4, EmittedOne
<1>7. /\ c3 \in Encoder /\ c3.id = d.id /\ c3.sequence = d.sequence + Len(new)
       /\ c3.created = d.created /\ c3.completed = d.completed /\ c3.next = d.next
       /\ c3.textIndex = d.textIndex /\ c3.text = d.text /\ c3.tools = d.tools
  BY <1>5, <1>6, CountedIs, Zenon
<1> HIDE DEF c3
\* An item was announced, after the response was.
<1>8. e.created
  <2>1. \E j \in 1 .. Len(q) : Adds(q, j, e.tools[k].index)
    <3>1. e.tools[k].index < e.next /\ Extends(q, q)
      BY <1>1 DEF Live, Places, Extends
    <3> QED BY <1>1, <3>1, ItemKnown
  <2>2. Len(q) # 0
    BY <1>1, <2>1
  <2> QED BY <2>2 DEF Live, Counts
<1>9. Live(c3, Then(q, f))
  <2>1. c3.sequence = e.sequence + 1 /\ c3.id = e.id /\ c3.created = e.created /\ c3.completed = e.completed
    BY <1>5, <1>6, <1>7
  <2>2. c3.next = e.next /\ c3.textIndex = e.textIndex /\ c3.text = e.text
    BY <1>5, <1>7
  <2>3. DOMAIN c3.tools = DOMAIN e.tools /\ \A l \in DOMAIN e.tools : l # k => c3.tools[l] = e.tools[l]
    BY <1>5, <1>7
  <2>4. c3.tools[k].index = e.tools[k].index /\ c3.tools[k].arguments = Append(e.tools[k].arguments, p)
    BY <1>2, <1>5, <1>7
  <2> QED BY <1>4, <1>7, <1>8, <2>1, <2>2, <2>3, <2>4, PushArguments, Zenon
<1> QED BY <1>5, <1>6, <1>9 DEF c3, d, new

\* The closing frames, by the fields they depend on.
MessageOf(id, index, text) ==
  IF index = None THEN <<>>
  ELSE <<Frame("output_text.done", "message", id, index, text),
         Frame("content_part.done", "message", id, index, text),
         Frame("output_item.done", "message", id, index, text)>>
CallsOf(tools) ==
  LET slots == Ascending(DOMAIN tools) IN
  [i \in 1 .. 2 * Len(slots) |->
     LET tool == tools[slots[(i + 1) \div 2]] IN
     Call(IF i % 2 = 1 THEN "function_call_arguments.done" ELSE "output_item.done",
          tool.index, tool.arguments)]
OutputOf(next, textIndex, text, tools) ==
  [i \in 1 .. next |->
     IF textIndex = i - 1 THEN [kind |-> "message", content |-> text]
     ELSE LET k == CHOOSE j \in DOMAIN tools : tools[j].index = i - 1 IN
          [kind |-> "function_call", content |-> tools[k].arguments]]
CompletionOf(id, output, usage) ==
  Frame("response.completed", "response", id, None, [output |-> output, usage |-> usage])

LEMMA ClosingFields ==
  ASSUME NEW e
  PROVE  /\ ClosedMessage(e) = MessageOf(e.id, e.textIndex, e.text)
         /\ ClosedCalls(e) = CallsOf(e.tools)
         /\ Completion(e) = CompletionOf(e.id, OutputOf(e.next, e.textIndex, e.text, e.tools), e.usage)
<1>1. ClosedMessage(e) = MessageOf(e.id, e.textIndex, e.text)
  BY DEF ClosedMessage, MessageOf, Message
<1>2. ClosedCalls(e) = CallsOf(e.tools)
  BY DEF ClosedCalls, CallsOf
<1>3. Output(e) = OutputOf(e.next, e.textIndex, e.text, e.tools)
  BY DEF Output, OutputOf
<1>4. Completion(e) = CompletionOf(e.id, OutputOf(e.next, e.textIndex, e.text, e.tools), e.usage)
  BY <1>3 DEF Completion, CompletionOf
<1> QED BY <1>1, <1>2, <1>4

\* MessageEnd, as operators.
Ended(e) == [Created(e) EXCEPT !.completed = TRUE]
ClosingFrames(e) == ClosedMessage(e) \o ClosedCalls(e) \o <<Completion(e)>>
EndFrames(e) ==
  Opening(e) \o ClosedMessage(Created(e)) \o ClosedCalls(Created(e)) \o <<Completion(Created(e))>>

LEMMA EndLive ==
  ASSUME NEW e, NEW q, Live(e, q), ~e.completed
  PROVE  /\ Ended(e) \in Encoder /\ EndFrames(e) \in Seq(NewFrames)
         /\ Live(Counted(Ended(e), EndFrames(e)), Emitted(q, EndFrames(e)))
<1> DEFINE base == Created(e)
           d == Ended(e)
           new == EndFrames(e)
           o == Opening(e)
           c1 == Counted(base, o)
           q1 == Emitted(q, o)
           c3 == Counted(d, new)
           m == ClosedMessage(base)
           t == ClosedCalls(base)
           z == <<Completion(base)>>
           closing == ClosingFrames(c1)
<1>1. e \in Encoder /\ q \in Seq(FrameSet) /\ e.sequence \in Nat
  BY EncoderType DEF Live
<1>2. base \in Encoder /\ base.created = TRUE /\ base.sequence = e.sequence /\ base.completed = e.completed
  BY <1>1, CreatedIs
<1>3. Live(c1, q1)
  BY OpenedLive
<1>4. o \in Seq(NewFrames) /\ Len(o) \in Nat
  BY <1>1, OpeningType
<1>5. /\ c1 \in Encoder /\ c1.id = base.id /\ c1.sequence = base.sequence + Len(o)
      /\ c1.created = base.created /\ c1.completed = base.completed /\ c1.next = base.next
      /\ c1.textIndex = base.textIndex /\ c1.text = base.text /\ c1.tools = base.tools
      /\ c1.usage = base.usage
  BY <1>2, <1>4, CountedIs
<1>6. new = ((o \o m) \o t) \o z /\ d = [base EXCEPT !.completed = TRUE]
  BY DEF EndFrames, Ended
<1>7. Closing(c1, closing)
  BY <1>3, ClosingIs DEF ClosingFrames
<1> HIDE DEF o, base, c1, q1, new, d
<1>8. closing = (m \o t) \o z
  <2>1. ClosedMessage(c1) = ClosedMessage(base) /\ ClosedCalls(c1) = ClosedCalls(base)
        /\ Completion(c1) = Completion(base)
    BY <1>5, ClosingFields
  <2> QED BY <2>1 DEF ClosingFrames
<1>9. m \in Seq(NewFrames) /\ t \in Seq(NewFrames) /\ z \in Seq(NewFrames)
  <2>1. ClosedMessage(c1) \in Seq(NewFrames) /\ ClosedCalls(c1) \in Seq(NewFrames)
    BY <1>3, MessageClosed, CallsClosed
  <2>2. ClosedMessage(c1) = m /\ ClosedCalls(c1) = t /\ Completion(c1) = Completion(base)
    BY <1>5, ClosingFields
  <2>3. closing \in Seq(NewFrames) /\ Len(closing) >= 1 /\ closing[Len(closing)] = Completion(c1)
    BY <1>7 DEF Closing
  <2> HIDE DEF closing
  <2>4. closing[Len(closing)] \in NewFrames
    BY <2>3
  <2> QED BY <2>1, <2>2, <2>3, <2>4
<1> HIDE DEF m, t, z
<1>10. m \o t \in Seq(NewFrames) /\ closing \in Seq(NewFrames) /\ new = o \o closing
  <2>1. m \o t \in Seq(NewFrames)
    BY <1>9, JoinedNew, Zenon
  <2>2. (o \o m) \o t = o \o (m \o t)
    BY <1>4, <1>9, ConcatAssociative
  <2>3. (o \o (m \o t)) \o z = o \o ((m \o t) \o z)
    BY <1>4, <1>9, <2>1, ConcatAssociative
  <2>4. (m \o t) \o z \in Seq(NewFrames)
    BY <1>9, <2>1, JoinedNew, Zenon
  <2> QED BY <1>6, <1>8, <2>1, <2>2, <2>3, <2>4
<1> HIDE DEF closing
<1>11. new \in Seq(NewFrames) /\ Len(new) = Len(o) + Len(closing) /\ Len(closing) \in Nat
  BY <1>4, <1>10, JoinedNew
<1>12. Emitted(q, new) = Emitted(q1, closing)
  BY <1>1, <1>4, <1>10, EmittedConcat DEF q1
<1>13. /\ d \in Encoder /\ d.id = base.id /\ d.sequence = base.sequence /\ d.created = base.created
       /\ d.completed = TRUE /\ d.next = base.next /\ d.textIndex = base.textIndex
       /\ d.text = base.text /\ d.tools = base.tools
  BY <1>2, <1>6 DEF Encoder
<1>14. /\ c3 \in Encoder /\ c3.id = d.id /\ c3.sequence = d.sequence + Len(new)
       /\ c3.created = d.created /\ c3.completed = d.completed /\ c3.next = d.next
       /\ c3.textIndex = d.textIndex /\ c3.text = d.text /\ c3.tools = d.tools
  BY <1>11, <1>13, CountedIs, Zenon
<1> HIDE DEF c3
<1>15. Live(c3, q1 \o Numbered(closing, Len(q1)))
  <2>1. ~c1.completed /\ c1.created
    BY <1>2, <1>5
  <2>2. c3.sequence = c1.sequence + Len(closing)
    <3>1. c3.sequence = e.sequence + (Len(o) + Len(closing)) /\ c1.sequence = e.sequence + Len(o)
      BY <1>2, <1>5, <1>11, <1>13, <1>14
    <3>2. \A a, b, c \in Nat : a + (b + c) = a + b + c
      OBVIOUS
    <3>3. e.sequence + (Len(o) + Len(closing)) = e.sequence + Len(o) + Len(closing)
      BY <1>1, <1>4, <1>11, <3>2, Zenon
    <3> QED BY <3>1, <3>3
  <2>3. /\ c3.id = c1.id /\ c3.created = c1.created /\ c3.completed /\ c3.next = c1.next
        /\ c3.textIndex = c1.textIndex /\ c3.text = c1.text /\ c3.tools = c1.tools
    BY <1>5, <1>13, <1>14
  <2> QED BY <1>3, <1>7, <1>14, <2>1, <2>2, <2>3, PushEnd, Zenon
<1> QED BY <1>11, <1>12, <1>13, <1>15 DEF c3, d, new, Emitted

-----------------------------------------------------------------------------
(* The canonical events of one upstream event *)

\* Their order, for a provider that speaks p, ...
Rank(p, type) ==
  IF type = "MessageStart" THEN 1
  ELSE IF type = "TextDelta" THEN 2
  ELSE IF type = "ToolCallStart" THEN 3
  ELSE IF type = "ToolArgumentsDelta" THEN 4
  ELSE IF (type = "MessageEnd") = (p = "chat") THEN 5
  ELSE 6

\* ... and what they hold of the upstream event v.
Matches(x, v) ==
  /\ x.type = "TextDelta" => v.text # None /\ x.text = v.text
  /\ x.type = "ToolArgumentsDelta" => v.args # None /\ x.index = v.args[1] /\ x.delta = v.args[2]
  /\ x.type = "Usage" => v.usage # None /\ x.usage = Figures(v.usage)
  /\ x.type = "MessageEnd" => v.end

Within(p, s, lo, hi, v) ==
  /\ s \in Seq(CanonicalEvent)
  /\ \A i \in 1 .. Len(s) : lo <= Rank(p, s[i].type) /\ Rank(p, s[i].type) <= hi /\ Matches(s[i], v)
  /\ \A i, j \in 1 .. Len(s) : i < j => Rank(p, s[i].type) < Rank(p, s[j].type)
Has(s, type) == \E i \in 1 .. Len(s) : s[i].type = type

LEMMA RankType == ASSUME NEW p, NEW type PROVE Rank(p, type) \in 1 .. 6
BY DEF Rank

LEMMA WithinConcat ==
  ASSUME NEW p, NEW v, NEW a \in Nat, NEW b \in Nat, NEW c \in Nat, NEW d \in Nat, a <= c, b < c, b <= d,
         NEW s, Within(p, s, a, b, v), NEW t, Within(p, t, c, d, v)
  PROVE  /\ Within(p, s \o t, a, d, v)
         /\ \A type : Has(s \o t, type) <=> Has(s, type) \/ Has(t, type)
<1> DEFINE u == s \o t
           M == Len(s)
           N == Len(t)
<1>1. s \in Seq(CanonicalEvent) /\ t \in Seq(CanonicalEvent)
  BY DEF Within
<1>2. u \in Seq(CanonicalEvent) /\ Len(u) = M + N /\ M \in Nat /\ N \in Nat
      /\ \A i \in 1 .. M + N : u[i] = IF i <= M THEN s[i] ELSE t[i - M]
  <2>1. /\ u \in Seq(CanonicalEvent) /\ Len(u) = M + N
        /\ \A i \in 1 .. M + N : u[i] = IF i <= M THEN s[i] ELSE t[i - M]
    BY <1>1, ConcatProperties, Zenon
  <2>2. M \in Nat /\ N \in Nat
    BY <1>1
  <2> QED BY <2>1, <2>2
<1>3. /\ \A i \in 1 .. M : a <= Rank(p, s[i].type) /\ Rank(p, s[i].type) <= b /\ Matches(s[i], v)
      /\ \A i, j \in 1 .. M : i < j => Rank(p, s[i].type) < Rank(p, s[j].type)
      /\ \A i \in 1 .. N : c <= Rank(p, t[i].type) /\ Rank(p, t[i].type) <= d /\ Matches(t[i], v)
      /\ \A i, j \in 1 .. N : i < j => Rank(p, t[i].type) < Rank(p, t[j].type)
  BY DEF Within
<1>4. \A type : Rank(p, type) \in Nat
  BY RankType
<1> HIDE DEF u, M, N
<1>5. \A i \in 1 .. M + N : \/ i \in 1 .. M /\ u[i] = s[i]
                            \/ i - M \in 1 .. N /\ u[i] = t[i - M] /\ i > M
  BY <1>2
<1>6. ASSUME NEW i \in 1 .. M + N
      PROVE  a <= Rank(p, u[i].type) /\ Rank(p, u[i].type) <= d /\ Matches(u[i], v)
  BY <1>3, <1>4, <1>5
<1>7. ASSUME NEW i \in 1 .. M + N, NEW j \in 1 .. M + N, i < j
      PROVE  Rank(p, u[i].type) < Rank(p, u[j].type)
  <2>1. CASE j \in 1 .. M /\ u[j] = s[j]
    <3>1. i \in 1 .. M /\ u[i] = s[i]
      BY <1>2, <1>7, <2>1
    <3> QED BY <1>3, <1>7, <2>1, <3>1
  <2>2. CASE j - M \in 1 .. N /\ u[j] = t[j - M] /\ j > M
    <3>1. CASE i \in 1 .. M /\ u[i] = s[i]
      BY <1>3, <1>4, <2>2, <3>1
    <3>2. CASE i - M \in 1 .. N /\ u[i] = t[i - M] /\ i > M
      <4>1. i - M < j - M
        BY <1>2, <1>7
      <4> QED BY <1>3, <2>2, <3>2, <4>1
    <3> QED BY <1>5, <3>1, <3>2
  <2> QED BY <1>5, <2>1, <2>2
<1>8. ASSUME NEW type PROVE Has(u, type) <=> Has(s, type) \/ Has(t, type)
  <2>1. ASSUME Has(u, type) PROVE Has(s, type) \/ Has(t, type)
    BY <1>2, <1>5, <2>1 DEF Has, M, N
  <2>2. ASSUME Has(s, type) PROVE Has(u, type)
    <3>1. PICK i \in 1 .. M : s[i].type = type
      BY <2>2 DEF Has, M
    <3>2. i \in 1 .. M + N /\ u[i] = s[i]
      BY <1>2, <3>1
    <3> QED BY <1>2, <3>1, <3>2 DEF Has
  <2>3. ASSUME Has(t, type) PROVE Has(u, type)
    <3>1. PICK i \in 1 .. N : t[i].type = type
      BY <2>3 DEF Has, N
    <3>2. i + M \in 1 .. M + N /\ ~(i + M <= M) /\ i + M - M = i
      BY <1>2, <3>1
    <3>3. u[i + M] = t[i]
      BY <1>2, <3>2
    <3> QED BY <1>2, <3>1, <3>2, <3>3 DEF Has
  <2> QED BY <2>1, <2>2, <2>3
<1>9. Within(p, u, a, d, v)
  BY <1>2, <1>6, <1>7 DEF Within
<1> QED BY <1>8, <1>9 DEF u

LEMMA OneWithin ==
  ASSUME NEW p, NEW r \in Nat, NEW v, NEW x \in CanonicalEvent, Rank(p, x.type) = r, Matches(x, v)
  PROVE  Within(p, <<x>>, r, r, v) /\ \A type : Has(<<x>>, type) <=> x.type = type
<1> DEFINE s == <<x>>
<1>1. s \in Seq(CanonicalEvent) /\ Len(s) = 1 /\ s[1] = x
  OBVIOUS
<1> HIDE DEF s
<1>2. \A i \in 1 .. Len(s) : i = 1 /\ s[i] = x
  BY <1>1
<1>3. Within(p, s, r, r, v)
  BY <1>1, <1>2 DEF Within
<1>4. \A type : Has(s, type) <=> x.type = type
  BY <1>1, <1>2 DEF Has
<1> QED BY <1>3, <1>4 DEF s

LEMMA NoneWithin ==
  ASSUME NEW p, NEW r \in Nat, NEW v
  PROVE  Within(p, <<>>, r, r, v) /\ \A type : ~Has(<<>>, type)
<1>1. <<>> \in Seq(CanonicalEvent) /\ Len(<<>>) = 0
  OBVIOUS
<1> QED BY <1>1 DEF Within, Has

LEMMA OptionalWithin ==
  ASSUME NEW p, NEW r \in Nat, NEW v, NEW x, NEW w,
         x # None => w \in CanonicalEvent /\ Rank(p, w.type) = r /\ Matches(w, v)
  PROVE  Within(p, Optional(x, w), r, r, v) /\ \A type : Has(Optional(x, w), type) <=> x # None /\ w.type = type
<1>1. CASE x = None
  <2>1. Optional(x, w) = <<>>
    BY <1>1 DEF Optional
  <2> QED BY <1>1, <2>1, NoneWithin
<1>2. CASE x # None
  <2>1. Optional(x, w) = <<w>>
    BY <1>2 DEF Optional
  <2>2. Within(p, <<w>>, r, r, v) /\ \A type : Has(<<w>>, type) <=> w.type = type
    BY <1>2, OneWithin
  <2> QED BY <1>2, <2>1, <2>2
<1> QED BY <1>1, <1>2

Pending(p, q, v) == Within(p, q, 1, 6, v)

LEMMA DecodePending ==
  ASSUME NEW v \in Event
  PROVE  /\ Pending(protocol, Decode(v), v)
         /\ Has(Decode(v), "TextDelta") <=> v.text # None
         /\ Has(Decode(v), "ToolArgumentsDelta") <=> v.args # None
         /\ Has(Decode(v), "Usage") <=> UsageRead(protocol, v) # None
         /\ Has(Decode(v), "MessageEnd") <=> v.end
<1> DEFINE va == [type |-> "MessageStart", id |-> IF v.start = Anonymous THEN None ELSE v.start]
           vb == [type |-> "TextDelta", text |-> v.text]
           vc == [type |-> "ToolCallStart", index |-> v.tool]
           vd == [type |-> "ToolArgumentsDelta", index |-> v.args[1], delta |-> v.args[2]]
           vu == [type |-> "Usage", usage |-> Figures(v.usage)]
           vx == [type |-> "MessageEnd"]
           a == Optional(v.start, va)
           b == Optional(v.text, vb)
           c == Optional(v.tool, vc)
           d == Optional(v.args, vd)
           read == UsageRead(protocol, v)
           u == Optional(read, vu)
           x == IF v.end THEN <<vx>> ELSE <<>>
           p == protocol
           chat == p = "chat"
<1>1. /\ v.start \in Ids \cup {None, Anonymous} /\ v.text \in Pieces \cup {None}
      /\ v.tool \in Tools \cup {None} /\ v.args \in (Tools \X Pieces) \cup {None}
      /\ v.usage \in Usages \cup {None, Null} /\ v.end \in BOOLEAN
  BY DEF Event
<1>2. /\ v.start # None => va \in CanonicalEvent /\ va.type = "MessageStart" /\ Rank(p, va.type) = 1 /\ Matches(va, v)
      /\ v.text # None => vb \in CanonicalEvent /\ vb.type = "TextDelta" /\ Rank(p, vb.type) = 2 /\ Matches(vb, v)
      /\ v.tool # None => vc \in CanonicalEvent /\ vc.type = "ToolCallStart" /\ Rank(p, vc.type) = 3 /\ Matches(vc, v)
      /\ v.args # None => vd \in CanonicalEvent /\ vd.type = "ToolArgumentsDelta" /\ Rank(p, vd.type) = 4 /\ Matches(vd, v)
      /\ UsageRead(protocol, v) # None => /\ vu \in CanonicalEvent /\ vu.type = "Usage"
                           /\ Rank(p, vu.type) = (IF chat THEN 6 ELSE 5) /\ Matches(vu, v)
      /\ v.end => /\ vx \in CanonicalEvent /\ vx.type = "MessageEnd"
                  /\ Rank(p, vx.type) = (IF chat THEN 5 ELSE 6) /\ Matches(vx, v)
  <2>1. v.start # None => va \in CanonicalEvent /\ va.type = "MessageStart" /\ Rank(p, va.type) = 1 /\ Matches(va, v)
    BY <1>1 DEF CanonicalEvent, Rank, Matches
  <2>2. v.text # None => vb \in CanonicalEvent /\ vb.type = "TextDelta" /\ Rank(p, vb.type) = 2 /\ Matches(vb, v)
    BY <1>1 DEF CanonicalEvent, Rank, Matches
  <2>3. v.tool # None => vc \in CanonicalEvent /\ vc.type = "ToolCallStart" /\ Rank(p, vc.type) = 3 /\ Matches(vc, v)
    BY <1>1 DEF CanonicalEvent, Rank, Matches
  <2>4. v.args # None => vd \in CanonicalEvent /\ vd.type = "ToolArgumentsDelta" /\ Rank(p, vd.type) = 4 /\ Matches(vd, v)
    BY <1>1 DEF CanonicalEvent, Rank, Matches
  <2>5. UsageRead(protocol, v) # None => /\ vu \in CanonicalEvent /\ vu.type = "Usage"
                          /\ Rank(p, vu.type) = (IF chat THEN 6 ELSE 5) /\ Matches(vu, v)
    BY <1>1 DEF CanonicalEvent, Rank, Matches, UsageRead, Figures
  <2>6. v.end => /\ vx \in CanonicalEvent /\ vx.type = "MessageEnd"
                 /\ Rank(p, vx.type) = (IF chat THEN 5 ELSE 6) /\ Matches(vx, v)
    BY <1>1 DEF CanonicalEvent, Rank, Matches
  <2> QED BY <2>1, <2>2, <2>3, <2>4, <2>5, <2>6
<1>3. Decode(v) = (((a \o b) \o c) \o d) \o Ending(v) /\ Ending(v) = (IF chat THEN x \o u ELSE u \o x)
  BY DEF Decode, Ending
<1> HIDE DEF va, vb, vc, vd, vu, vx
<1>4. /\ Within(p, a, 1, 1, v) /\ \A type : Has(a, type) <=> v.start # None /\ va.type = type
  <2> DEFINE r == 1
             start == v.start
  <2>1. r \in Nat /\ (start # None => va \in CanonicalEvent /\ Rank(p, va.type) = r /\ Matches(va, v))
    BY <1>2
  <2> HIDE DEF r, a, start, p
  <2>2. Within(p, Optional(start, va), r, r, v)
        /\ \A type : Has(Optional(start, va), type) <=> start # None /\ va.type = type
    BY <2>1, OptionalWithin
  <2> QED BY <2>2 DEF r, a, start
<1>5. /\ Within(p, b, 2, 2, v) /\ \A type : Has(b, type) <=> v.text # None /\ vb.type = type
  <2> DEFINE r == 2
  <2>1. r \in Nat /\ (v.text # None => vb \in CanonicalEvent /\ Rank(p, vb.type) = r /\ Matches(vb, v))
    BY <1>2
  <2> HIDE DEF r, b
  <2>2. Within(p, Optional(v.text, vb), r, r, v)
        /\ \A type : Has(Optional(v.text, vb), type) <=> v.text # None /\ vb.type = type
    BY <2>1, OptionalWithin
  <2> QED BY <2>2 DEF r, b
<1>6. /\ Within(p, c, 3, 3, v) /\ \A type : Has(c, type) <=> v.tool # None /\ vc.type = type
  <2> DEFINE r == 3
  <2>1. r \in Nat /\ (v.tool # None => vc \in CanonicalEvent /\ Rank(p, vc.type) = r /\ Matches(vc, v))
    BY <1>2
  <2> HIDE DEF r, c
  <2>2. Within(p, Optional(v.tool, vc), r, r, v)
        /\ \A type : Has(Optional(v.tool, vc), type) <=> v.tool # None /\ vc.type = type
    BY <2>1, OptionalWithin
  <2> QED BY <2>2 DEF r, c
<1>7. /\ Within(p, d, 4, 4, v) /\ \A type : Has(d, type) <=> v.args # None /\ vd.type = type
  <2> DEFINE r == 4
  <2>1. r \in Nat /\ (v.args # None => vd \in CanonicalEvent /\ Rank(p, vd.type) = r /\ Matches(vd, v))
    BY <1>2
  <2> HIDE DEF r, d
  <2>2. Within(p, Optional(v.args, vd), r, r, v)
        /\ \A type : Has(Optional(v.args, vd), type) <=> v.args # None /\ vd.type = type
    BY <2>1, OptionalWithin
  <2> QED BY <2>2 DEF r, d
<1>8. /\ Within(p, u, IF chat THEN 6 ELSE 5, IF chat THEN 6 ELSE 5, v)
      /\ \A type : Has(u, type) <=> read # None /\ vu.type = type
  <2> DEFINE r == IF chat THEN 6 ELSE 5
  <2>1. r \in Nat /\ read # None => vu \in CanonicalEvent /\ Rank(p, vu.type) = r /\ Matches(vu, v)
    BY <1>2
  <2>2. r \in Nat
    OBVIOUS
  <2> HIDE DEF r
  <2>3. Within(p, u, r, r, v) /\ \A type : Has(u, type) <=> read # None /\ vu.type = type
    BY <2>1, <2>2, OptionalWithin
  <2> QED BY <2>3 DEF r
<1>9. /\ Within(p, x, IF chat THEN 5 ELSE 6, IF chat THEN 5 ELSE 6, v)
      /\ \A type : Has(x, type) <=> v.end /\ vx.type = type
  <2> DEFINE r == IF chat THEN 5 ELSE 6
  <2>1. r \in Nat /\ v.end => vx \in CanonicalEvent /\ Rank(p, vx.type) = r /\ Matches(vx, v)
    BY <1>2
  <2>2. r \in Nat
    OBVIOUS
  <2> HIDE DEF r
  <2>3. Within(p, x, r, r, v) /\ \A type : Has(x, type) <=> v.end /\ vx.type = type
    <3>1. CASE v.end
      <4>1. x = <<vx>>
        BY <3>1
      <4>2. Within(p, <<vx>>, r, r, v) /\ \A type : Has(<<vx>>, type) <=> vx.type = type
        BY <2>1, <2>2, <3>1, OneWithin
      <4> QED BY <3>1, <4>1, <4>2
    <3>2. CASE ~v.end
      <4>1. x = <<>>
        BY <3>2
      <4>2. Within(p, <<>>, r, r, v) /\ \A type : ~Has(<<>>, type)
        BY <2>2, NoneWithin
      <4> QED BY <3>2, <4>1, <4>2
    <3> QED BY <3>1, <3>2
  <2> QED BY <2>3 DEF r
<1> HIDE DEF a, b, c, d, u, x, read
<1> DEFINE ab == a \o b
           ac == ab \o c
           ad == ac \o d
<1>10. Within(p, ab, 1, 2, v) /\ \A type : Has(ab, type) <=> Has(a, type) \/ Has(b, type)
  BY <1>4, <1>5, WithinConcat
<1> HIDE DEF ab
<1>11. Within(p, ac, 1, 3, v) /\ \A type : Has(ac, type) <=> Has(ab, type) \/ Has(c, type)
  BY <1>6, <1>10, WithinConcat
<1> HIDE DEF ac
<1>12. Within(p, ad, 1, 4, v) /\ \A type : Has(ad, type) <=> Has(ac, type) \/ Has(d, type)
  BY <1>7, <1>11, WithinConcat
<1> HIDE DEF ad
<1>13. Within(p, Ending(v), 5, 6, v) /\ \A type : Has(Ending(v), type) <=> Has(x, type) \/ Has(u, type)
  <2>1. CASE chat
    <3>1. Within(p, x, 5, 5, v) /\ Within(p, u, 6, 6, v) /\ Ending(v) = x \o u
      BY <1>3, <1>8, <1>9, <2>1
    <3> DEFINE m == 5
               n == 6
    <3>2. m \in Nat /\ n \in Nat /\ m <= n /\ m < n /\ Within(p, x, m, m, v) /\ Within(p, u, n, n, v)
      BY <3>1
    <3> HIDE DEF m, n
    <3>3. Within(p, x \o u, m, n, v) /\ \A type : Has(x \o u, type) <=> Has(x, type) \/ Has(u, type)
      BY <3>2, WithinConcat, Zenon
    <3> QED BY <3>1, <3>3 DEF m, n
  <2>2. CASE ~chat
    <3>1. Within(p, x, 6, 6, v) /\ Within(p, u, 5, 5, v) /\ Ending(v) = u \o x
      BY <1>3, <1>8, <1>9, <2>2
    <3> DEFINE m == 5
               n == 6
    <3>2. m \in Nat /\ n \in Nat /\ m <= n /\ m < n /\ Within(p, u, m, m, v) /\ Within(p, x, n, n, v)
      BY <3>1
    <3> HIDE DEF m, n
    <3>3. Within(p, u \o x, m, n, v) /\ \A type : Has(u \o x, type) <=> Has(u, type) \/ Has(x, type)
      BY <3>2, WithinConcat, Zenon
    <3> QED BY <3>1, <3>3 DEF m, n
  <2> QED BY <2>1, <2>2
<1>14. Within(p, ad \o Ending(v), 1, 6, v) /\ \A type : Has(ad \o Ending(v), type) <=> Has(ad, type) \/ Has(Ending(v), type)
  BY <1>12, <1>13, WithinConcat
<1>15. Decode(v) = ad \o Ending(v)
  BY <1>3 DEF ab, ac, ad
<1>16. \A type : Has(Decode(v), type) <=>
         \/ Has(a, type) \/ Has(b, type) \/ Has(c, type) \/ Has(d, type) \/ Has(x, type) \/ Has(u, type)
  BY <1>10, <1>11, <1>12, <1>13, <1>14, <1>15
<1> QED BY <1>1, <1>2, <1>4, <1>5, <1>6, <1>7, <1>8, <1>9, <1>14, <1>15, <1>16 DEF Pending, read

\* The first of them, and the rest.
LEMMA NextPending ==
  ASSUME NEW p, NEW v, NEW q, Pending(p, q, v), q # <<>>
  PROVE  /\ Head(q) \in CanonicalEvent /\ Matches(Head(q), v) /\ Pending(p, Tail(q), v)
         /\ \A type : Has(q, type) <=> Head(q).type = type \/ Has(Tail(q), type)
         /\ ~Has(Tail(q), Head(q).type)
         /\ Head(q).type = "MessageEnd" =>
              /\ ~Has(Tail(q), "TextDelta") /\ ~Has(Tail(q), "ToolArgumentsDelta")
              /\ Has(Tail(q), "Usage") => p = "chat"
         /\ Head(q).type = "Usage" /\ Has(Tail(q), "MessageEnd") => p # "chat"
<1> DEFINE h == Head(q)
           t == Tail(q)
<1>1. /\ q \in Seq(CanonicalEvent)
      /\ \A i \in 1 .. Len(q) : 1 <= Rank(p, q[i].type) /\ Rank(p, q[i].type) <= 6 /\ Matches(q[i], v)
      /\ \A i, j \in 1 .. Len(q) : i < j => Rank(p, q[i].type) < Rank(p, q[j].type)
  BY DEF Pending, Within
<1>2. /\ h \in CanonicalEvent /\ h = q[1] /\ t \in Seq(CanonicalEvent) /\ Len(q) \in Nat /\ Len(q) >= 1
      /\ Len(t) = Len(q) - 1 /\ \A i \in 1 .. Len(q) - 1 : t[i] = q[i + 1]
  BY <1>1
<1> HIDE DEF h, t
<1>3. 1 \in 1 .. Len(q) /\ \A i \in 1 .. Len(t) : i + 1 \in 1 .. Len(q) /\ 1 < i + 1 /\ t[i] = q[i + 1]
  BY <1>2
<1>4. Matches(h, v)
  BY <1>1, <1>2, <1>3
<1>5. Within(p, t, 1, 6, v)
  <2>1. \A i \in 1 .. Len(t) : 1 <= Rank(p, t[i].type) /\ Rank(p, t[i].type) <= 6 /\ Matches(t[i], v)
    BY <1>1, <1>3
  <2>2. ASSUME NEW i \in 1 .. Len(t), NEW j \in 1 .. Len(t), i < j
        PROVE  Rank(p, t[i].type) < Rank(p, t[j].type)
    <3>1. i + 1 < j + 1
      BY <2>2
    <3> QED BY <1>1, <1>3, <3>1
  <2> QED BY <1>2, <2>1, <2>2 DEF Within
<1>6. \A i \in 1 .. Len(t) : Rank(p, h.type) < Rank(p, t[i].type)
  BY <1>1, <1>2, <1>3
<1>7. ASSUME NEW type PROVE Has(q, type) <=> h.type = type \/ Has(t, type)
  <2>1. \A i \in 1 .. Len(q) : i = 1 \/ (i - 1 \in 1 .. Len(t) /\ t[i - 1] = q[i])
    BY <1>2
  <2> QED BY <1>2, <1>3, <2>1 DEF Has
<1>8. ASSUME NEW type, Has(t, type) PROVE Rank(p, h.type) < Rank(p, type)
  BY <1>6, <1>8 DEF Has
<1>9. ~Has(t, h.type)
  <2>1. Rank(p, h.type) \in Int
    BY RankType
  <2> QED BY <1>8, <2>1
<1>10. h.type = "MessageEnd" =>
         /\ ~Has(t, "TextDelta") /\ ~Has(t, "ToolArgumentsDelta")
         /\ Has(t, "Usage") => p = "chat"
  <2>1. /\ Rank(p, "TextDelta") = 2 /\ Rank(p, "ToolArgumentsDelta") = 4
        /\ Rank(p, "MessageEnd") = (IF p = "chat" THEN 5 ELSE 6) /\ Rank(p, "Usage") = (IF p = "chat" THEN 6 ELSE 5)
    BY DEF Rank
  <2>2. Rank(p, "MessageEnd") >= 5
    BY <2>1
  <2> QED BY <1>8, <2>1, <2>2
<1>11. h.type = "Usage" /\ Has(t, "MessageEnd") => p # "chat"
  <2>1. /\ Rank(p, "MessageEnd") = (IF p = "chat" THEN 5 ELSE 6) /\ Rank(p, "Usage") = (IF p = "chat" THEN 6 ELSE 5)
    BY DEF Rank
  <2> QED BY <1>8, <2>1
<1> QED BY <1>2, <1>4, <1>5, <1>7, <1>9, <1>10, <1>11 DEF h, t, Pending
-----------------------------------------------------------------------------
(* The stream as a whole *)

Translating == pc \in {"read", "encode", "yield"}
All == sent \o frames

StreamInv ==
  /\ protocol \in Protocols /\ told \in Seq(Event) /\ queue \in Seq(CanonicalEvent)
  /\ pc \in {"read", "encode", "yield", "failed", "ended", "gone"}
  /\ enc \in Encoder /\ (enc.created <=> enc.sequence > 0) /\ (enc.created => enc.id # None)
  /\ sent \in Seq(FrameSet) /\ frames \in Seq(FrameSet)
  /\ Valid(All)
  /\ Translating => Live(enc, All)

LEMMA EmptyLive ==
  ASSUME NEW e,
         e = [id |-> None, sequence |-> 0, created |-> FALSE, completed |-> FALSE,
              next |-> 0, textIndex |-> None, text |-> <<>>, tools |-> <<>>, usage |-> None]
  PROVE  e \in Encoder /\ Live(e, <<>>)
<1>1. e \in Encoder
  <2> DEFINE R == [index : Nat, arguments : Seq(Pieces)]
  <2> HIDE DEF R
  <2>1. <<>> \in [{} -> R] /\ {} \in SUBSET Tools
    OBVIOUS
  <2>2. <<>> \in Calls
    BY <2>1 DEF Calls, R
  <2>3. <<>> \in Seq(Pieces)
    OBVIOUS
  <2> QED BY <2>2, <2>3 DEF Encoder, ResponseIds
<1>2. <<>> \in Seq(FrameSet) /\ Len(<<>>) = 0 /\ DOMAIN <<>> = {}
  OBVIOUS
<1> DEFINE q == <<>>
<1>3. q \in Seq(FrameSet) /\ Len(q) = 0 /\ DOMAIN q = {} /\ DOMAIN e.tools = {} /\ e.next = 0
  BY <1>2
<1> HIDE DEF q
<1>4. Valid(q) /\ Counts(e, q)
  BY <1>3 DEF Valid, Counts, Open, Holds
<1>5. AddedTo(q, Len(q)) = {} /\ IndicesTo(q, Len(q)) = 1 .. e.next
  BY <1>3 DEF AddedTo, IndicesTo
<1>6. Places(e, q)
  <2>1. IsFiniteSet({})
    BY FS_EmptySet
  <2> QED BY <1>3, <1>5, <2>1 DEF Places
<1>7. Texts(e, q)
  BY <1>3 DEF Texts
<1> QED BY <1>1, <1>3, <1>4, <1>6, <1>7 DEF Live, q

LEMMA CanonicalType ==
  ASSUME NEW v \in CanonicalEvent
  PROVE  /\ v.type = "MessageStart" => v.id \in Ids \cup {None}
         /\ v.type = "TextDelta" => v.text \in Pieces
         /\ v.type = "ToolCallStart" => v.index \in Tools
         /\ v.type = "ToolArgumentsDelta" => v.index \in Tools /\ v.delta \in Pieces
         /\ v.type = "Usage" => v.usage \in Usages \cup {None}
BY DEF CanonicalEvent

\* A step that makes the encoder emit frames.
LEMMA Emitting ==
  ASSUME StreamInv, NEW e, NEW new, pc = "encode", queue # <<>>, Emit(e, new),
         e \in Encoder, new \in Seq(NewFrames), Live(Counted(e, new), Emitted(All, new))
  PROVE  StreamInv'
<1> DEFINE n == Numbered(new, Len(All))
<1>1. /\ enc' = Counted(e, new) /\ queue' = Tail(queue)
      /\ protocol' = protocol /\ told' = told /\ pc' = pc /\ sent' = sent
      /\ frames' = frames \o Numbered(new, e.sequence)
  BY DEF Emit, Counted, Numbered, WithNumber
<1>2. /\ protocol \in Protocols /\ told \in Seq(Event) /\ queue \in Seq(CanonicalEvent)
      /\ sent \in Seq(FrameSet) /\ frames \in Seq(FrameSet)
  BY DEF StreamInv
<1>3. All \in Seq(FrameSet) /\ Len(All) \in Nat
  BY <1>2, Joined DEF All
<1>4. n \in Seq(FrameSet) /\ Len(n) = Len(new) /\ Len(new) \in Nat
  BY <1>3, NumberedType
<1>5. e.sequence = Len(All)
  <2>1. Counted(e, new).sequence = Len(Emitted(All, new)) /\ Counted(e, new).sequence = e.sequence + Len(new)
    BY CountedIs DEF Live, Counts
  <2>2. Len(Emitted(All, new)) = Len(All) + Len(new)
    BY <1>3, <1>4, Joined DEF Emitted
  <2>3. e.sequence \in Nat
    BY EncoderType
  <2>4. \A a, b, c \in Nat : a + c = b + c => a = b
    OBVIOUS
  <2>5. e.sequence + Len(new) = Len(All) + Len(new)
    BY <2>1, <2>2, Zenon
  <2> QED BY <1>3, <1>4, <2>3, <2>4, <2>5, Zenon
<1>6. frames' = frames \o n /\ frames' \in Seq(FrameSet)
  <2>1. frames' = frames \o n
    BY <1>1, <1>5
  <2> HIDE DEF n
  <2> QED BY <1>2, <1>4, <2>1, Joined
<1>7. All' = Emitted(All, new)
  <2>1. (sent \o frames) \o n = sent \o (frames \o n)
    <3> HIDE DEF n
    <3> QED BY <1>2, <1>4, ConcatAssociative
  <2> QED BY <1>1, <1>6, <2>1 DEF All, Emitted
<1>8. Live(enc', All')
  BY <1>1, <1>7
<1>9. enc' \in Encoder /\ Valid(All') /\ Counts(enc', All') /\ Len(All') \in Nat
  BY <1>8 DEF Live
<1>10. (enc'.created <=> enc'.sequence > 0) /\ (enc'.created => enc'.id # None)
  BY <1>9 DEF Counts
<1>11. queue' \in Seq(CanonicalEvent)
  BY <1>1, <1>2
<1> QED BY <1>1, <1>2, <1>6, <1>8, <1>9, <1>10, <1>11 DEF StreamInv

LEMMA CountedNone ==
  ASSUME NEW e, NEW q, Live(e, q)
  PROVE  <<>> \in Seq(NewFrames) /\ Live(Counted(e, <<>>), Emitted(q, <<>>))
<1>1. e \in Encoder /\ q \in Seq(FrameSet) /\ e.sequence \in Nat /\ Len(q) \in Nat
  BY EncoderType DEF Live
<1>2. e.sequence + Len(<<>>) = e.sequence
  BY <1>1
<1>3. Counted(e, <<>>) = e
  BY <1>1, <1>2 DEF Counted, Encoder
<1>4. Emitted(q, <<>>) = q
  BY <1>1, NumberedNone DEF Emitted
<1>5. <<>> \in Seq(NewFrames)
  OBVIOUS
<1> QED BY <1>3, <1>4, <1>5

LEMMA StreamInvInit == Init => StreamInv
<1> SUFFICES ASSUME Init PROVE StreamInv
  OBVIOUS
<1>1. /\ protocol \in Protocols /\ told = <<>> /\ queue = <<>> /\ frames = <<>> /\ sent = <<>> /\ pc = "read"
      /\ enc = [id |-> None, sequence |-> 0, created |-> FALSE, completed |-> FALSE,
                next |-> 0, textIndex |-> None, text |-> <<>>, tools |-> <<>>, usage |-> None]
  BY DEF Init
<1>2. enc \in Encoder /\ Live(enc, <<>>)
  BY <1>1, EmptyLive, Zenon
<1>3. <<>> \in Seq(FrameSet) /\ <<>> \in Seq(Event) /\ <<>> \in Seq(CanonicalEvent)
  OBVIOUS
<1>4. <<>> \o <<>> = <<>>
  OBVIOUS
<1>5. All = <<>>
  BY <1>1, <1>4 DEF All
<1>6. Valid(All) /\ Live(enc, All)
  BY <1>2, <1>5 DEF Live
<1>7. (enc.created <=> enc.sequence > 0) /\ (enc.created => enc.id # None)
  BY <1>1
<1> QED BY <1>1, <1>2, <1>3, <1>6, <1>7 DEF StreamInv

LEMMA StreamInvEncoding ==
  ASSUME StreamInv,
         MessageStart \/ TextDelta \/ ToolCallStart \/ ToolCallStarted \/ ToolArgumentsDelta \/ Usage \/ MessageEnd
  PROVE  StreamInv'
<1>1. /\ pc = "encode" /\ queue # <<>> /\ ~enc.completed
  BY DEF MessageStart, TextDelta, ToolCallStart, ToolCallStarted, ToolArgumentsDelta, Usage, MessageEnd, Encoding
<1>2. Live(enc, All) /\ enc \in Encoder
  BY <1>1 DEF StreamInv, Translating
<1>3. queue \in Seq(CanonicalEvent)
  BY DEF StreamInv
<1> DEFINE v == Head(queue)
<1>4. v \in CanonicalEvent
  BY <1>1, <1>3
<1> HIDE DEF v
<1>5. CASE MessageStart
  <2> DEFINE e == [enc EXCEPT !.id = IF @ = None THEN v.id ELSE @]
  <2>1. v.type = "MessageStart" /\ Emit(Created(e), Opening(e))
    BY <1>5 DEF MessageStart, Encoding, v
  <2>2. v.id \in ResponseIds
    BY <1>4, <2>1, CanonicalType DEF ResponseIds
  <2>3. e \in Encoder /\ Live(e, All) /\ ~e.completed
    BY <1>1, <1>2, <2>2, StartLive
  <2> HIDE DEF e
  <2>4. Created(e) \in Encoder /\ Opening(e) \in Seq(NewFrames)
    BY <2>3, CreatedIs, OpeningType
  <2>5. Live(Counted(Created(e), Opening(e)), Emitted(All, Opening(e)))
    BY <2>3, OpenedLive
  <2> QED BY <1>1, <2>1, <2>4, <2>5, Emitting, Zenon
<1>6. CASE TextDelta
  <2>1. v.type = "TextDelta" /\ Emit(Written(enc, v.text), TextFrames(enc, v.text))
    BY <1>6 DEF TextDelta, Encoding, v, Written, TextFrames, MessageItem
  <2>2. v.text \in Pieces
    BY <1>4, <2>1, CanonicalType
  <2>3. /\ Written(enc, v.text) \in Encoder /\ TextFrames(enc, v.text) \in Seq(NewFrames)
        /\ Live(Counted(Written(enc, v.text), TextFrames(enc, v.text)), Emitted(All, TextFrames(enc, v.text)))
    BY <1>1, <1>2, <2>2, TextLive
  <2> QED BY <1>1, <2>1, <2>3, Emitting, Zenon
<1>7. CASE ToolCallStart
  <2>1. v.type = "ToolCallStart" /\ v.index \notin DOMAIN enc.tools /\ Emit(Started(enc, v.index), StartFrames(enc))
    BY <1>7 DEF ToolCallStart, Encoding, v, Started, StartFrames
  <2>2. v.index \in Tools
    BY <1>4, <2>1, CanonicalType
  <2>3. /\ Started(enc, v.index) \in Encoder /\ StartFrames(enc) \in Seq(NewFrames)
        /\ Live(Counted(Started(enc, v.index), StartFrames(enc)), Emitted(All, StartFrames(enc)))
    BY <1>1, <1>2, <2>1, <2>2, CallLive
  <2> QED BY <1>1, <2>1, <2>3, Emitting, Zenon
<1>8. CASE ToolCallStarted
  <2>1. Emit(Created(enc), Opening(enc))
    BY <1>8 DEF ToolCallStarted
  <2>2. Created(enc) \in Encoder /\ Opening(enc) \in Seq(NewFrames)
    BY <1>2, CreatedIs, OpeningType
  <2>3. Live(Counted(Created(enc), Opening(enc)), Emitted(All, Opening(enc)))
    BY <1>1, <1>2, OpenedLive
  <2> QED BY <1>1, <2>1, <2>2, <2>3, Emitting, Zenon
<1>9. CASE ToolArgumentsDelta
  <2> DEFINE k == v.index
             p == v.delta
  <2>1. v.type = "ToolArgumentsDelta" /\ k \in DOMAIN enc.tools /\ Emit(Argued(enc, k, p), ArgumentFrames(enc, k, p))
    BY <1>9 DEF ToolArgumentsDelta, Encoding, v, Argued, ArgumentFrames
  <2>2. p \in Pieces
    BY <1>4, <2>1, CanonicalType
  <2>3. /\ Argued(enc, k, p) \in Encoder /\ ArgumentFrames(enc, k, p) \in Seq(NewFrames)
        /\ Live(Counted(Argued(enc, k, p), ArgumentFrames(enc, k, p)), Emitted(All, ArgumentFrames(enc, k, p)))
    BY <1>1, <1>2, <2>1, <2>2, ArgumentsLive
  <2> QED BY <1>1, <2>1, <2>3, Emitting, Zenon
<1>10. CASE Usage
  <2> DEFINE e == [enc EXCEPT !.usage = v.usage]
  <2>1. v.type = "Usage" /\ Emit(e, <<>>)
    BY <1>10 DEF Usage, Encoding, v
  <2>2. v.usage \in Usages \cup {None}
    BY <1>4, <2>1, CanonicalType
  <2>3. e \in Encoder /\ Live(e, All)
    BY <1>2, <2>2, UsageLive
  <2> HIDE DEF e
  <2>4. <<>> \in Seq(NewFrames) /\ Live(Counted(e, <<>>), Emitted(All, <<>>))
    BY <2>3, CountedNone
  <2> QED BY <1>1, <2>1, <2>3, <2>4, Emitting, Zenon
<1>11. CASE MessageEnd
  <2>1. Emit(Ended(enc), EndFrames(enc))
    BY <1>11 DEF MessageEnd, Ended, EndFrames
  <2>2. /\ Ended(enc) \in Encoder /\ EndFrames(enc) \in Seq(NewFrames)
        /\ Live(Counted(Ended(enc), EndFrames(enc)), Emitted(All, EndFrames(enc)))
    BY <1>1, <1>2, EndLive
  <2> QED BY <1>1, <2>1, <2>2, Emitting, Zenon
<1> QED BY <1>5, <1>6, <1>7, <1>8, <1>9, <1>10, <1>11

LEMMA SentIsValid ==
  ASSUME StreamInv
  PROVE  Valid(sent) /\ sent \in Seq(FrameSet)
<1>1. /\ sent \in Seq(FrameSet) /\ All \in Seq(FrameSet) /\ Extends(All, sent)
  <2>1. sent \in Seq(FrameSet) /\ frames \in Seq(FrameSet)
    BY DEF StreamInv
  <2> QED BY <2>1, Joined DEF All, Extends
<1> QED BY <1>1, ValidPrefix DEF StreamInv

\* A frame that moves from one sequence to the other leaves the whole as it is.
LEMMA HandedOver ==
  ASSUME NEW s \in Seq(FrameSet), NEW t \in Seq(FrameSet), t # <<>>
  PROVE  Append(s, Head(t)) \o Tail(t) = s \o t
<1> DEFINE S == FrameSet
           h == Head(t)
           u == Tail(t)
<1> HIDE DEF S
<1>1. s \in Seq(S) /\ t \in Seq(S) /\ h \in S /\ u \in Seq(S)
  BY HeadTailProperties DEF S
<1> HIDE DEF h, u
<1>2. t = <<h>> \o u
  BY DEF h, u, S
<1>3. Append(s, h) = s \o <<h>>
  BY <1>1
<1>4. <<h>> \in Seq(S)
  BY <1>1
<1>5. (s \o <<h>>) \o u = s \o (<<h>> \o u)
  BY <1>1, <1>4, ConcatAssociative
<1> QED BY <1>2, <1>3, <1>5 DEF h, u

LEMMA StreamInvNext == StreamInv /\ [Next]_vars => StreamInv'
<1> SUFFICES ASSUME StreamInv, [Next]_vars PROVE StreamInv'
  OBVIOUS
<1>1. /\ protocol \in Protocols /\ told \in Seq(Event) /\ queue \in Seq(CanonicalEvent)
      /\ pc \in {"read", "encode", "yield", "failed", "ended", "gone"}
      /\ enc \in Encoder /\ (enc.created <=> enc.sequence > 0) /\ (enc.created => enc.id # None)
      /\ sent \in Seq(FrameSet) /\ frames \in Seq(FrameSet) /\ Valid(All)
      /\ Translating => Live(enc, All)
  BY DEF StreamInv
<1>2. CASE Receive
  <2>1. PICK v \in Upstream :
          /\ pc = "read" /\ queue' = Decode(v) /\ told' = Append(told, v) /\ pc' = "encode"
          /\ protocol' = protocol /\ frames' = frames /\ sent' = sent /\ enc' = enc
    BY <1>2 DEF Receive
  <2>2. v \in Event
    BY ConstantsAssumption
  <2>3. queue' \in Seq(CanonicalEvent)
    BY <2>1, <2>2, DecodePending DEF Pending, Within
  <2>4. told' \in Seq(Event)
    BY <1>1, <2>1, <2>2
  <2>5. All' = All /\ Live(enc, All)
    BY <1>1, <2>1 DEF All, Translating
  <2> QED BY <1>1, <2>1, <2>3, <2>4, <2>5 DEF StreamInv
<1>3. CASE ReceiveInvalid \/ UpstreamEnds \/ ClientLeaves
  <2>1. /\ pc' \in {"failed", "ended", "gone"} /\ protocol' = protocol /\ told' = told /\ queue' = queue
        /\ frames' = frames /\ sent' = sent /\ enc' = enc
    BY <1>3 DEF ReceiveInvalid, UpstreamEnds, ClientLeaves
  <2>2. All' = All
    BY <2>1 DEF All
  <2>3. ~Translating'
    BY <2>1 DEF Translating
  <2> QED BY <1>1, <2>1, <2>2, <2>3 DEF StreamInv
<1>4. CASE MessageStart \/ TextDelta \/ ToolCallStart \/ ToolCallStarted \/ ToolArgumentsDelta \/ Usage \/ MessageEnd
  BY <1>4, StreamInvEncoding
<1>5. CASE ToolCallMissing
  <2>1. /\ pc = "encode" /\ ~enc.completed /\ pc' = "failed" /\ queue' = <<>> /\ frames' = <<>>
        /\ enc' = [Created(enc) EXCEPT !.sequence = @ + Len(Opening(enc))]
        /\ protocol' = protocol /\ told' = told /\ sent' = sent
    BY <1>5 DEF ToolCallMissing, Encoding
  <2>2. Live(enc, All)
    BY <1>1, <2>1 DEF Translating
  <2>3. enc' = Counted(Created(enc), Opening(enc))
    BY <2>1 DEF Counted
  <2>4. Live(Counted(Created(enc), Opening(enc)), Emitted(All, Opening(enc)))
    BY <2>1, <2>2, OpenedLive
  <2>5. enc' \in Encoder /\ Counts(enc', Emitted(All, Opening(enc))) /\ Len(Emitted(All, Opening(enc))) \in Nat
    BY <2>3, <2>4 DEF Live
  <2>6. (enc'.created <=> enc'.sequence > 0) /\ (enc'.created => enc'.id # None)
    BY <2>5 DEF Counts
  <2>7. All' = sent
    BY <1>1, <2>1 DEF All
  <2>8. Valid(All')
    BY <2>7, SentIsValid
  <2>9. <<>> \in Seq(CanonicalEvent) /\ <<>> \in Seq(FrameSet) /\ ~Translating'
    BY <2>1 DEF Translating
  <2> QED BY <1>1, <2>1, <2>5, <2>6, <2>8, <2>9 DEF StreamInv
<1>6. CASE AfterCompleted
  <2>1. /\ pc = "encode" /\ queue # <<>> /\ queue' = Tail(queue)
        /\ protocol' = protocol /\ told' = told /\ pc' = pc /\ frames' = frames /\ sent' = sent /\ enc' = enc
    BY <1>6 DEF AfterCompleted
  <2>2. queue' \in Seq(CanonicalEvent)
    BY <1>1, <2>1
  <2>3. All' = All /\ Translating' = Translating
    BY <2>1 DEF All, Translating
  <2> QED BY <1>1, <2>1, <2>2, <2>3 DEF StreamInv
<1>7. CASE Encoded \/ Yielded
  <2>1. /\ pc \in {"encode", "yield"} /\ pc' \in {"read", "yield"} /\ protocol' = protocol /\ told' = told
        /\ queue' = queue /\ frames' = frames /\ sent' = sent /\ enc' = enc
    BY <1>7 DEF Encoded, Yielded
  <2>2. All' = All /\ Translating
    BY <2>1 DEF All, Translating
  <2> QED BY <1>1, <2>1, <2>2 DEF StreamInv
<1>8. CASE Yield
  <2>1. /\ pc = "yield" /\ frames # <<>> /\ sent' = Append(sent, Head(frames)) /\ frames' = Tail(frames)
        /\ protocol' = protocol /\ told' = told /\ pc' = pc /\ queue' = queue /\ enc' = enc
    BY <1>8 DEF Yield
  <2>2. Head(frames) \in FrameSet /\ Tail(frames) \in Seq(FrameSet)
    BY <1>1, <2>1, HeadTailProperties
  <2>3. sent' \in Seq(FrameSet) /\ frames' \in Seq(FrameSet)
    BY <1>1, <2>1, <2>2, AppendProperties
  <2>4. All' = All
    BY <1>1, <2>1, <2>2, HandedOver DEF All
  <2>5. Translating' = Translating
    BY <2>1 DEF Translating
  <2> QED BY <1>1, <2>1, <2>3, <2>4, <2>5 DEF StreamInv
<1>9. CASE UNCHANGED vars
  <2>1. All' = All /\ Translating' = Translating
    BY <1>9 DEF vars, All, Translating
  <2> QED BY <1>1, <1>9, <2>1 DEF StreamInv, vars
<1> QED BY <1>2, <1>3, <1>4, <1>5, <1>6, <1>7, <1>8, <1>9 DEF Next, Transcode

LEMMA StreamInvHolds == Spec => []StreamInv
BY StreamInvInit, StreamInvNext, PTL DEF Spec

-----------------------------------------------------------------------------
(* Theorems *)

LEMMA SeqOf ==
  ASSUME NEW S, NEW s \in Seq(S)
  PROVE  IsSeqOf(s, S)
BY DEF IsSeqOf

\* Every variable of the translation has its type in every state: the encoder
\* never holds an index that is no number, and its id is set once it announced
\* the response.
THEOREM StreamTypeOK == Spec => []TypeOK
<1>1. StreamInv => TypeOK
  <2> SUFFICES ASSUME StreamInv PROVE TypeOK
    OBVIOUS
  <2>1. /\ protocol \in Protocols /\ told \in Seq(Event) /\ queue \in Seq(CanonicalEvent)
        /\ pc \in {"read", "encode", "yield", "failed", "ended", "gone"}
        /\ enc \in Encoder /\ (enc.created <=> enc.sequence > 0) /\ (enc.created => enc.id # None)
    BY DEF StreamInv
  <2>2. IsSeqOf(told, Event) /\ IsSeqOf(queue, CanonicalEvent)
    BY <2>1, SeqOf, Zenon
  <2>3. /\ enc.id \in ResponseIds /\ enc.sequence \in Nat /\ enc.created \in BOOLEAN /\ enc.completed \in BOOLEAN
        /\ enc.next \in Nat /\ enc.textIndex \in Nat \cup {None} /\ enc.text \in Seq(Pieces)
        /\ DOMAIN enc.tools \subseteq Tools
        /\ \A k \in DOMAIN enc.tools : enc.tools[k].index \in Nat /\ enc.tools[k].arguments \in Seq(Pieces)
    BY <2>1, EncoderType
  <2>4. enc.usage \in Usages \cup {None}
    BY <2>1 DEF Encoder
  <2>5. IsSeqOf(enc.text, Pieces) /\ \A k \in DOMAIN enc.tools : IsSeqOf(enc.tools[k].arguments, Pieces)
    BY <2>3, SeqOf, Zenon
  <2>6. enc.created = (enc.sequence > 0)
    BY <2>1, <2>3
  <2> QED BY <2>1, <2>2, <2>3, <2>4, <2>5, <2>6 DEF TypeOK, ResponseIds
<1> QED BY <1>1, StreamInvHolds, PTL

\* The frames a client receives are numbered from 0 without a gap, also when a
\* call that was never started made the proxy drop frames it had numbered, and
\* all that carry a response id carry the one that was announced first
\* (ensure_created, next_sequence).
THEOREM FramesNumbered == Spec => []FramesAreNumbered
<1>1. StreamInv => FramesAreNumbered
  <2> SUFFICES ASSUME StreamInv PROVE FramesAreNumbered
    OBVIOUS
  <2>1. Valid(sent) /\ sent \in Seq(FrameSet)
    BY SentIsValid
  <2>2. DOMAIN sent = 1 .. Len(sent)
    BY <2>1
  <2>3. \A i \in DOMAIN sent : IsNumbered(sent, i)
    BY <2>1, <2>2 DEF Valid
  <2> QED BY <2>3 DEF FramesAreNumbered, IsNumbered
<1> QED BY <1>1, StreamInvHolds, PTL

LEMMA DeltasAre ==
  ASSUME NEW n
  PROVE  Deltas(n) = Said(sent, n)
<1>1. {i \in Received(DeltaTypes) : sent[i].index = n} = DeltasAt(sent, n)
  BY DEF Received, DeltasAt
<1> QED BY <1>1 DEF Deltas, Said

LEMMA ClientStatusIs == ClientStatus = StatusOf(sent)
<1>1. \A type : Received({type}) # {} <=> Holds(sent, type)
  BY DEF Received, Holds
<1> QED BY <1>1 DEF ClientStatus, StatusOf

LEMMA ClientItemsAre == ClientItems = ItemsOf(sent)
<1> DEFINE added == Received({"output_item.added"})
           D == {sent[i].index + 1 : i \in added}
           item(n) == [kind |-> sent[CHOOSE i \in added : sent[i].index = n - 1].kind,
                       content |-> Deltas(n - 1),
                       open |-> \A i \in Received({"output_item.done"}) : sent[i].index # n - 1]
<1>1. ClientItems = [n \in D |-> item(n)]
  BY DEF ClientItems
<1>2. added = {j \in DOMAIN sent : sent[j].type \in {"output_item.added"}}
      /\ Received({"output_item.done"}) = {j \in DOMAIN sent : sent[j].type \in {"output_item.done"}}
  BY DEF Received
<1>3. D = Indices(sent)
  BY <1>2 DEF Indices
<1>4. ASSUME NEW n \in D PROVE item(n) = ItemOf(sent, n - 1)
  <2>1. sent[CHOOSE i \in added : sent[i].index = n - 1].kind = KindOf(sent, n - 1)
    BY <1>2 DEF KindOf
  <2>2. Deltas(n - 1) = Said(sent, n - 1)
    BY DeltasAre
  <2>3. (\A i \in Received({"output_item.done"}) : sent[i].index # n - 1) = IsOpen(sent, n - 1)
    BY <1>2 DEF IsOpen
  <2> QED BY <2>1, <2>2, <2>3 DEF ItemOf
<1> HIDE DEF added, D, item
<1>5. [n \in D |-> item(n)] = [n \in D |-> ItemOf(sent, n - 1)]
  BY <1>4
<1> QED BY <1>1, <1>3, <1>5 DEF ItemsOf

\* What is final repeats what was sent before: the done frames of an item hold
\* its accumulated text or arguments, the completed response holds all items in
\* the order of their output index (complete()), whatever the provider sent and
\* in whatever order.
THEOREM FinalFramesRepeat == Spec => []FinalIsAccumulated
<1>1. StreamInv => FinalIsAccumulated
  <2> SUFFICES ASSUME StreamInv PROVE FinalIsAccumulated
    OBVIOUS
  <2>1. Valid(sent) /\ sent \in Seq(FrameSet)
    BY SentIsValid
  <2>2. \A i \in DOMAIN sent : Repeats(sent, i)
    BY <2>1 DEF Valid
  <2>3. ClientItems = ItemsOf(sent) /\ \A n : Deltas(n) = Said(sent, n)
    BY ClientItemsAre, DeltasAre
  <2>4. [n \in DOMAIN ClientItems |-> [kind |-> ClientItems[n].kind, content |-> ClientItems[n].content]]
          = [n \in Indices(sent) |-> [kind |-> KindOf(sent, n - 1), content |-> Said(sent, n - 1)]]
    BY <2>3 DEF ItemsOf, ItemOf
  <2> QED BY <2>2, <2>3, <2>4 DEF FinalIsAccumulated, Repeats, FinalTypes
<1> QED BY <1>1, StreamInvHolds, PTL

\* The frames a client receives are steps of ResponsesLifecycle, for every
\* provider: only the step that hands a frame over (the yield of
\* stream_response) is visible, and that frame creates the response, announces,
\* extends or closes an item that is open, or completes a response whose items
\* are all closed.
THEOREM StreamImplementsLifecycle == Spec => ImplementsLifecycle
<1>1. Init => Lifecycle!Init
  <2> SUFFICES ASSUME Init PROVE Lifecycle!Init
    OBVIOUS
  <2>1. sent = <<>> /\ DOMAIN sent = {} /\ Len(sent) = 0
    BY DEF Init
  <2>2. Received({"output_item.added"}) = {} /\ Received({"response.completed"}) = {} /\ Received({"response.created"}) = {}
    BY <2>1 DEF Received
  <2>3. ClientStatus = "none"
    BY <2>2 DEF ClientStatus
  <2>4. ClientItems = <<>>
    BY <2>2 DEF ClientItems
  <2> QED BY <2>1, <2>3, <2>4 DEF Lifecycle!Init
<1>2. StreamInv /\ StreamInv' /\ [Next]_vars => [Lifecycle!Next]_(Lifecycle!vars)
  <2> SUFFICES ASSUME StreamInv, StreamInv', [Next]_vars PROVE [Lifecycle!Next]_(Lifecycle!vars)
    OBVIOUS
  <2>1. ClientStatus = StatusOf(sent) /\ ClientStatus' = StatusOf(sent')
    <3>1. (ClientStatus = StatusOf(sent))'
      BY ClientStatusIs, PTL
    <3> QED BY <3>1, ClientStatusIs
  <2>2. ClientItems = ItemsOf(sent) /\ ClientItems' = ItemsOf(sent')
    <3>1. (ClientItems = ItemsOf(sent))'
      BY ClientItemsAre, PTL
    <3> QED BY <3>1, ClientItemsAre
  <2>3. CASE sent' = sent
    BY <2>1, <2>2, <2>3 DEF Lifecycle!vars
  <2>4. CASE Yield
    <3>1. frames # <<>> /\ sent' = Append(sent, Head(frames))
      BY <2>4 DEF Yield
    <3>2. sent \in Seq(FrameSet) /\ Head(frames) \in FrameSet /\ frames \in Seq(FrameSet)
      BY <3>1, HeadTailProperties DEF StreamInv
    <3>3. Valid(sent')
      <4>1. /\ sent' \in Seq(FrameSet) /\ frames' \in Seq(FrameSet) /\ Valid(All')
        BY DEF StreamInv
      <4>2. sent' \o frames' \in Seq(FrameSet) /\ Extends(sent' \o frames', sent') /\ Valid(sent' \o frames')
        BY <4>1, Joined DEF All, Extends
      <4> QED BY <4>1, <4>2, ValidPrefix
    <3>4. StepOf(sent, sent')
      BY <3>1, <3>2, <3>3, EveryFrameIsAStep, Zenon
    <3>5. Len(sent') = Len(sent) + 1
      BY <3>1, <3>2
    <3>6. Lifecycle!Next
      BY <2>1, <2>2, <3>4, <3>5
      DEF StepOf, Lifecycle!Next, Lifecycle!Create, Lifecycle!Announce, Lifecycle!InProgress,
          Lifecycle!Extend, Lifecycle!Elaborate, Lifecycle!Close, Lifecycle!Complete
    <3> QED BY <3>6
  <2>5. sent' = sent \/ Yield
    BY DEF Next, vars, Receive, ReceiveInvalid, Transcode, UpstreamEnds, ClientLeaves, MessageStart, TextDelta,
           ToolCallStart, ToolCallStarted, ToolArgumentsDelta, ToolCallMissing, Usage, MessageEnd, AfterCompleted,
           Encoded, Yielded, Emit
  <2> QED BY <2>3, <2>4, <2>5
<1> QED BY <1>1, <1>2, StreamInvHolds, PTL DEF Spec, ImplementsLifecycle, Lifecycle!Spec

-----------------------------------------------------------------------------
(* What the provider said, and what of it the encoder holds *)

EndsOf(t) == {i \in DOMAIN t : t[i].end}
UpTo(t) == {i \in DOMAIN t : \A j \in EndsOf(t) : i <= j}
TextsAt(t) == {i \in UpTo(t) : t[i].text # None}
ArgumentsAt(t, k) == {i \in UpTo(t) : t[i].args # None /\ t[i].args[1] = k}
TextOf(t) == LET s == Selected(t, TextsAt(t)) IN [i \in DOMAIN s |-> s[i].text]
ArgumentsOf(t, k) == LET s == Selected(t, ArgumentsAt(t, k)) IN [i \in DOMAIN s |-> s[i].args[2]]

\* The usage u is what a provider that speaks p reported last.
CountedAt(p, t) ==
  {i \in UpTo(t) : t[i].usage # None /\ (p = "chat" => i \notin EndsOf(t)) /\ (p = "anthropic" => t[i].start = None)}
Reported(p, u, t) ==
  IF CountedAt(p, t) = {} THEN u = None
  ELSE \E n \in CountedAt(p, t) : (\A m \in CountedAt(p, t) : m <= n) /\ u = Figures(t[n].usage)

LEMMA ToldIs ==
  /\ Ends = EndsOf(told) /\ ToldText = TextOf(told) /\ \A k : ToldArguments(k) = ArgumentsOf(told, k)
  /\ UsageIsReported <=>
       \A i \in DOMAIN sent : sent[i].type = "response.completed" => Reported(protocol, sent[i].content.usage, told)
<1>1. Ends = EndsOf(told) /\ UpToEnd = UpTo(told)
  BY DEF Ends, EndsOf, UpToEnd, UpTo
<1>2. ToldText = TextOf(told)
  BY <1>1 DEF ToldText, TextOf, TextsAt
<1>3. ASSUME NEW k PROVE ToldArguments(k) = ArgumentsOf(told, k)
  BY <1>1 DEF ToldArguments, ArgumentsOf, ArgumentsAt
<1>4. {i \in UpToEnd : /\ told[i].usage # None
                      /\ (protocol = "chat" => i \notin Ends)
                      /\ (protocol = "anthropic" => told[i].start = None)} = CountedAt(protocol, told)
  BY <1>1 DEF CountedAt
<1>5. UsageIsReported <=>
       \A i \in DOMAIN sent : sent[i].type = "response.completed" => Reported(protocol, sent[i].content.usage, told)
  <2>1. Received({"response.completed"}) = {i \in DOMAIN sent : sent[i].type = "response.completed"}
    BY DEF Received
  <2>2. UsageIsReported <=>
          \A i \in Received({"response.completed"}) : Reported(protocol, sent[i].content.usage, told)
    BY <1>4 DEF UsageIsReported, Reported, Figures
  <2> QED BY <2>1, <2>2
<1> QED BY <1>1, <1>2, <1>3, <1>5

\* Everything that the next event can change.
NextEvent(t, v, r) ==
  /\ r \in Seq(Event) /\ Len(t) \in Nat /\ Len(r) = Len(t) + 1
  /\ DOMAIN t = 1 .. Len(t) /\ DOMAIN r = 1 .. Len(t) + 1
  /\ r[Len(t) + 1] = v /\ \A i \in 1 .. Len(t) : r[i] = t[i]
  /\ EndsOf(t) # {} => UpTo(r) = UpTo(t) /\ EndsOf(r) # {}
  /\ EndsOf(t) = {} =>
       /\ UpTo(t) = 1 .. Len(t) /\ UpTo(r) = 1 .. Len(t) + 1
       /\ EndsOf(r) = IF v.end THEN {Len(t) + 1} ELSE {}

LEMMA NextEventIs ==
  ASSUME NEW t \in Seq(Event), NEW v \in Event, NEW r, r = Append(t, v)
  PROVE  NextEvent(t, v, r)
<1>1. /\ r \in Seq(Event) /\ Len(t) \in Nat /\ Len(r) = Len(t) + 1
      /\ DOMAIN t = 1 .. Len(t) /\ DOMAIN r = 1 .. Len(t) + 1
      /\ r[Len(t) + 1] = v /\ \A i \in 1 .. Len(t) : r[i] = t[i]
  OBVIOUS
<1>2. \A i \in 1 .. Len(t) + 1 : i \in 1 .. Len(t) \/ i = Len(t) + 1
  BY <1>1
<1>3. \A i \in 1 .. Len(t) : i < Len(t) + 1 /\ i \in 1 .. Len(t) + 1
  BY <1>1
<1>4. EndsOf(r) = EndsOf(t) \cup (IF v.end THEN {Len(t) + 1} ELSE {})
  <2>1. Len(t) + 1 \in 1 .. Len(t) + 1
    BY <1>1
  <2> QED BY <1>1, <1>2, <1>3, <2>1 DEF EndsOf
<1>5. \A i \in EndsOf(t) : i \in 1 .. Len(t)
  BY <1>1 DEF EndsOf
<1>6. CASE EndsOf(t) # {}
  <2>1. PICK j \in EndsOf(t) : TRUE
    BY <1>6
  <2>2. ~(Len(t) + 1 <= j)
    BY <1>1, <1>5, <2>1
  <2>3. UpTo(r) = UpTo(t)
    BY <1>1, <1>2, <1>3, <1>4, <2>1, <2>2 DEF UpTo
  <2> QED BY <1>1, <1>4, <1>6, <2>3 DEF NextEvent
<1>7. CASE EndsOf(t) = {}
  <2>1. UpTo(t) = 1 .. Len(t)
    BY <1>1, <1>7 DEF UpTo
  <2>2. \A i \in 1 .. Len(t) + 1 : i <= Len(t) + 1
    BY <1>1
  <2>3. UpTo(r) = 1 .. Len(t) + 1
    BY <1>1, <1>4, <1>7, <2>2 DEF UpTo
  <2> QED BY <1>1, <1>4, <1>7, <2>1, <2>3 DEF NextEvent
<1> QED BY <1>6, <1>7

LEMMA NextText ==
  ASSUME NEW t \in Seq(Event), NEW v \in Event, NEW r, NextEvent(t, v, r)
  PROVE  /\ EndsOf(t) # {} \/ v.text = None => TextOf(r) = TextOf(t)
         /\ EndsOf(t) = {} /\ v.text # None => TextOf(r) = Append(TextOf(t), v.text)
<1> DEFINE S == TextsAt(t)
           T == TextsAt(r)
<1>1. /\ Len(t) \in Nat /\ Len(r) = Len(t) + 1 /\ Len(r) \in Nat /\ Len(t) <= Len(t) /\ Len(t) <= Len(r) /\ Len(t) + 1 <= Len(r)
      /\ r[Len(t) + 1] = v /\ \A i \in 1 .. Len(t) : r[i] = t[i]
  BY DEF NextEvent
<1>2. Agree(t, S, r, T, Len(t)) /\ \A i \in 1 .. Len(t) : i > Len(t) => i \notin S
  <2>1. \A i \in 1 .. Len(t) : i \in UpTo(t) <=> i \in UpTo(r)
    BY DEF NextEvent
  <2> QED BY <1>1, <2>1 DEF Agree, TextsAt
<1>3. \A i \in 1 .. Len(r) : i > Len(t) => i = Len(t) + 1
  BY <1>1
<1>4. Len(t) + 1 \in T <=> EndsOf(t) = {} /\ v.text # None
  <2>1. EndsOf(t) # {} => Len(t) + 1 \notin UpTo(r)
    <3>1. Len(t) + 1 \notin DOMAIN t
      BY DEF NextEvent
    <3> QED BY <3>1 DEF NextEvent, UpTo
  <2>2. EndsOf(t) = {} => Len(t) + 1 \in UpTo(r)
    BY DEF NextEvent
  <2> QED BY <1>1, <2>1, <2>2 DEF TextsAt
<1>5. CASE EndsOf(t) # {} \/ v.text = None
  <2>1. \A i \in 1 .. Len(r) : i > Len(t) => i \notin T
    BY <1>3, <1>4, <1>5
  <2> HIDE DEF S, T
  <2>2. Selected(t, S) = Selected(r, T)
    BY <1>1, <1>2, <2>1, SelectedSame
  <2> QED BY <1>5, <2>2, Zenon DEF TextOf, S, T
<1>6. CASE EndsOf(t) = {} /\ v.text # None
  <2> DEFINE A == {x \in Event : x.text # None}
  <2>1. Len(t) + 1 \in T /\ \A i \in 1 .. Len(r) : i > Len(t) + 1 => i \notin T
    BY <1>1, <1>3, <1>4, <1>6
  <2>a. Selected(t, S) \in Seq(A)
    <3>1. \A i \in 1 .. Len(t) : i \in S => t[i] \in A
      BY DEF TextsAt
    <3> HIDE DEF A, S
    <3> QED BY <1>1, <3>1, SelectedType
  <2> HIDE DEF S, T
  <2>2. Selected(r, T) = Append(Selected(t, S), r[Len(t) + 1])
    BY <1>1, <1>2, <2>1, SelectedNext
  <2> DEFINE s == Selected(t, S)
  <2>3. s \in Seq(A) /\ v \in A /\ Selected(r, T) = Append(s, v)
    BY <1>1, <1>6, <2>2, <2>a
  <2>4. TextOf(t) = [i \in DOMAIN s |-> s[i].text] /\ TextOf(r) = [i \in DOMAIN Append(s, v) |-> Append(s, v)[i].text]
    BY <2>3 DEF TextOf, S, T
  <2> HIDE DEF s, A
  <2>5. [i \in DOMAIN Append(s, v) |-> Append(s, v)[i].text] = Append([i \in DOMAIN s |-> s[i].text], v.text)
    BY <2>3
  <2> QED BY <1>6, <2>4, <2>5
<1> QED BY <1>5, <1>6

LEMMA NextArguments ==
  ASSUME NEW t \in Seq(Event), NEW v \in Event, NEW r, NextEvent(t, v, r), NEW k
  PROVE  /\ EndsOf(t) # {} \/ v.args = None \/ v.args[1] # k => ArgumentsOf(r, k) = ArgumentsOf(t, k)
         /\ EndsOf(t) = {} /\ v.args # None /\ v.args[1] = k =>
              ArgumentsOf(r, k) = Append(ArgumentsOf(t, k), v.args[2])
<1> DEFINE S == ArgumentsAt(t, k)
           T == ArgumentsAt(r, k)
<1>1. /\ Len(t) \in Nat /\ Len(r) = Len(t) + 1 /\ Len(r) \in Nat /\ Len(t) <= Len(t) /\ Len(t) <= Len(r) /\ Len(t) + 1 <= Len(r)
      /\ r[Len(t) + 1] = v /\ \A i \in 1 .. Len(t) : r[i] = t[i]
  BY DEF NextEvent
<1>2. Agree(t, S, r, T, Len(t)) /\ \A i \in 1 .. Len(t) : i > Len(t) => i \notin S
  <2>1. \A i \in 1 .. Len(t) : i \in UpTo(t) <=> i \in UpTo(r)
    BY DEF NextEvent
  <2> QED BY <1>1, <2>1 DEF Agree, ArgumentsAt
<1>3. \A i \in 1 .. Len(r) : i > Len(t) => i = Len(t) + 1
  BY <1>1
<1>4. Len(t) + 1 \in T <=> EndsOf(t) = {} /\ v.args # None /\ v.args[1] = k
  <2>1. EndsOf(t) # {} => Len(t) + 1 \notin UpTo(r)
    <3>1. Len(t) + 1 \notin DOMAIN t
      BY DEF NextEvent
    <3> QED BY <3>1 DEF NextEvent, UpTo
  <2>2. EndsOf(t) = {} => Len(t) + 1 \in UpTo(r)
    BY DEF NextEvent
  <2> QED BY <1>1, <2>1, <2>2 DEF ArgumentsAt
<1>5. CASE ~(EndsOf(t) = {} /\ v.args # None /\ v.args[1] = k)
  <2>1. \A i \in 1 .. Len(r) : i > Len(t) => i \notin T
    BY <1>3, <1>4, <1>5
  <2> HIDE DEF S, T
  <2>2. Selected(t, S) = Selected(r, T)
    BY <1>1, <1>2, <2>1, SelectedSame
  <2> QED BY <1>5, <2>2, Zenon DEF ArgumentsOf, S, T
<1>6. CASE EndsOf(t) = {} /\ v.args # None /\ v.args[1] = k
  <2> DEFINE A == {x \in Event : x.args # None}
  <2>1. Len(t) + 1 \in T /\ \A i \in 1 .. Len(r) : i > Len(t) + 1 => i \notin T
    BY <1>1, <1>3, <1>4, <1>6
  <2>a. Selected(t, S) \in Seq(A)
    <3>1. \A i \in 1 .. Len(t) : i \in S => t[i] \in A
      BY DEF ArgumentsAt
    <3> HIDE DEF A, S
    <3> QED BY <1>1, <3>1, SelectedType
  <2> HIDE DEF S, T
  <2>2. Selected(r, T) = Append(Selected(t, S), r[Len(t) + 1])
    BY <1>1, <1>2, <2>1, SelectedNext
  <2> DEFINE s == Selected(t, S)
  <2>3. s \in Seq(A) /\ v \in A /\ Selected(r, T) = Append(s, v)
    BY <1>1, <1>6, <2>2, <2>a
  <2>4. /\ ArgumentsOf(t, k) = [i \in DOMAIN s |-> s[i].args[2]]
        /\ ArgumentsOf(r, k) = [i \in DOMAIN Append(s, v) |-> Append(s, v)[i].args[2]]
    BY <2>3 DEF ArgumentsOf, S, T
  <2> HIDE DEF s, A
  <2>5. [i \in DOMAIN Append(s, v) |-> Append(s, v)[i].args[2]] = Append([i \in DOMAIN s |-> s[i].args[2]], v.args[2])
    BY <2>3
  <2> QED BY <1>6, <2>4, <2>5
<1> QED BY <1>5, <1>6

LEMMA NextUsage ==
  ASSUME NEW p, NEW u, NEW t \in Seq(Event), NEW v \in Event, NEW r, NextEvent(t, v, r)
  PROVE  /\ EndsOf(t) # {} \/ UsageRead(p, v) = None \/ (p = "chat" /\ v.end) =>
              (Reported(p, u, r) <=> Reported(p, u, t))
         /\ EndsOf(t) = {} /\ UsageRead(p, v) # None /\ ~(p = "chat" /\ v.end) /\ u = Figures(v.usage) => Reported(p, u, r)
<1> DEFINE S == CountedAt(p, t)
           T == CountedAt(p, r)
           L == Len(t)
<1>1. /\ L \in Nat /\ r[L + 1] = v /\ \A i \in 1 .. L : r[i] = t[i]
      /\ DOMAIN t = 1 .. L /\ DOMAIN r = 1 .. L + 1
  BY DEF NextEvent
<1>2. \A i \in 1 .. L : (i \in UpTo(t) <=> i \in UpTo(r)) /\ (i \in EndsOf(t) <=> i \in EndsOf(r))
  <2>1. \A i \in 1 .. L : i \in UpTo(t) <=> i \in UpTo(r)
    BY DEF NextEvent
  <2>2. \A i \in 1 .. L : i \in EndsOf(t) <=> i \in EndsOf(r)
    BY <1>1 DEF EndsOf
  <2> QED BY <2>1, <2>2
<1>3. \A i \in 1 .. L : i \in S <=> i \in T
  BY <1>1, <1>2 DEF CountedAt
<1>4. S \subseteq 1 .. L /\ T \subseteq 1 .. L + 1
  BY <1>1 DEF CountedAt, UpTo
<1>5. L + 1 \in T <=> EndsOf(t) = {} /\ UsageRead(p, v) # None /\ ~(p = "chat" /\ v.end)
  <2>1. EndsOf(t) # {} => L + 1 \notin UpTo(r)
    <3>1. L + 1 \notin DOMAIN t
      BY <1>1
    <3> QED BY <3>1 DEF NextEvent, UpTo
  <2>2. EndsOf(t) = {} => L + 1 \in UpTo(r)
    BY DEF NextEvent
  <2>3. L + 1 \in EndsOf(r) <=> v.end
    BY <1>1 DEF EndsOf
  <2> QED BY <1>1, <2>1, <2>2, <2>3 DEF CountedAt, UsageRead
<1> HIDE DEF S, T, L
<1>6. CASE L + 1 \notin T
  <2>1. S = T
    <3>1. \A i \in 1 .. L + 1 : i \in 1 .. L \/ i = L + 1
      BY <1>1
    <3> QED BY <1>3, <1>4, <1>6, <3>1
  <2>2. \A n \in S : r[n] = t[n]
    BY <1>1, <1>4
  <2>3. Reported(p, u, r) <=> Reported(p, u, t)
    BY <2>1, <2>2 DEF Reported, S, T
  <2> QED BY <1>5, <1>6, <2>3
<1>7. CASE L + 1 \in T
  <2>1. \A m \in T : m <= L + 1
    BY <1>1, <1>4
  <2>2. u = Figures(v.usage) => Reported(p, u, r)
    BY <1>1, <1>7, <2>1 DEF Reported, T
  <2> QED BY <1>5, <1>7, <2>2
<1> QED BY <1>6, <1>7

LEMMA NothingTold ==
  ASSUME NEW t, t = <<>>
  PROVE  /\ EndsOf(t) = {} /\ TextOf(t) = <<>> /\ \A k : ArgumentsOf(t, k) = <<>>
         /\ \A p : Reported(p, None, t)
<1>1. Len(t) = 0 /\ Len(t) \in Nat /\ DOMAIN t = {}
  OBVIOUS
<1>2. \A S : Selected(t, S) = <<>>
  BY <1>1, SelectedNone
<1>3. EndsOf(t) = {} /\ UpTo(t) = {} /\ \A p : CountedAt(p, t) = {}
  BY <1>1 DEF EndsOf, UpTo, CountedAt
<1>4. TextOf(t) = <<>>
  <2>1. TextOf(t) = [i \in DOMAIN <<>> |-> <<>>[i].text]
    BY <1>2 DEF TextOf
  <2> QED BY <2>1
<1>5. ASSUME NEW k PROVE ArgumentsOf(t, k) = <<>>
  <2>1. ArgumentsOf(t, k) = [i \in DOMAIN <<>> |-> <<>>[i].args[2]]
    BY <1>2 DEF ArgumentsOf
  <2> QED BY <2>1
<1> QED BY <1>3, <1>4, <1>5 DEF Reported

-----------------------------------------------------------------------------
(* The encoder while an upstream event is being translated *)

ArgumentsIn(e, k) == IF k \in DOMAIN e.tools THEN e.tools[k].arguments ELSE <<>>

\* The encoder e holds everything of the events t.
Held(p, e, t) ==
  /\ e.text = TextOf(t)
  /\ \A k \in Tools : ArgumentsIn(e, k) = ArgumentsOf(t, k)
  /\ e.completed <=> EndsOf(t) # {}
  /\ ~e.completed => Reported(p, e.usage, t)

\* It holds t, and of the event v with which t becomes r all but the queue q.
Between(p, e, t, v, r, q) ==
  /\ e.completed => Held(p, e, r)
  /\ ~e.completed =>
       /\ EndsOf(t) = {} /\ (v.end <=> Has(q, "MessageEnd"))
       /\ e.text = IF Has(q, "TextDelta") THEN TextOf(t) ELSE TextOf(r)
       /\ \A k \in Tools :
            ArgumentsIn(e, k) = IF Has(q, "ToolArgumentsDelta") THEN ArgumentsOf(t, k) ELSE ArgumentsOf(r, k)
       /\ Has(q, "Usage") => UsageRead(p, v) # None /\ Reported(p, e.usage, t)
       /\ ~Has(q, "Usage") => Reported(p, e.usage, r)

LEMMA BetweenStart ==
  ASSUME NEW p, NEW e, NEW t \in Seq(Event), NEW v \in Event, NEW r, NextEvent(t, v, r), Held(p, e, t), NEW q,
         Has(q, "TextDelta") <=> v.text # None, Has(q, "ToolArgumentsDelta") <=> v.args # None,
         Has(q, "Usage") <=> UsageRead(p, v) # None, Has(q, "MessageEnd") <=> v.end
  PROVE  Between(p, e, t, v, r, q)
<1>1. CASE e.completed
  <2>1. EndsOf(t) # {} /\ EndsOf(r) # {}
    BY <1>1 DEF Held, NextEvent
  <2>2. TextOf(r) = TextOf(t)
    BY <2>1, NextText
  <2>3. \A k : ArgumentsOf(r, k) = ArgumentsOf(t, k)
    BY <2>1, NextArguments
  <2> QED BY <1>1, <2>1, <2>2, <2>3 DEF Between, Held
<1>2. CASE ~e.completed
  <2>1. EndsOf(t) = {}
    BY <1>2 DEF Held
  <2>2. v.text = None => TextOf(r) = TextOf(t)
    BY NextText
  <2>3. v.args = None => \A k : ArgumentsOf(r, k) = ArgumentsOf(t, k)
    BY NextArguments
  <2>4. UsageRead(p, v) = None => (Reported(p, e.usage, r) <=> Reported(p, e.usage, t))
    BY NextUsage
  <2> QED BY <1>2, <2>1, <2>2, <2>3, <2>4 DEF Between, Held
<1> QED BY <1>1, <1>2

LEMMA BetweenDone ==
  ASSUME NEW p, NEW e, NEW t, NEW v, NEW r, NextEvent(t, v, r), NEW q, Between(p, e, t, v, r, q),
         \A type : ~Has(q, type)
  PROVE  Held(p, e, r)
<1>1. CASE e.completed
  BY <1>1 DEF Between
<1>2. CASE ~e.completed
  <2>1. EndsOf(r) = {}
    BY <1>2 DEF Between, NextEvent
  <2> QED BY <1>2, <2>1 DEF Between, Held
<1> QED BY <1>1, <1>2

\* What the head of the queue makes of the encoder.
Unchanged(d, e) ==
  d.text = e.text /\ d.usage = e.usage /\ d.completed = e.completed /\ \A k \in Tools : ArgumentsIn(d, k) = ArgumentsIn(e, k)
WithText(d, e, text) ==
  /\ d.text = Append(e.text, text) /\ d.usage = e.usage /\ d.completed = e.completed
  /\ \A k \in Tools : ArgumentsIn(d, k) = ArgumentsIn(e, k)
WithArguments(d, e, l, delta) ==
  /\ d.text = e.text /\ d.usage = e.usage /\ d.completed = e.completed
  /\ \A k \in Tools : ArgumentsIn(d, k) = IF k = l THEN Append(ArgumentsIn(e, k), delta) ELSE ArgumentsIn(e, k)
WithUsage(d, e, usage) ==
  /\ d.text = e.text /\ d.usage = usage /\ d.completed = e.completed
  /\ \A k \in Tools : ArgumentsIn(d, k) = ArgumentsIn(e, k)
Completed(d, e) == d.text = e.text /\ d.completed /\ \A k \in Tools : ArgumentsIn(d, k) = ArgumentsIn(e, k)

\* The queue q is its head h and the rest s.
Splits(p, v, q, h, s) ==
  /\ h \in CanonicalEvent /\ Matches(h, v) /\ Pending(p, s, v)
  /\ \A type : Has(q, type) <=> h.type = type \/ Has(s, type)
  /\ ~Has(s, h.type)
  /\ h.type = "MessageEnd" =>
       /\ ~Has(s, "TextDelta") /\ ~Has(s, "ToolArgumentsDelta")
       /\ Has(s, "Usage") => p = "chat"
  /\ h.type = "Usage" /\ Has(s, "MessageEnd") => p # "chat"

LEMMA BetweenStep ==
  ASSUME NEW p, NEW e, ~e.completed, NEW t \in Seq(Event), NEW v \in Event, NEW r, NextEvent(t, v, r),
         NEW q, NEW h, NEW s, Splits(p, v, q, h, s), Between(p, e, t, v, r, q), NEW d,
         \/ h.type \in {"MessageStart", "ToolCallStart"} /\ Unchanged(d, e)
         \/ h.type = "TextDelta" /\ WithText(d, e, h.text)
         \/ h.type = "ToolArgumentsDelta" /\ WithArguments(d, e, h.index, h.delta)
         \/ h.type = "Usage" /\ WithUsage(d, e, h.usage)
  PROVE  ~d.completed /\ Between(p, d, t, v, r, s)
<1>1. /\ EndsOf(t) = {} /\ (v.end <=> Has(q, "MessageEnd"))
      /\ e.text = IF Has(q, "TextDelta") THEN TextOf(t) ELSE TextOf(r)
      /\ \A k \in Tools :
           ArgumentsIn(e, k) = IF Has(q, "ToolArgumentsDelta") THEN ArgumentsOf(t, k) ELSE ArgumentsOf(r, k)
      /\ Has(q, "Usage") => UsageRead(p, v) # None /\ Reported(p, e.usage, t)
      /\ ~Has(q, "Usage") => Reported(p, e.usage, r)
  BY DEF Between
<1>2. /\ Matches(h, v) /\ ~Has(s, h.type)
      /\ \A type : type # h.type => (Has(q, type) <=> Has(s, type))
      /\ Has(q, h.type)
  BY DEF Splits
<1>3. CASE h.type \in {"MessageStart", "ToolCallStart"} /\ Unchanged(d, e)
  <2>1. \A type \in {"TextDelta", "ToolArgumentsDelta", "Usage", "MessageEnd"} : Has(q, type) <=> Has(s, type)
    BY <1>2, <1>3
  <2> QED BY <1>1, <1>3, <2>1 DEF Between, Unchanged
<1>4. CASE h.type = "TextDelta" /\ WithText(d, e, h.text)
  <2>1. \A type \in {"ToolArgumentsDelta", "Usage", "MessageEnd"} : Has(q, type) <=> Has(s, type)
    BY <1>2, <1>4
  <2>2. Has(q, "TextDelta") /\ ~Has(s, "TextDelta") /\ v.text # None /\ h.text = v.text
    BY <1>2, <1>4 DEF Matches
  <2>3. TextOf(r) = Append(TextOf(t), v.text)
    BY <1>1, <2>2, NextText
  <2>4. d.text = TextOf(r)
    BY <1>1, <1>4, <2>2, <2>3 DEF WithText
  <2> QED BY <1>1, <1>4, <2>1, <2>2, <2>4 DEF Between, WithText
<1>5. CASE h.type = "ToolArgumentsDelta" /\ WithArguments(d, e, h.index, h.delta)
  <2>1. \A type \in {"TextDelta", "Usage", "MessageEnd"} : Has(q, type) <=> Has(s, type)
    BY <1>2, <1>5
  <2>2. /\ Has(q, "ToolArgumentsDelta") /\ ~Has(s, "ToolArgumentsDelta") /\ v.args # None
        /\ h.index = v.args[1] /\ h.delta = v.args[2]
    BY <1>2, <1>5 DEF Matches
  <2>3. \A k : ArgumentsOf(r, k) =
                 IF k = v.args[1] THEN Append(ArgumentsOf(t, k), v.args[2]) ELSE ArgumentsOf(t, k)
    <3>1. ASSUME NEW k, k = v.args[1] PROVE ArgumentsOf(r, k) = Append(ArgumentsOf(t, k), v.args[2])
      BY <1>1, <2>2, <3>1, NextArguments
    <3>2. ASSUME NEW k, k # v.args[1] PROVE ArgumentsOf(r, k) = ArgumentsOf(t, k)
      BY <3>2, NextArguments
    <3> QED BY <3>1, <3>2
  <2>4. \A k \in Tools : ArgumentsIn(d, k) = ArgumentsOf(r, k)
    BY <1>1, <1>5, <2>2, <2>3 DEF WithArguments
  <2> QED BY <1>1, <1>5, <2>1, <2>2, <2>4 DEF Between, WithArguments
<1>6. CASE h.type = "Usage" /\ WithUsage(d, e, h.usage)
  <2>1. \A type \in {"TextDelta", "ToolArgumentsDelta", "MessageEnd"} : Has(q, type) <=> Has(s, type)
    BY <1>2, <1>6
  <2>2. Has(q, "Usage") /\ ~Has(s, "Usage") /\ UsageRead(p, v) # None /\ h.usage = Figures(v.usage)
    BY <1>1, <1>2, <1>6 DEF Matches
  <2>3. ~(p = "chat" /\ v.end)
    BY <1>1, <1>6, <2>1 DEF Splits
  <2>4. Reported(p, Figures(v.usage), r)
    BY <1>1, <2>2, <2>3, NextUsage
  <2> QED BY <1>1, <1>6, <2>1, <2>2, <2>4 DEF Between, WithUsage
<1> QED BY <1>3, <1>4, <1>5, <1>6

LEMMA BetweenEnd ==
  ASSUME NEW p, NEW e, ~e.completed, NEW t \in Seq(Event), NEW v \in Event, NEW r, NextEvent(t, v, r),
         NEW q, NEW h, NEW s, Splits(p, v, q, h, s), Between(p, e, t, v, r, q), NEW d,
         h.type = "MessageEnd", Completed(d, e)
  PROVE  Between(p, d, t, v, r, s) /\ Reported(p, e.usage, r)
<1>1. /\ EndsOf(t) = {} /\ (v.end <=> Has(q, "MessageEnd"))
      /\ e.text = IF Has(q, "TextDelta") THEN TextOf(t) ELSE TextOf(r)
      /\ \A k \in Tools :
           ArgumentsIn(e, k) = IF Has(q, "ToolArgumentsDelta") THEN ArgumentsOf(t, k) ELSE ArgumentsOf(r, k)
      /\ Has(q, "Usage") => UsageRead(p, v) # None /\ Reported(p, e.usage, t)
      /\ ~Has(q, "Usage") => Reported(p, e.usage, r)
  BY DEF Between
<1>2. /\ v.end /\ ~Has(q, "TextDelta") /\ ~Has(q, "ToolArgumentsDelta")
      /\ Has(q, "Usage") => p = "chat"
  BY <1>1 DEF Splits, Matches
<1>3. EndsOf(r) # {}
  BY <1>1, <1>2 DEF NextEvent
<1>4. Held(p, d, r)
  BY <1>1, <1>2, <1>3 DEF Held, Completed
<1>5. Reported(p, e.usage, r)
  <2>1. p = "chat" => (Reported(p, e.usage, r) <=> Reported(p, e.usage, t))
    BY <1>2, NextUsage
  <2> QED BY <1>1, <1>2, <2>1
<1> QED BY <1>4, <1>5 DEF Between, Completed

\* The completion in a stream q reports the usage of the events t.
FinalUsage(p, q, t) ==
  \A i \in 1 .. Len(q) : q[i].type = "response.completed" => Reported(p, q[i].content.usage, t)

Translated ==
  \E t \in Seq(Event), v \in Event :
    told = Append(t, v) /\ Pending(protocol, queue, v) /\ Between(protocol, enc, t, v, told, queue)

InputInv ==
  /\ FinalUsage(protocol, All, told)
  /\ pc \in {"read", "yield"} => queue = <<>> /\ Held(protocol, enc, told)
  /\ pc = "read" => frames = <<>>
  /\ pc = "encode" => Translated

LEMMA CountedKeeps ==
  ASSUME NEW e \in Encoder, NEW new \in Seq(NewFrames)
  PROVE  Unchanged(Counted(e, new), e) /\ Counted(e, new).tools = e.tools
BY CountedIs DEF Unchanged, ArgumentsIn

LEMMA CreatedKeeps ==
  ASSUME NEW e \in Encoder
  PROVE  Created(e) \in Encoder /\ Unchanged(Created(e), e)
BY CreatedIs DEF Unchanged, ArgumentsIn

LEMMA WrittenKeeps ==
  ASSUME NEW e \in Encoder, NEW text \in Pieces
  PROVE  WithText(Written(e, text), e, text)
<1> DEFINE base == Created(e)
<1>1. /\ base \in Encoder /\ base.completed = e.completed /\ base.next = e.next
      /\ base.textIndex = e.textIndex /\ base.text = e.text /\ base.tools = e.tools /\ base.usage = e.usage
  BY CreatedIs
<1>2. Written(e, text) =
        [base EXCEPT !.textIndex = IF e.textIndex = None THEN base.next ELSE @,
                     !.next = IF e.textIndex = None THEN @ + 1 ELSE @,
                     !.text = Append(@, text)]
  BY DEF Written
<1> HIDE DEF base
<1>3. /\ Written(e, text).text = Append(e.text, text) /\ Written(e, text).usage = e.usage
      /\ Written(e, text).completed = e.completed /\ Written(e, text).tools = e.tools
  BY <1>1, <1>2 DEF Encoder
<1> QED BY <1>3 DEF WithText, ArgumentsIn

LEMMA StartedKeeps ==
  ASSUME NEW e \in Encoder, NEW k \in Tools, k \notin DOMAIN e.tools
  PROVE  Unchanged(Started(e, k), e)
<1> DEFINE base == Created(e)
           b1 == [base EXCEPT !.next = @ + 1]
           tool == [index |-> e.next, arguments |-> <<>>]
           d == Started(e, k)
<1>1. /\ base \in Encoder /\ base.completed = e.completed /\ base.next = e.next /\ base.next \in Nat
      /\ base.text = e.text /\ base.tools = e.tools /\ base.usage = e.usage
  BY CreatedIs, EncoderType
<1>2. d = WithTool(b1, k, tool)
  BY DEF Started
<1> HIDE DEF base, d
<1>3. /\ b1 \in Encoder /\ b1.completed = base.completed /\ b1.text = base.text
      /\ b1.tools = base.tools /\ b1.usage = base.usage
  <2>1. base.next + 1 \in Nat
    BY <1>1
  <2> QED BY <1>1, <2>1 DEF Encoder
<1>4. tool \in [index : Nat, arguments : Seq(Pieces)] /\ tool.arguments = <<>>
  BY <1>1
<1> HIDE DEF b1, tool
<1>5. /\ d.completed = b1.completed /\ d.text = b1.text /\ d.usage = b1.usage
      /\ DOMAIN d.tools = DOMAIN b1.tools \cup {k} /\ d.tools[k] = tool
      /\ \A l \in DOMAIN b1.tools : l # k => d.tools[l] = b1.tools[l]
  BY <1>2, <1>3, <1>4, ToolsWith
<1>6. d.completed = e.completed /\ d.text = e.text /\ d.usage = e.usage
  BY <1>1, <1>3, <1>5
<1>7. /\ DOMAIN d.tools = DOMAIN e.tools \cup {k} /\ d.tools[k].arguments = <<>>
      /\ \A l \in DOMAIN e.tools : d.tools[l] = e.tools[l]
  BY <1>1, <1>3, <1>4, <1>5
<1>8. ASSUME NEW l PROVE ArgumentsIn(d, l) = ArgumentsIn(e, l)
  BY <1>7 DEF ArgumentsIn
<1> QED BY <1>6, <1>8 DEF Unchanged, d

LEMMA ArguedKeeps ==
  ASSUME NEW e \in Encoder, NEW k \in DOMAIN e.tools, NEW delta \in Pieces
  PROVE  WithArguments(Argued(e, k, delta), e, k, delta)
<1> DEFINE tool == [e.tools[k] EXCEPT !.arguments = Append(@, delta)]
           d == Argued(e, k, delta)
<1>1. k \in Tools /\ e.tools[k].arguments \in Seq(Pieces) /\ e.tools \in Calls
  BY EncoderType
<1>2. tool \in [index : Nat, arguments : Seq(Pieces)] /\ tool.arguments = Append(e.tools[k].arguments, delta)
  <2>1. e.tools[k] \in [index : Nat, arguments : Seq(Pieces)]
    BY <1>1, CallsType, Zenon
  <2>2. Append(e.tools[k].arguments, delta) \in Seq(Pieces)
    BY <1>1
  <2> QED BY <2>1, <2>2
<1>3. d = WithTool(e, k, tool)
  BY DEF Argued
<1> HIDE DEF d, tool
<1>4. /\ d.completed = e.completed /\ d.text = e.text /\ d.usage = e.usage
      /\ DOMAIN d.tools = DOMAIN e.tools \cup {k} /\ d.tools[k] = tool
      /\ \A l \in DOMAIN e.tools : l # k => d.tools[l] = e.tools[l]
  BY <1>1, <1>2, <1>3, ToolsWith
<1>5. ASSUME NEW l
      PROVE  ArgumentsIn(d, l) = IF l = k THEN Append(ArgumentsIn(e, l), delta) ELSE ArgumentsIn(e, l)
  BY <1>2, <1>4 DEF ArgumentsIn
<1> QED BY <1>4, <1>5 DEF WithArguments, d

LEMMA EndedKeeps ==
  ASSUME NEW e \in Encoder
  PROVE  Completed(Ended(e), e) /\ Created(e).usage = e.usage
<1>1. /\ Created(e) \in Encoder /\ Created(e).text = e.text /\ Created(e).tools = e.tools
      /\ Created(e).usage = e.usage
  BY CreatedIs
<1>2. Ended(e) = [Created(e) EXCEPT !.completed = TRUE]
  BY DEF Ended
<1>3. Ended(e).text = e.text /\ Ended(e).completed = TRUE /\ Ended(e).tools = e.tools
  BY <1>1, <1>2 DEF Encoder
<1> QED BY <1>1, <1>3 DEF Completed, ArgumentsIn

\* Before the completion there is none in the stream.
LEMMA NotCompleted ==
  ASSUME NEW e, NEW q, Live(e, q), ~e.completed, NEW p, NEW t
  PROVE  FinalUsage(p, q, t) /\ \A i \in 1 .. Len(q) : q[i].type # "response.completed"
<1>1. q \in Seq(FrameSet) /\ ~Holds(q, "response.completed")
  BY DEF Live, Counts
<1> QED BY <1>1 DEF Holds, FinalUsage

LEMMA QueueSplits ==
  ASSUME NEW p, NEW v, NEW q, Pending(p, q, v), q # <<>>
  PROVE  Splits(p, v, q, Head(q), Tail(q))
BY NextPending, Zenon DEF Splits

\* A step of the encoder that does not complete the response.
LEMMA InputEncoding ==
  ASSUME StreamInv, NEW t \in Seq(Event), NEW v \in Event, NextEvent(t, v, told),
         Pending(protocol, queue, v), Between(protocol, enc, t, v, told, queue),
         MessageStart \/ TextDelta \/ ToolCallStart \/ ToolCallStarted \/ ToolArgumentsDelta \/ Usage
  PROVE  ~enc'.completed /\ Pending(protocol, queue', v) /\ Between(protocol, enc', t, v, told, queue')
<1>1. pc = "encode" /\ queue # <<>> /\ ~enc.completed /\ queue' = Tail(queue)
  BY DEF MessageStart, TextDelta, ToolCallStart, ToolCallStarted, ToolArgumentsDelta, Usage, Encoding, Emit
<1> DEFINE h == Head(queue)
           s == Tail(queue)
<1>2. Splits(protocol, v, queue, h, s)
  BY <1>1, QueueSplits
<1>3. h \in CanonicalEvent /\ Pending(protocol, s, v) /\ enc \in Encoder
  BY <1>2 DEF Splits, StreamInv
<1>4. Live(enc, All)
  BY <1>1 DEF StreamInv, Translating
<1> DEFINE Effect(d) ==
             \/ h.type \in {"MessageStart", "ToolCallStart"} /\ Unchanged(d, enc)
             \/ h.type = "TextDelta" /\ WithText(d, enc, h.text)
             \/ h.type = "ToolArgumentsDelta" /\ WithArguments(d, enc, h.index, h.delta)
             \/ h.type = "Usage" /\ WithUsage(d, enc, h.usage)
<1>5. ASSUME NEW e \in Encoder, NEW new \in Seq(NewFrames), Effect(e), enc' = Counted(e, new)
      PROVE  Effect(enc')
  <2>1. /\ Counted(e, new).text = e.text /\ Counted(e, new).usage = e.usage
        /\ Counted(e, new).completed = e.completed /\ \A k \in Tools : ArgumentsIn(Counted(e, new), k) = ArgumentsIn(e, k)
    BY CountedKeeps DEF Unchanged
  <2>2. /\ enc'.text = e.text /\ enc'.usage = e.usage /\ enc'.completed = e.completed
        /\ \A k \in Tools : ArgumentsIn(enc', k) = ArgumentsIn(e, k)
    BY <1>5, <2>1
  <2> HIDE DEF h
  <2> QED BY <1>5, <2>2 DEF Unchanged, WithText, WithArguments, WithUsage
<1> HIDE DEF h, s
<1>6. \E e \in Encoder, new \in Seq(NewFrames) : Effect(e) /\ enc' = Counted(e, new)
  <2>1. CASE MessageStart
    <3> DEFINE e == [enc EXCEPT !.id = IF @ = None THEN h.id ELSE @]
    <3>1. h.type = "MessageStart" /\ Emit(Created(e), Opening(e))
      BY <2>1 DEF MessageStart, Encoding, h
    <3>2. h.id \in ResponseIds
      BY <1>3, <3>1, CanonicalType DEF ResponseIds
    <3>3. e \in Encoder
      BY <1>1, <1>4, <3>2, StartLive
    <3>4. Unchanged(e, enc)
      BY <1>3 DEF Encoder, Unchanged, ArgumentsIn
    <3> HIDE DEF e
    <3>5. Created(e) \in Encoder /\ Opening(e) \in Seq(NewFrames) /\ Unchanged(Created(e), e)
      BY <3>3, CreatedKeeps, OpeningType
    <3>6. Unchanged(Created(e), enc)
      BY <3>4, <3>5 DEF Unchanged
    <3>7. enc' = Counted(Created(e), Opening(e))
      BY <3>1 DEF Emit, Counted
    <3> QED BY <3>1, <3>5, <3>6, <3>7
  <2>2. CASE TextDelta
    <3>1. h.type = "TextDelta" /\ Emit(Written(enc, h.text), TextFrames(enc, h.text))
      BY <2>2 DEF TextDelta, Encoding, h, Written, TextFrames, MessageItem
    <3>2. h.text \in Pieces
      BY <1>3, <3>1, CanonicalType
    <3>3. /\ Written(enc, h.text) \in Encoder /\ TextFrames(enc, h.text) \in Seq(NewFrames)
      BY <1>1, <1>4, <3>2, TextLive
    <3>4. WithText(Written(enc, h.text), enc, h.text)
      BY <1>3, <3>2, WrittenKeeps
    <3>5. enc' = Counted(Written(enc, h.text), TextFrames(enc, h.text))
      BY <3>1 DEF Emit, Counted
    <3> QED BY <3>1, <3>3, <3>4, <3>5
  <2>3. CASE ToolCallStart
    <3>1. h.type = "ToolCallStart" /\ h.index \notin DOMAIN enc.tools /\ Emit(Started(enc, h.index), StartFrames(enc))
      BY <2>3 DEF ToolCallStart, Encoding, h, Started, StartFrames
    <3>2. h.index \in Tools
      BY <1>3, <3>1, CanonicalType
    <3>3. Started(enc, h.index) \in Encoder /\ StartFrames(enc) \in Seq(NewFrames)
      BY <1>1, <1>4, <3>1, <3>2, CallLive
    <3>4. Unchanged(Started(enc, h.index), enc)
      BY <1>3, <3>1, <3>2, StartedKeeps
    <3>5. enc' = Counted(Started(enc, h.index), StartFrames(enc))
      BY <3>1 DEF Emit, Counted
    <3> QED BY <3>1, <3>3, <3>4, <3>5
  <2>4. CASE ToolCallStarted
    <3>1. h.type = "ToolCallStart" /\ Emit(Created(enc), Opening(enc))
      BY <2>4 DEF ToolCallStarted, Encoding, h
    <3>2. Created(enc) \in Encoder /\ Opening(enc) \in Seq(NewFrames) /\ Unchanged(Created(enc), enc)
      BY <1>3, CreatedKeeps, OpeningType
    <3>3. enc' = Counted(Created(enc), Opening(enc))
      BY <3>1 DEF Emit, Counted
    <3> QED BY <3>1, <3>2, <3>3
  <2>5. CASE ToolArgumentsDelta
    <3>1. /\ h.type = "ToolArgumentsDelta" /\ h.index \in DOMAIN enc.tools
          /\ Emit(Argued(enc, h.index, h.delta), ArgumentFrames(enc, h.index, h.delta))
      BY <2>5 DEF ToolArgumentsDelta, Encoding, h, Argued, ArgumentFrames
    <3>2. h.delta \in Pieces
      BY <1>3, <3>1, CanonicalType
    <3>3. Argued(enc, h.index, h.delta) \in Encoder /\ ArgumentFrames(enc, h.index, h.delta) \in Seq(NewFrames)
      BY <1>1, <1>4, <3>1, <3>2, ArgumentsLive
    <3>4. WithArguments(Argued(enc, h.index, h.delta), enc, h.index, h.delta)
      BY <1>3, <3>1, <3>2, ArguedKeeps
    <3>5. enc' = Counted(Argued(enc, h.index, h.delta), ArgumentFrames(enc, h.index, h.delta))
      BY <3>1 DEF Emit, Counted
    <3> QED BY <3>1, <3>3, <3>4, <3>5
  <2>6. CASE Usage
    <3> DEFINE e == [enc EXCEPT !.usage = h.usage]
    <3>1. h.type = "Usage" /\ Emit(e, <<>>)
      BY <2>6 DEF Usage, Encoding, h
    <3>2. h.usage \in Usages \cup {None}
      BY <1>3, <3>1, CanonicalType
    <3>3. e \in Encoder
      BY <1>4, <3>2, UsageLive
    <3>4. WithUsage(e, enc, h.usage)
      BY <1>3 DEF Encoder, WithUsage, ArgumentsIn
    <3> HIDE DEF e
    <3>5. <<>> \in Seq(NewFrames) /\ enc' = Counted(e, <<>>)
      BY <3>1 DEF Emit, Counted
    <3> QED BY <3>1, <3>3, <3>4, <3>5
  <2> QED BY <2>1, <2>2, <2>3, <2>4, <2>5, <2>6
<1>7. Effect(enc')
  BY <1>5, <1>6
<1> DEFINE d == enc'
<1> HIDE DEF d
<1>8. Effect(d)
  BY <1>7 DEF d
<1>9. ~d.completed /\ Between(protocol, d, t, v, told, s)
  BY <1>1, <1>2, <1>8, BetweenStep
<1> QED BY <1>1, <1>3, <1>9 DEF d, s

\* The step that completes it: the last frame reports the usage of the encoder.
LEMMA EndFramesLast ==
  ASSUME NEW e, NEW q, Live(e, q), ~e.completed
  PROVE  LET r == Emitted(q, EndFrames(e)) IN
         Len(r) >= 1 /\ r[Len(r)].content.usage = e.usage
<1> DEFINE new == EndFrames(e)
           s == (Opening(e) \o ClosedMessage(Created(e))) \o ClosedCalls(Created(e))
           c == Completion(Created(e))
           n == Numbered(new, Len(q))
           r == q \o n
<1>1. new \in Seq(NewFrames) /\ q \in Seq(FrameSet) /\ e \in Encoder
  BY EndLive DEF Live
<1>2. new = s \o <<c>>
  BY DEF EndFrames
<1>3. s \in Seq(NewFrames) /\ c \in NewFrames
  <2> DEFINE b == Created(e)
             c1 == Counted(b, Opening(e))
             q1 == Emitted(q, Opening(e))
  <2>1. Live(c1, q1)
    BY OpenedLive
  <2>2. b \in Encoder /\ Opening(e) \in Seq(NewFrames)
    BY <1>1, CreatedIs, OpeningType
  <2>3. /\ c1.id = b.id /\ c1.next = b.next /\ c1.textIndex = b.textIndex /\ c1.text = b.text
        /\ c1.tools = b.tools /\ c1.usage = b.usage
    BY <2>2, CountedIs
  <2> HIDE DEF b, c1, q1
  <2>4. ClosedMessage(c1) = ClosedMessage(b) /\ ClosedCalls(c1) = ClosedCalls(b) /\ Completion(c1) = Completion(b)
    BY <2>3, ClosingFields
  <2>5. ClosedMessage(c1) \in Seq(NewFrames) /\ ClosedCalls(c1) \in Seq(NewFrames)
    BY <2>1, MessageClosed, CallsClosed
  <2>6. Closing(c1, ClosedMessage(c1) \o ClosedCalls(c1) \o <<Completion(c1)>>)
    BY <2>1, ClosingIs
  <2> DEFINE z == ClosedMessage(c1) \o ClosedCalls(c1) \o <<Completion(c1)>>
  <2>7. z \in Seq(NewFrames) /\ Len(z) >= 1 /\ z[Len(z)] = Completion(c1)
    BY <2>6 DEF Closing
  <2> HIDE DEF z
  <2>8. Completion(c1) \in NewFrames
    <3>1. z[Len(z)] \in NewFrames
      BY <2>7
    <3> QED BY <2>7, <3>1
  <2>9. Opening(e) \o ClosedMessage(b) \in Seq(NewFrames)
    BY <2>2, <2>4, <2>5, JoinedNew
  <2>10. (Opening(e) \o ClosedMessage(b)) \o ClosedCalls(b) \in Seq(NewFrames)
    BY <2>4, <2>5, <2>9, JoinedNew
  <2> QED BY <2>4, <2>8, <2>10 DEF b
<1>4. c.content.usage = e.usage
  <2>1. c.content = [output |-> Output(Created(e)), usage |-> Created(e).usage]
    BY DEF Completion, Frame
  <2>2. Created(e).usage = e.usage
    BY <1>1, EndedKeeps
  <2> QED BY <2>1, <2>2
<1> HIDE DEF s, c
<1>5. Len(new) \in Nat /\ Len(new) >= 1 /\ new[Len(new)] = c
  <2>1. <<c>> \in Seq(NewFrames) /\ Len(<<c>>) = 1 /\ <<c>>[1] = c
    BY <1>3
  <2> DEFINE y == <<c>>
  <2> HIDE DEF y, new
  <2>2. y \in Seq(NewFrames) /\ Len(y) = 1 /\ y[1] = c /\ new = s \o y
    BY <1>2, <2>1 DEF y
  <2>3. /\ Len(s) \in Nat /\ Len(s \o y) = Len(s) + Len(y)
        /\ \A i \in Len(s) + 1 .. Len(s) + Len(y) : (s \o y)[i] = y[i - Len(s)]
    BY <1>3, <2>2, JoinedNew
  <2>4. Len(new) = Len(s) + 1 /\ Len(s) + 1 \in Len(s) + 1 .. Len(s) + Len(y) /\ Len(s) + 1 - Len(s) = 1
    BY <2>2, <2>3
  <2> QED BY <2>2, <2>3, <2>4
<1>6. /\ n \in Seq(FrameSet) /\ Len(n) = Len(new)
      /\ \A i \in 1 .. Len(new) : n[i] = WithNumber(new[i], Len(q) + i - 1)
  BY <1>1, NumberedType
<1> HIDE DEF n, new
<1>7. n[Len(new)].content = c.content
  BY <1>5, <1>6, NumberIs
<1>8. /\ Len(q) \in Nat /\ Len(q \o n) = Len(q) + Len(n)
      /\ \A i \in Len(q) + 1 .. Len(q) + Len(n) : (q \o n)[i] = n[i - Len(q)]
  BY <1>1, <1>6, Joined
<1>9. Len(r) >= 1 /\ r[Len(r)] = n[Len(new)]
  BY <1>5, <1>6, <1>8
<1>10. Emitted(q, EndFrames(e)) = r
  BY DEF Emitted, n, new
<1> HIDE DEF r
<1> QED BY <1>4, <1>7, <1>9, <1>10

LEMMA InputInvInit == Init => InputInv
<1> SUFFICES ASSUME Init PROVE InputInv
  OBVIOUS
<1>1. /\ told = <<>> /\ queue = <<>> /\ frames = <<>> /\ sent = <<>> /\ pc = "read"
      /\ enc.text = <<>> /\ enc.tools = <<>> /\ enc.usage = None /\ ~enc.completed
  BY DEF Init
<1>2. All = <<>> /\ Len(<<>>) = 0
  BY <1>1 DEF All
<1>3. FinalUsage(protocol, All, told)
  BY <1>2 DEF FinalUsage
<1>4. DOMAIN enc.tools = {}
  BY <1>1
<1>5. Held(protocol, enc, told)
  BY <1>1, <1>4, NothingTold DEF Held, ArgumentsIn
<1> QED BY <1>1, <1>3, <1>5 DEF InputInv

LEMMA InputInvNext == StreamInv /\ StreamInv' /\ InputInv /\ [Next]_vars => InputInv'
<1> SUFFICES ASSUME StreamInv, StreamInv', InputInv, [Next]_vars PROVE InputInv'
  OBVIOUS
<1>1. /\ FinalUsage(protocol, All, told)
      /\ pc \in {"read", "yield"} => queue = <<>> /\ Held(protocol, enc, told)
      /\ pc = "read" => frames = <<>>
      /\ pc = "encode" => Translated
  BY DEF InputInv
<1>2. /\ told \in Seq(Event) /\ sent \in Seq(FrameSet) /\ frames \in Seq(FrameSet) /\ All \in Seq(FrameSet)
  BY Joined DEF StreamInv, All
<1>3. CASE Receive
  <2>1. PICK v \in Upstream :
          /\ pc = "read" /\ queue' = Decode(v) /\ told' = Append(told, v) /\ pc' = "encode"
          /\ protocol' = protocol /\ frames' = frames /\ sent' = sent /\ enc' = enc
    BY <1>3 DEF Receive
  <2>2. v \in Event
    BY ConstantsAssumption
  <2>3. NextEvent(told, v, told')
    BY <1>2, <2>1, <2>2, NextEventIs, Zenon
  <2>4. /\ Pending(protocol, queue', v) /\ (Has(queue', "TextDelta") <=> v.text # None)
        /\ (Has(queue', "ToolArgumentsDelta") <=> v.args # None) /\ (Has(queue', "Usage") <=> UsageRead(protocol, v) # None)
        /\ (Has(queue', "MessageEnd") <=> v.end)
    BY <2>1, <2>2, DecodePending
  <2>5. Held(protocol, enc, told) /\ Live(enc, All) /\ All' = All
    BY <1>1, <2>1 DEF StreamInv, Translating, All
  <2>6. Between(protocol, enc, told, v, told', queue')
    BY <1>2, <2>2, <2>3, <2>4, <2>5, BetweenStart, Zenon
  <2>7. Translated'
    BY <1>2, <2>1, <2>2, <2>4, <2>6 DEF Translated
  <2>8. FinalUsage(protocol, All, told')
    <3>1. CASE ~enc.completed
      BY <2>5, <3>1, NotCompleted
    <3>2. CASE enc.completed
      <4>1. EndsOf(told) # {}
        BY <2>5, <3>2 DEF Held
      <4>2. \A u : Reported(protocol, u, told') <=> Reported(protocol, u, told)
        BY <1>2, <2>2, <2>3, <4>1, NextUsage
      <4> QED BY <1>1, <4>2 DEF FinalUsage
    <3> QED BY <3>1, <3>2
  <2> QED BY <2>1, <2>5, <2>7, <2>8 DEF InputInv
<1>4. CASE ReceiveInvalid \/ UpstreamEnds \/ ClientLeaves
  <2>1. /\ pc' \in {"failed", "ended", "gone"} /\ protocol' = protocol /\ told' = told
        /\ frames' = frames /\ sent' = sent
    BY <1>4 DEF ReceiveInvalid, UpstreamEnds, ClientLeaves
  <2>2. All' = All
    BY <2>1 DEF All
  <2> QED BY <1>1, <2>1, <2>2 DEF InputInv
<1>5. CASE MessageStart \/ TextDelta \/ ToolCallStart \/ ToolCallStarted \/ ToolArgumentsDelta \/ Usage
  <2>1. /\ pc = "encode" /\ pc' = "encode" /\ protocol' = protocol /\ told' = told
    BY <1>5 DEF MessageStart, TextDelta, ToolCallStart, ToolCallStarted, ToolArgumentsDelta, Usage, Encoding, Emit
  <2>2. PICK t \in Seq(Event), v \in Event :
          told = Append(t, v) /\ Pending(protocol, queue, v) /\ Between(protocol, enc, t, v, told, queue)
    BY <1>1, <2>1 DEF Translated
  <2>3. NextEvent(t, v, told)
    BY <2>2, NextEventIs, Zenon
  <2>4. ~enc'.completed /\ Pending(protocol, queue', v) /\ Between(protocol, enc', t, v, told, queue')
    BY <1>5, <2>2, <2>3, InputEncoding, Zenon
  <2>5. Translated'
    BY <2>1, <2>2, <2>4 DEF Translated
  <2>6. Live(enc', All')
    BY <2>1 DEF StreamInv, Translating
  <2>7. FinalUsage(protocol, All', told)
    BY <2>4, <2>6, NotCompleted
  <2> QED BY <2>1, <2>5, <2>7 DEF InputInv
<1>6. CASE MessageEnd
  <2>1. /\ pc = "encode" /\ pc' = "encode" /\ protocol' = protocol /\ told' = told /\ ~enc.completed
        /\ queue # <<>> /\ Head(queue).type = "MessageEnd" /\ queue' = Tail(queue)
        /\ Emit(Ended(enc), EndFrames(enc))
    BY <1>6 DEF MessageEnd, Encoding, Emit, Ended, EndFrames
  <2>2. PICK t \in Seq(Event), v \in Event :
          told = Append(t, v) /\ Pending(protocol, queue, v) /\ Between(protocol, enc, t, v, told, queue)
    BY <1>1, <2>1 DEF Translated
  <2>3. NextEvent(t, v, told)
    BY <2>2, NextEventIs, Zenon
  <2>4. Live(enc, All) /\ enc \in Encoder /\ Live(enc', All')
    BY <2>1 DEF StreamInv, Translating
  <2>5. Splits(protocol, v, queue, Head(queue), Tail(queue))
    BY <2>1, <2>2, QueueSplits
  <2>6. Ended(enc) \in Encoder /\ EndFrames(enc) \in Seq(NewFrames)
    BY <2>1, <2>4, EndLive
  <2>7. enc' = Counted(Ended(enc), EndFrames(enc))
    BY <2>1 DEF Emit, Counted
  <2> DEFINE d == enc'
  <2>8. Completed(d, enc)
    BY <2>4, <2>6, <2>7, EndedKeeps, CountedKeeps DEF Completed, Unchanged
  <2> HIDE DEF d
  <2>9. Between(protocol, d, t, v, told, Tail(queue)) /\ Reported(protocol, enc.usage, told)
    BY <2>1, <2>2, <2>3, <2>5, <2>8, BetweenEnd
  <2>10. Pending(protocol, Tail(queue), v)
    BY <2>5 DEF Splits
  <2>11. Translated'
    BY <2>1, <2>2, <2>9, <2>10 DEF Translated, d
  <2>12. All' = Emitted(All, EndFrames(enc))
    <3>1. Emitted(All, EndFrames(enc)) = All \o Numbered(EndFrames(enc), Len(All))
      BY DEF Emitted
    <3>2. frames' = frames \o Numbered(EndFrames(enc), Len(All)) /\ sent' = sent
      <4>1. Ended(enc).sequence = enc.sequence /\ enc.sequence = Len(All)
        <5>1. Created(enc) \in Encoder /\ Created(enc).sequence = enc.sequence
          BY <2>4, CreatedIs
        <5>2. Ended(enc).sequence = Created(enc).sequence
          BY <5>1 DEF Ended, Encoder
        <5> QED BY <2>4, <5>1, <5>2 DEF Live, Counts
      <4> QED BY <2>1, <4>1 DEF Emit, Numbered, WithNumber
    <3>3. Numbered(EndFrames(enc), Len(All)) \in Seq(FrameSet)
      <4>1. Len(All) \in Nat
        BY <1>2
      <4> QED BY <2>6, <4>1, NumberedType
    <3> DEFINE n == Numbered(EndFrames(enc), Len(All))
    <3> HIDE DEF n
    <3>4. (sent \o frames) \o n = sent \o (frames \o n)
      BY <1>2, <3>3, ConcatAssociative DEF n
    <3> QED BY <3>1, <3>2, <3>4 DEF n, All
  <2>13. FinalUsage(protocol, All', told)
    <3> DEFINE r == All'
    <3>1. Len(r) >= 1 /\ r[Len(r)].content.usage = enc.usage
      BY <2>1, <2>4, <2>12, EndFramesLast
    <3>2. r \in Seq(FrameSet) /\ Valid(r)
      BY <2>4 DEF Live
    <3> HIDE DEF r
    <3>3. \A i \in 1 .. Len(r) : r[i].type = "response.completed" => i = Len(r)
      BY <3>2 DEF Valid, MayFollow
    <3>4. FinalUsage(protocol, r, told)
      BY <2>9, <3>1, <3>3 DEF FinalUsage
    <3> QED BY <3>4 DEF r
  <2> QED BY <2>1, <2>11, <2>13 DEF InputInv
<1>7. CASE ToolCallMissing
  <2>1. /\ pc = "encode" /\ pc' = "failed" /\ ~enc.completed /\ frames' = <<>> /\ sent' = sent
        /\ protocol' = protocol /\ told' = told
    BY <1>7 DEF ToolCallMissing, Encoding
  <2>2. Live(enc, All)
    BY <2>1 DEF StreamInv, Translating
  <2>3. \A i \in 1 .. Len(All) : All[i].type # "response.completed"
    BY <2>1, <2>2, NotCompleted
  <2>4. All' = sent
    BY <1>2, <2>1 DEF All
  <2>5. \A i \in 1 .. Len(sent) : i \in 1 .. Len(All) /\ All[i] = sent[i]
    <3>1. /\ Len(sent) \in Nat /\ Len(frames) \in Nat /\ Len(All) = Len(sent) + Len(frames)
          /\ \A i \in 1 .. Len(sent) : All[i] = sent[i]
      BY <1>2, Joined DEF All
    <3> QED BY <3>1
  <2>6. FinalUsage(protocol, All', told)
    BY <2>3, <2>4, <2>5 DEF FinalUsage
  <2> QED BY <2>1, <2>6 DEF InputInv
<1>8. CASE AfterCompleted
  <2>1. /\ pc = "encode" /\ queue # <<>> /\ queue' = Tail(queue) /\ enc.completed
        /\ protocol' = protocol /\ told' = told /\ pc' = pc /\ frames' = frames /\ sent' = sent /\ enc' = enc
    BY <1>8 DEF AfterCompleted
  <2>2. PICK t \in Seq(Event), v \in Event :
          told = Append(t, v) /\ Pending(protocol, queue, v) /\ Between(protocol, enc, t, v, told, queue)
    BY <1>1, <2>1 DEF Translated
  <2>3. Pending(protocol, Tail(queue), v)
    BY <2>1, <2>2, NextPending
  <2>4. Between(protocol, enc, t, v, told, Tail(queue))
    BY <2>1, <2>2 DEF Between
  <2>5. Translated'
    BY <2>1, <2>2, <2>3, <2>4 DEF Translated
  <2>6. All' = All
    BY <2>1 DEF All
  <2> QED BY <1>1, <2>1, <2>5, <2>6 DEF InputInv
<1>9. CASE Encoded
  <2>1. /\ pc = "encode" /\ queue = <<>> /\ pc' = "yield" /\ queue' = queue
        /\ protocol' = protocol /\ told' = told /\ frames' = frames /\ sent' = sent /\ enc' = enc
    BY <1>9 DEF Encoded
  <2>2. PICK t \in Seq(Event), v \in Event :
          told = Append(t, v) /\ Pending(protocol, queue, v) /\ Between(protocol, enc, t, v, told, queue)
    BY <1>1, <2>1 DEF Translated
  <2>3. NextEvent(t, v, told)
    BY <2>2, NextEventIs, Zenon
  <2>4. \A type : ~Has(queue, type)
    BY <2>1, NoneWithin
  <2>5. Held(protocol, enc, told)
    BY <2>2, <2>3, <2>4, BetweenDone
  <2>6. All' = All
    BY <2>1 DEF All
  <2> QED BY <1>1, <2>1, <2>5, <2>6 DEF InputInv
<1>10. CASE Yield
  <2>1. /\ pc = "yield" /\ frames # <<>> /\ sent' = Append(sent, Head(frames)) /\ frames' = Tail(frames)
        /\ protocol' = protocol /\ told' = told /\ pc' = pc /\ queue' = queue /\ enc' = enc
    BY <1>10 DEF Yield
  <2>2. All' = All
    BY <1>2, <2>1, HandedOver DEF All
  <2> QED BY <1>1, <2>1, <2>2 DEF InputInv
<1>11. CASE Yielded
  <2>1. /\ pc = "yield" /\ frames = <<>> /\ pc' = "read"
        /\ protocol' = protocol /\ told' = told /\ queue' = queue /\ frames' = frames /\ sent' = sent /\ enc' = enc
    BY <1>11 DEF Yielded
  <2>2. All' = All
    BY <2>1 DEF All
  <2> QED BY <1>1, <2>1, <2>2 DEF InputInv
<1>12. CASE UNCHANGED vars
  <2>1. All' = All
    BY <1>12 DEF vars, All
  <2> QED BY <1>1, <1>12, <2>1 DEF InputInv, vars, Translated
<1> QED BY <1>3, <1>4, <1>5, <1>6, <1>7, <1>8, <1>9, <1>10, <1>11, <1>12 DEF Next, Transcode

LEMMA InputInvHolds == Spec => []InputInv
BY InputInvInit, InputInvNext, StreamInvHolds, PTL DEF Spec

LEMMA SentIsPrefix ==
  ASSUME StreamInv
  PROVE  \A i \in DOMAIN sent : i \in 1 .. Len(All) /\ All[i] = sent[i]
<1>1. sent \in Seq(FrameSet) /\ frames \in Seq(FrameSet)
  BY DEF StreamInv
<1>2. /\ Len(sent) \in Nat /\ Len(frames) \in Nat /\ Len(All) = Len(sent) + Len(frames)
      /\ \A i \in 1 .. Len(sent) : All[i] = sent[i]
  BY <1>1, Joined DEF All
<1>3. DOMAIN sent = 1 .. Len(sent)
  BY <1>1
<1> QED BY <1>2, <1>3

\* Between two reads the client has every piece of text and of arguments the
\* provider sent up to its end, in order and under the item it belongs to, and
\* its response is completed exactly if the provider has ended; and what it is
\* told to be final repeats what it was sent before (stream_response yields all
\* frames of an event before it reads the next; complete()).
THEOREM ClientHasEverything == Spec => []ClientHasWhatWasSent
<1>1. StreamInv /\ InputInv => NothingIsLost
  <2> SUFFICES ASSUME StreamInv, InputInv, pc = "read"
               PROVE  /\ (IF enc.textIndex = None THEN <<>> ELSE Deltas(enc.textIndex)) = ToldText
                      /\ \A k \in Tools :
                           (IF k \in DOMAIN enc.tools THEN Deltas(enc.tools[k].index) ELSE <<>>) = ToldArguments(k)
                      /\ ClientStatus = "completed" <=> Ends # {}
    BY DEF NothingIsLost
  <2>1. frames = <<>> /\ Held(protocol, enc, told) /\ sent \in Seq(FrameSet) /\ Live(enc, All)
    BY DEF InputInv, StreamInv, Translating
  <2>2. All = sent
    BY <2>1 DEF All
  <2>3. Texts(enc, sent) /\ Counts(enc, sent)
    BY <2>1, <2>2 DEF Live
  <2>4. /\ ToldText = enc.text /\ \A k \in Tools : ToldArguments(k) = ArgumentsIn(enc, k)
        /\ enc.completed <=> Ends # {}
    BY <2>1, ToldIs DEF Held
  <2>5. (IF enc.textIndex = None THEN <<>> ELSE Deltas(enc.textIndex)) = enc.text
    BY <2>3, DeltasAre DEF Texts
  <2>6. \A k \in Tools :
          (IF k \in DOMAIN enc.tools THEN Deltas(enc.tools[k].index) ELSE <<>>) = ArgumentsIn(enc, k)
    BY <2>3, DeltasAre DEF Texts, ArgumentsIn
  <2>7. ClientStatus = "completed" <=> enc.completed
    BY <2>3, ClientStatusIs DEF Counts, StatusOf
  <2> QED BY <2>4, <2>5, <2>6, <2>7
<1> QED BY <1>1, StreamInvHolds, InputInvHolds, FinalFramesRepeat, PTL DEF ClientHasWhatWasSent

\* The completed response reports the usage the provider has sent last before
\* or, if it speaks Anthropic Messages, with its end: a chat chunk that holds
\* the end and the usage is decoded to the end first, and what follows an end
\* is swallowed (decode_stream_event, complete()).  What an Anthropic start says
\* of tokens is not among it, because decode_anthropic_event reads no more of it
\* than the model, and a usage that is null reports nothing and replaces what
\* was counted before.
THEOREM UsageReported == Spec => []UsageIsReported
<1>1. StreamInv /\ InputInv => UsageIsReported
  <2> SUFFICES ASSUME StreamInv, InputInv PROVE UsageIsReported
    OBVIOUS
  <2>1. FinalUsage(protocol, All, told)
    BY DEF InputInv
  <2>2. \A i \in DOMAIN sent : sent[i].type = "response.completed" => Reported(protocol, sent[i].content.usage, told)
    BY <2>1, SentIsPrefix DEF FinalUsage
  <2> QED BY <2>2, ToldIs
<1> QED BY <1>1, StreamInvHolds, InputInvHolds, PTL

-----------------------------------------------------------------------------
(* The credentials of a request *)

Row == [url : Nat, key : Nat]

\* A route is made of one version of its provider, the present or an old one.
OfOneRow(route) ==
  /\ route.provider \in DOMAIN Providers
  /\ \E i \in DOMAIN rows[route.provider] :
       /\ rows[route.provider][i].url = route.url
       /\ Proxy!Ref(route.provider, rows[route.provider][i].key) = route.ref

RowsInv ==
  /\ DOMAIN rows = DOMAIN Providers
  /\ \A p \in DOMAIN Providers : rows[p] \in Seq(Row) /\ rows[p] # <<>>

\* What is stored under a reference is the key of its revision.
KeysInv == \A ref \in DOMAIN keys : keys[ref] = ref[2]

RoutesInv == DOMAIN routes = Tokens /\ \A t \in Tokens : routes[t] # None => OfOneRow(routes[t])

RequestInv(r) ==
  /\ Proxy!At(r, "resolve") => requests[r].token \in Tokens \cup {None}
  /\ Proxy!At(r, "convert") => OfOneRow(requests[r].route)
  /\ Proxy!At(r, "sent") => OfOneRow(requests[r].to) /\ requests[r].key = requests[r].to.ref[2]

RequestsInv == DOMAIN requests = Requests /\ \A r \in Requests : RequestInv(r)

CredentialsInv == RowsInv /\ KeysInv /\ RoutesInv /\ RequestsInv

\* A saved version of a provider stays in its history.
LEMMA RowsGrow ==
  ASSUME RowsInv, NEW p \in DOMAIN Providers, NEW row \in Row,
         rows' = [rows EXCEPT ![p] = Append(@, row)]
  PROVE  /\ RowsInv'
         /\ \A route : OfOneRow(route) => OfOneRow(route)'
<1>1. /\ rows[p] \in Seq(Row) /\ Len(rows[p]) \in Nat
      /\ DOMAIN rows' = DOMAIN Providers
      /\ rows'[p] = Append(rows[p], row)
      /\ \A q \in DOMAIN Providers \ {p} : rows'[q] = rows[q]
  BY DEF RowsInv
<1>2. /\ Append(rows[p], row) \in Seq(Row) /\ Append(rows[p], row) # <<>>
      /\ Len(Append(rows[p], row)) = Len(rows[p]) + 1
      /\ \A i \in 1 .. Len(rows[p]) : Append(rows[p], row)[i] = rows[p][i]
  BY <1>1
<1>3. \A i \in DOMAIN rows[p] : i \in DOMAIN rows'[p] /\ rows'[p][i] = rows[p][i]
  BY <1>1, <1>2
<1>4. RowsInv'
  BY <1>1, <1>2 DEF RowsInv
<1>5. ASSUME NEW route, OfOneRow(route) PROVE OfOneRow(route)'
  <2>1. \A i \in DOMAIN rows[route.provider] :
           i \in DOMAIN rows'[route.provider] /\ rows'[route.provider][i] = rows[route.provider][i]
    BY <1>1, <1>3, <1>5 DEF OfOneRow
  <2> QED BY <1>5, <2>1 DEF OfOneRow
<1> QED BY <1>4, <1>5

LEMMA CurrentIsRow ==
  ASSUME RowsInv, NEW p \in DOMAIN Providers
  PROVE  Proxy!Current(p) \in Row
<1>1. rows[p] \in Seq(Row) /\ Len(rows[p]) \in Nat /\ Len(rows[p]) > 0
  BY DEF RowsInv
<1> QED BY <1>1 DEF Proxy!Current, Proxy!Last

LEMMA CredentialsInit == Proxy!Init => CredentialsInv
<1> SUFFICES ASSUME Proxy!Init PROVE CredentialsInv
  OBVIOUS
<1>1. RowsInv
  BY DEF Proxy!Init, RowsInv, Row
<1>2. KeysInv
  BY DEF Proxy!Init, KeysInv, Proxy!Ref
<1>3. RoutesInv
  BY DEF Proxy!Init, RoutesInv
<1>4. RequestsInv
  BY DEF Proxy!Init, RequestsInv, RequestInv, Proxy!At, Proxy!New
<1> QED BY <1>1, <1>2, <1>3, <1>4 DEF CredentialsInv

\* What goes on with one request is the others' business only through the state
\* they share.
LEMMA OneRequest ==
  ASSUME CredentialsInv, NEW r \in Requests, NEW record, Proxy!Goes(r, record),
         UNCHANGED <<rows, routes, keys>>,
         record.at = "resolve" => record.token \in Tokens \cup {None},
         record.at = "convert" => OfOneRow(record.route),
         record.at = "sent" => OfOneRow(record.to) /\ record.key = record.to.ref[2]
  PROVE  CredentialsInv'
<1>1. DOMAIN requests' = Requests /\ requests'[r] = record
  BY DEF CredentialsInv, RequestsInv, Proxy!Goes
<1>2. \A q \in Requests \ {r} : requests'[q] = requests[q]
  BY DEF CredentialsInv, RequestsInv, Proxy!Goes
<1>3. \A route : OfOneRow(route)' <=> OfOneRow(route)
  BY DEF OfOneRow
<1>4. RequestInv(r)'
  BY <1>1, <1>3 DEF RequestInv, Proxy!At
<1>5. ASSUME NEW q \in Requests \ {r} PROVE RequestInv(q)'
  <2>1. RequestInv(q) /\ requests'[q] = requests[q]
    BY <1>2 DEF CredentialsInv, RequestsInv
  <2> QED BY <1>3, <2>1 DEF RequestInv, Proxy!At
<1>6. RequestsInv'
  BY <1>1, <1>4, <1>5 DEF RequestsInv
<1>7. RowsInv' /\ KeysInv' /\ RoutesInv'
  BY <1>3 DEF CredentialsInv, RowsInv, KeysInv, RoutesInv
<1> QED BY <1>6, <1>7 DEF CredentialsInv

\* Where the requests stay and every route that was good is.
LEMMA OtherState ==
  ASSUME CredentialsInv, UNCHANGED requests, RowsInv', KeysInv', RoutesInv',
         \A route : OfOneRow(route) => OfOneRow(route)'
  PROVE  CredentialsInv'
<1>1. ASSUME NEW r \in Requests PROVE RequestInv(r)'
  <2>1. RequestInv(r)
    BY DEF CredentialsInv, RequestsInv
  <2> QED BY <2>1 DEF RequestInv, Proxy!At
<1> QED BY <1>1 DEF CredentialsInv, RequestsInv

LEMMA CredentialsStep == CredentialsInv /\ [Proxy!Next]_(Proxy!vars) => CredentialsInv'
<1> SUFFICES ASSUME CredentialsInv, [Proxy!Next]_(Proxy!vars) PROVE CredentialsInv'
  OBVIOUS
<1> USE DEF CredentialsInv
<1>1. ASSUME NEW token \in Tokens, NEW p \in DOMAIN Providers, Proxy!Register(token, p) PROVE CredentialsInv'
  <2>1. PICK row \in Proxy!ToSet(rows[p]) :
           routes' = [routes EXCEPT ![token] = [provider |-> p, url |-> row.url, ref |-> Proxy!Ref(p, row.key)]]
    BY <1>1 DEF Proxy!Register
  <2>2. \A route : OfOneRow(route)' <=> OfOneRow(route)
    BY <1>1 DEF Proxy!Register, OfOneRow
  <2>3. OfOneRow([provider |-> p, url |-> row.url, ref |-> Proxy!Ref(p, row.key)])
    BY DEF OfOneRow, Proxy!ToSet
  <2>4. RoutesInv'
    BY <2>1, <2>2, <2>3 DEF RoutesInv
  <2>5. RowsInv' /\ KeysInv'
    BY <1>1 DEF Proxy!Register, RowsInv, KeysInv
  <2> QED BY <1>1, <2>2, <2>4, <2>5, OtherState DEF Proxy!Register
<1>2. ASSUME NEW token \in Tokens, Proxy!Unregister(token) PROVE CredentialsInv'
  <2>1. \A route : OfOneRow(route)' <=> OfOneRow(route)
    BY <1>2 DEF Proxy!Unregister, OfOneRow
  <2>2. RoutesInv'
    BY <1>2, <2>1 DEF Proxy!Unregister, RoutesInv
  <2>3. RowsInv' /\ KeysInv'
    BY <1>2 DEF Proxy!Unregister, RowsInv, KeysInv
  <2> QED BY <1>2, <2>1, <2>2, <2>3, OtherState DEF Proxy!Unregister
<1>3. ASSUME NEW p \in DOMAIN Providers, Proxy!EditKey(p) PROVE CredentialsInv'
  <2> DEFINE revision == Proxy!Current(p).key + 1
  <2>1. Proxy!Current(p) \in Row
    BY CurrentIsRow
  <2>2. PICK url \in Proxy!Current(p).url .. Proxy!Current(p).url + 1 :
           rows' = [rows EXCEPT ![p] = Append(@, [url |-> url, key |-> revision])]
    BY <1>3 DEF Proxy!EditKey
  <2>3. [url |-> url, key |-> revision] \in Row
    BY <2>1 DEF Row
  <2>4. RowsInv' /\ \A route : OfOneRow(route) => OfOneRow(route)'
    BY <2>2, <2>3, RowsGrow
  <2>5. KeysInv'
    BY <1>3 DEF Proxy!EditKey, KeysInv, Proxy!Ref
  <2>6. RoutesInv'
    BY <1>3, <2>4 DEF Proxy!EditKey, RoutesInv
  <2> QED BY <1>3, <2>4, <2>5, <2>6, OtherState DEF Proxy!EditKey
<1>4. ASSUME NEW p \in DOMAIN Providers, Proxy!EditUrl(p) PROVE CredentialsInv'
  <2>1. Proxy!Current(p) \in Row
    BY CurrentIsRow
  <2>2. [Proxy!Current(p) EXCEPT !.url = @ + 1] \in Row
    BY <2>1 DEF Row
  <2>3. RowsInv' /\ \A route : OfOneRow(route) => OfOneRow(route)'
    BY <1>4, <2>2, RowsGrow DEF Proxy!EditUrl
  <2>4. KeysInv' /\ RoutesInv'
    BY <1>4, <2>3 DEF Proxy!EditUrl, KeysInv, RoutesInv
  <2> QED BY <1>4, <2>3, <2>4, OtherState DEF Proxy!EditUrl
<1>5. ASSUME NEW p \in DOMAIN Providers, Proxy!DeleteKey(p) PROVE CredentialsInv'
  <2>1. PICK ref : keys' = [k \in DOMAIN keys \ {ref} |-> keys[k]]
    BY <1>5 DEF Proxy!DeleteKey
  <2>2. \A route : OfOneRow(route)' <=> OfOneRow(route)
    BY <1>5 DEF Proxy!DeleteKey, OfOneRow
  <2>3. KeysInv'
    BY <2>1 DEF KeysInv
  <2>4. RowsInv' /\ RoutesInv'
    BY <1>5, <2>2 DEF Proxy!DeleteKey, RowsInv, RoutesInv
  <2> QED BY <1>5, <2>2, <2>3, <2>4, OtherState DEF Proxy!DeleteKey
<1>6. ASSUME NEW r \in Requests, Proxy!Arrive(r) PROVE CredentialsInv'
  <2>1. PICK token \in Tokens \cup {None}, spoken \in Proxy!ApiProtocols :
           Proxy!Goes(r, [at |-> "resolve", token |-> token, protocol |-> spoken])
    BY <1>6 DEF Proxy!Arrive
  <2> QED BY <1>6, <2>1, OneRequest DEF Proxy!Arrive
<1>7. ASSUME NEW r \in Requests, NEW outcome, NEW names, Proxy!Ends(r, outcome, names),
             UNCHANGED <<rows, routes, keys>> PROVE CredentialsInv'
  BY <1>7, OneRequest DEF Proxy!Ends
<1>8. ASSUME NEW r \in Requests, Proxy!Resolve(r) PROVE CredentialsInv'
  <2> DEFINE q == requests[r]
  <2>1. CASE q.token = None \/ routes[q.token] = None \/ Speaks[q.token] # q.protocol
    BY <1>7, <1>8, <2>1 DEF Proxy!Resolve
  <2>2. CASE ~(q.token = None \/ routes[q.token] = None \/ Speaks[q.token] # q.protocol)
    <3>1. q.token \in Tokens /\ OfOneRow(routes[q.token])
      BY <1>8, <2>2 DEF Proxy!Resolve, RequestsInv, RequestInv, RoutesInv
    <3>2. Proxy!Goes(r, [at |-> "convert", protocol |-> q.protocol, route |-> routes[q.token]])
      BY <1>8, <2>2 DEF Proxy!Resolve
    <3> QED BY <1>8, <3>1, <3>2, OneRequest DEF Proxy!Resolve
  <2> QED BY <2>1, <2>2
<1>9. ASSUME NEW r \in Requests, Proxy!Convert(r) PROVE CredentialsInv'
  <2> DEFINE q == requests[r]
             upstream == Providers[q.route.provider]
  <2>1. PICK source \in Bodies(q.protocol) \cup {Malformed} :
          LET body == Proxy!Translated(source, q.protocol, upstream) IN
          CASE body = Rejected -> Proxy!Ends(r, "unconverted", {"conversion"})
            [] body # Rejected /\ q.route.ref \notin DOMAIN keys -> Proxy!Ends(r, "keyless", {})
            [] OTHER ->
                 /\ Proxy!Goes(r, [at |-> "sent", protocol |-> q.protocol, upstream |-> upstream,
                             source |-> source, body |-> body, to |-> q.route, key |-> keys[q.route.ref]])
                 /\ UNCHANGED metrics
    BY <1>9 DEF Proxy!Convert
  <2> DEFINE body == Proxy!Translated(source, q.protocol, upstream)
  <2>2. CASE body = Rejected
    BY <1>7, <1>9, <2>1, <2>2 DEF Proxy!Convert
  <2>3. CASE body # Rejected /\ q.route.ref \notin DOMAIN keys
    BY <1>7, <1>9, <2>1, <2>3 DEF Proxy!Convert
  <2>4. CASE body # Rejected /\ q.route.ref \in DOMAIN keys
    <3>1. OfOneRow(q.route)
      BY <1>9 DEF Proxy!Convert, RequestsInv, RequestInv
    <3>2. keys[q.route.ref] = q.route.ref[2]
      BY <2>4 DEF KeysInv
    <3>3. Proxy!Goes(r, [at |-> "sent", protocol |-> q.protocol, upstream |-> upstream,
                   source |-> source, body |-> body, to |-> q.route, key |-> keys[q.route.ref]])
      BY <2>1, <2>4
    <3> QED BY <1>9, <3>1, <3>2, <3>3, OneRequest DEF Proxy!Convert
  <2> QED BY <2>2, <2>3, <2>4
<1>10. ASSUME NEW r \in Requests, Proxy!Answered(r) PROVE CredentialsInv'
  <2>1. CASE Proxy!Ends(r, "unreachable", {"upstream"}) \/ Proxy!Ends(r, "rejected", {"upstream"})
    BY <1>7, <1>10, <2>1 DEF Proxy!Answered
  <2>2. ASSUME NEW step \in {"body", "stream"},
               Proxy!Goes(r, [at |-> step, protocol |-> requests[r].protocol, upstream |-> requests[r].upstream])
        PROVE CredentialsInv'
    BY <1>10, <2>2, OneRequest DEF Proxy!Answered
  <2> QED BY <1>10, <2>1, <2>2 DEF Proxy!Answered
<1>11. ASSUME NEW r \in Requests, Proxy!Body(r) PROVE CredentialsInv'
  <2>1. CASE \E outcome, names : Proxy!Ends(r, outcome, names)
    BY <1>7, <1>11, <2>1 DEF Proxy!Body
  <2>2. CASE \E record : record.at = "ended" /\ Proxy!Goes(r, record)
    BY <1>11, <2>2, OneRequest DEF Proxy!Body
  <2> QED BY <1>11, <2>1, <2>2 DEF Proxy!Body
<1>12. ASSUME NEW r \in Requests, Proxy!Stream(r) \/ Proxy!ClientLeaves(r) PROVE CredentialsInv'
  BY <1>7, <1>12 DEF Proxy!Stream, Proxy!ClientLeaves
<1>13. CASE UNCHANGED Proxy!vars
  <2>1. \A route : OfOneRow(route)' <=> OfOneRow(route)
    BY <1>13 DEF Proxy!vars, OfOneRow
  <2> QED BY <1>13, <2>1, OtherState DEF Proxy!vars, RowsInv, KeysInv, RoutesInv
<1> QED
  BY <1>1, <1>2, <1>3, <1>4, <1>5, <1>6, <1>8, <1>9, <1>10, <1>11, <1>12, <1>13 DEF Proxy!Next

\* Reference and URL of a route were saved together, and what is stored under a
\* reference never changes.
LEMMA CredentialsFollow == CredentialsInv => Proxy!CredentialsMatch
<1> SUFFICES ASSUME CredentialsInv, NEW r \in Requests, Proxy!At(r, "sent")
             PROVE  \E row \in Proxy!ToSet(rows[requests[r].to.provider]) :
                      row.url = requests[r].to.url /\ row.key = requests[r].key
  BY DEF Proxy!CredentialsMatch
<1>1. OfOneRow(requests[r].to) /\ requests[r].key = requests[r].to.ref[2]
  BY DEF CredentialsInv, RequestsInv, RequestInv
<1> QED BY <1>1 DEF OfOneRow, Proxy!ToSet, Proxy!Ref

\* Whatever requests, switches and edits of providers do to each other, the key
\* that a request carries was saved together with the URL it goes to.
THEOREM RequestsCarryTheirKey == Proxy!Spec => []Proxy!CredentialsMatch
<1>1. Proxy!Init => CredentialsInv
  BY CredentialsInit
<1>2. CredentialsInv /\ [Proxy!Next]_(Proxy!vars) => CredentialsInv'
  BY CredentialsStep
<1>3. CredentialsInv => Proxy!CredentialsMatch
  BY CredentialsFollow
<1> QED BY <1>1, <1>2, <1>3, PTL DEF Proxy!Spec
-----------------------------------------------------------------------------
(* The metrics *)

Unsettled == {"refused", "keyless", "left"}
Settled == {r \in Requests : Proxy!At(r, "ended") /\ requests[r].outcome \notin Unsettled}

Metrics == [active : Int, completed : Int, successful : Int, conversion : Int, upstream : Int]
Tallies == {"successful", "conversion", "upstream"}

CountsInv ==
  /\ DOMAIN requests = Requests
  /\ metrics \in Metrics
  /\ metrics.active = Cardinality(Proxy!InFlight)
  /\ metrics.successful + metrics.conversion + metrics.upstream = Cardinality(Settled)
  /\ metrics.completed >= metrics.successful

\* Of the counters that tell how requests ended, what an outcome increments.
Accounts(outcome, names) ==
  /\ "successful" \in names => "completed" \in names
  /\ outcome \in Unsettled => names \cap Tallies = {}
  /\ outcome \notin Unsettled => \E kind \in Tallies : names \cap Tallies = {kind}

LEMMA SubsetsAreFinite ==
  ASSUME IsFiniteSet(Requests)
  PROVE  /\ IsFiniteSet(Proxy!InFlight) /\ Cardinality(Proxy!InFlight) \in Nat
         /\ IsFiniteSet(Settled) /\ Cardinality(Settled) \in Nat
<1>1. Proxy!InFlight \subseteq Requests /\ Settled \subseteq Requests
  BY DEF Proxy!InFlight, Settled
<1> QED BY <1>1, FS_Subset, FS_CardinalityType

\* A request that goes on without an end.
LEMMA GoesOn ==
  ASSUME CountsInv, NEW r \in Proxy!InFlight, NEW record, Proxy!Goes(r, record),
         record.at \notin {"new", "ended"}, UNCHANGED metrics
  PROVE  CountsInv'
<1>1. r \in Requests /\ requests[r].at \notin {"new", "ended"}
  BY DEF Proxy!InFlight
<1>2. DOMAIN requests' = Requests /\ requests'[r] = record
      /\ \A q \in Requests \ {r} : requests'[q] = requests[q]
  BY <1>1 DEF CountsInv, Proxy!Goes
<1>3. Proxy!InFlight' = Proxy!InFlight
  BY <1>1, <1>2 DEF Proxy!InFlight
<1>4. Settled' = Settled
  BY <1>1, <1>2 DEF Settled, Proxy!At
<1> QED BY <1>2, <1>3, <1>4 DEF CountsInv

\* A request that ends leaves those in flight, and is settled if its outcome is
\* one that counts.
LEMMA GoesToEnd ==
  ASSUME IsFiniteSet(Requests), CountsInv, NEW r \in Proxy!InFlight, NEW record, NEW names,
         Proxy!Goes(r, record), record.at = "ended", Proxy!Counts(-1, names), Accounts(record.outcome, names)
  PROVE  CountsInv'
<1>1. r \in Requests /\ requests[r].at \notin {"new", "ended"}
  BY DEF Proxy!InFlight
<1>2. DOMAIN requests' = Requests /\ requests'[r] = record
      /\ \A q \in Requests \ {r} : requests'[q] = requests[q]
  BY <1>1 DEF CountsInv, Proxy!Goes
<1>3. Proxy!InFlight' = Proxy!InFlight \ {r}
  BY <1>1, <1>2 DEF Proxy!InFlight
<1>4. Cardinality(Proxy!InFlight') = Cardinality(Proxy!InFlight) - 1
  BY <1>3, SubsetsAreFinite, FS_RemoveElement
<1>5. Settled' = IF record.outcome \in Unsettled THEN Settled ELSE Settled \cup {r}
  BY <1>1, <1>2 DEF Settled, Proxy!At
<1>6. r \notin Settled
  BY <1>1 DEF Settled, Proxy!At
<1>7. Cardinality(Settled') = Cardinality(Settled) + (IF record.outcome \in Unsettled THEN 0 ELSE 1)
  <2>1. CASE record.outcome \in Unsettled
    BY <1>5, <2>1, SubsetsAreFinite
  <2>2. CASE record.outcome \notin Unsettled
    BY <1>5, <1>6, <2>2, SubsetsAreFinite, FS_AddElement
  <2> QED BY <2>1, <2>2
<1> DEFINE One(name) == IF name \in names THEN 1 ELSE 0
<1>8. /\ metrics' \in Metrics
      /\ metrics'.active = metrics.active - 1
      /\ metrics'.completed = metrics.completed + One("completed")
      /\ metrics'.successful = metrics.successful + One("successful")
      /\ metrics'.conversion = metrics.conversion + One("conversion")
      /\ metrics'.upstream = metrics.upstream + One("upstream")
  BY DEF CountsInv, Metrics, Proxy!Counts
<1>9. One("successful") + One("conversion") + One("upstream")
        = IF record.outcome \in Unsettled THEN 0 ELSE 1
  <2>1. CASE record.outcome \in Unsettled
    BY <2>1 DEF Accounts, Tallies
  <2>2. CASE record.outcome \notin Unsettled
    <3>1. PICK kind \in Tallies : names \cap Tallies = {kind}
      BY <2>2 DEF Accounts
    <3>2. \A name \in Tallies : name \in names <=> name = kind
      BY <3>1
    <3> QED BY <2>2, <3>1, <3>2 DEF Tallies
  <2> QED BY <2>1, <2>2
<1>10. One("completed") >= One("successful")
  BY DEF Accounts
<1>11. metrics \in Metrics /\ Cardinality(Settled) \in Nat
  BY SubsetsAreFinite DEF CountsInv
<1>12. metrics'.successful + metrics'.conversion + metrics'.upstream = Cardinality(Settled')
  <2>1. metrics.successful + metrics.conversion + metrics.upstream = Cardinality(Settled)
    BY DEF CountsInv
  <2> HIDE DEF One
  <2>2. One("successful") \in Int /\ One("conversion") \in Int /\ One("upstream") \in Int
    BY DEF One
  <2> QED BY <1>7, <1>8, <1>9, <1>11, <2>1, <2>2 DEF Metrics
<1>13. metrics'.completed >= metrics'.successful
  BY <1>8, <1>10, <1>11 DEF CountsInv, Metrics
<1>14. metrics'.active = Cardinality(Proxy!InFlight')
  BY <1>4, <1>8 DEF CountsInv
<1> QED BY <1>2, <1>8, <1>12, <1>13, <1>14 DEF CountsInv

LEMMA EndsCounted ==
  ASSUME IsFiniteSet(Requests), CountsInv, NEW r \in Proxy!InFlight, NEW outcome, NEW names,
         Proxy!Ends(r, outcome, names), Accounts(outcome, names)
  PROVE  CountsInv'
<1> DEFINE record == [at |-> "ended", outcome |-> outcome]
<1>1. record.at = "ended" /\ record.outcome = outcome
  OBVIOUS
<1>2. Proxy!Goes(r, record) /\ Proxy!Counts(-1, names)
  BY DEF Proxy!Ends
<1> HIDE DEF record
<1> QED BY <1>1, <1>2, GoesToEnd

LEMMA CountsInit == Proxy!Init => CountsInv
<1> SUFFICES ASSUME Proxy!Init PROVE CountsInv
  OBVIOUS
<1>1. Proxy!InFlight = {} /\ Settled = {}
  BY DEF Proxy!Init, Proxy!InFlight, Settled, Proxy!At, Proxy!New
<1>2. Cardinality({}) = 0
  BY FS_EmptySet
<1> QED BY <1>1, <1>2 DEF Proxy!Init, CountsInv, Metrics

LEMMA CountsStep ==
  ASSUME IsFiniteSet(Requests), CountsInv, [Proxy!Next]_(Proxy!vars)
  PROVE  CountsInv'
<1>1. CASE UNCHANGED <<requests, metrics>>
  BY <1>1 DEF CountsInv, Proxy!InFlight, Settled, Proxy!At
<1>2. ASSUME NEW r \in Requests, Proxy!Arrive(r) PROVE CountsInv'
  <2>1. PICK token \in Tokens \cup {None}, spoken \in Proxy!ApiProtocols :
           Proxy!Goes(r, [at |-> "resolve", token |-> token, protocol |-> spoken])
    BY <1>2 DEF Proxy!Arrive
  <2>2. requests[r].at = "new" /\ Proxy!Counts(1, {})
    BY <1>2 DEF Proxy!Arrive, Proxy!At
  <2>3. DOMAIN requests' = Requests /\ requests'[r].at = "resolve"
        /\ \A q \in Requests \ {r} : requests'[q] = requests[q]
    BY <2>1 DEF CountsInv, Proxy!Goes
  <2>4. Proxy!InFlight' = Proxy!InFlight \cup {r} /\ r \notin Proxy!InFlight
    BY <2>2, <2>3 DEF Proxy!InFlight
  <2>5. Settled' = Settled
    BY <2>2, <2>3 DEF Settled, Proxy!At
  <2>6. Cardinality(Proxy!InFlight') = Cardinality(Proxy!InFlight) + 1
    BY <2>4, SubsetsAreFinite, FS_AddElement
  <2>7. /\ metrics' \in Metrics /\ metrics'.active = metrics.active + 1
        /\ metrics'.completed = metrics.completed /\ metrics'.successful = metrics.successful
        /\ metrics'.conversion = metrics.conversion /\ metrics'.upstream = metrics.upstream
    BY <2>2 DEF CountsInv, Metrics, Proxy!Counts
  <2> QED BY <2>3, <2>5, <2>6, <2>7 DEF CountsInv
<1>3. ASSUME NEW r \in Requests, Proxy!Resolve(r) PROVE CountsInv'
  <2>1. r \in Proxy!InFlight
    BY <1>3 DEF Proxy!Resolve, Proxy!At, Proxy!InFlight
  <2>2. Accounts("refused", {})
    BY DEF Accounts, Unsettled
  <2>3. CASE Proxy!Ends(r, "refused", {})
    BY <2>1, <2>2, <2>3, EndsCounted
  <2>4. CASE ~Proxy!Ends(r, "refused", {})
    <3>1. PICK record : record.at = "convert" /\ Proxy!Goes(r, record) /\ UNCHANGED metrics
      BY <1>3, <2>4 DEF Proxy!Resolve
    <3> QED BY <2>1, <3>1, GoesOn
  <2> QED BY <2>3, <2>4
<1>4. ASSUME NEW r \in Requests, Proxy!Convert(r) PROVE CountsInv'
  <2>1. r \in Proxy!InFlight
    BY <1>4 DEF Proxy!Convert, Proxy!At, Proxy!InFlight
  <2>2. Accounts("unconverted", {"conversion"}) /\ Accounts("keyless", {})
    BY DEF Accounts, Unsettled, Tallies
  <2>3. \/ Proxy!Ends(r, "unconverted", {"conversion"}) \/ Proxy!Ends(r, "keyless", {})
        \/ \E record : record.at = "sent" /\ Proxy!Goes(r, record) /\ UNCHANGED metrics
    BY <1>4 DEF Proxy!Convert
  <2>4. CASE \E record : record.at = "sent" /\ Proxy!Goes(r, record) /\ UNCHANGED metrics
    BY <2>1, <2>4, GoesOn
  <2> QED BY <2>1, <2>2, <2>3, <2>4, EndsCounted
<1>5. ASSUME NEW r \in Requests, Proxy!Answered(r) PROVE CountsInv'
  <2>1. r \in Proxy!InFlight
    BY <1>5 DEF Proxy!Answered, Proxy!At, Proxy!InFlight
  <2>2. Accounts("unreachable", {"upstream"}) /\ Accounts("rejected", {"upstream"})
    BY DEF Accounts, Unsettled, Tallies
  <2>3. \/ Proxy!Ends(r, "unreachable", {"upstream"}) \/ Proxy!Ends(r, "rejected", {"upstream"})
        \/ \E record : record.at \in {"body", "stream"} /\ Proxy!Goes(r, record) /\ UNCHANGED metrics
    BY <1>5 DEF Proxy!Answered
  <2>4. CASE \E record : record.at \in {"body", "stream"} /\ Proxy!Goes(r, record) /\ UNCHANGED metrics
    BY <2>1, <2>4, GoesOn
  <2> QED BY <2>1, <2>2, <2>3, <2>4, EndsCounted
<1>6. ASSUME NEW r \in Requests, Proxy!Body(r) PROVE CountsInv'
  <2>1. r \in Proxy!InFlight
    BY <1>6 DEF Proxy!Body, Proxy!At, Proxy!InFlight
  <2>2. /\ Accounts("broken", {"upstream"}) /\ Accounts("untranslated", {"conversion"})
        /\ Accounts("served", {"completed", "successful"})
    BY DEF Accounts, Unsettled, Tallies
  <2>3. \/ Proxy!Ends(r, "broken", {"upstream"}) \/ Proxy!Ends(r, "untranslated", {"conversion"})
        \/ \E record : /\ record.at = "ended" /\ record.outcome = "served"
                       /\ Proxy!Goes(r, record) /\ Proxy!Counts(-1, {"completed", "successful"})
    BY <1>6 DEF Proxy!Body
  <2>4. CASE \E record : /\ record.at = "ended" /\ record.outcome = "served"
                         /\ Proxy!Goes(r, record) /\ Proxy!Counts(-1, {"completed", "successful"})
    BY <2>1, <2>2, <2>4, GoesToEnd
  <2> QED BY <2>1, <2>2, <2>3, <2>4, EndsCounted
<1>7. ASSUME NEW r \in Requests, Proxy!Stream(r) PROVE CountsInv'
  <2>1. r \in Proxy!InFlight
    BY <1>7 DEF Proxy!Stream, Proxy!At, Proxy!InFlight
  <2>2. /\ Accounts("streamed", {"completed", "successful"}) /\ Accounts("broken", {"completed", "upstream"})
        /\ Accounts("untranslated", {"completed", "conversion"})
    BY DEF Accounts, Unsettled, Tallies
  <2> QED BY <1>7, <2>1, <2>2, EndsCounted DEF Proxy!Stream
<1>8. ASSUME NEW r \in Requests, Proxy!ClientLeaves(r) PROVE CountsInv'
  <2>1. Accounts("left", {})
    BY DEF Accounts, Unsettled
  <2> QED BY <1>8, <2>1, EndsCounted DEF Proxy!ClientLeaves
<1>9. CASE \/ \E token \in Tokens, p \in DOMAIN Providers : Proxy!Register(token, p)
           \/ \E token \in Tokens : Proxy!Unregister(token)
           \/ \E p \in DOMAIN Providers : Proxy!EditKey(p) \/ Proxy!EditUrl(p) \/ Proxy!DeleteKey(p)
           \/ UNCHANGED Proxy!vars
  BY <1>1, <1>9 DEF Proxy!Register, Proxy!Unregister, Proxy!EditKey, Proxy!EditUrl, Proxy!DeleteKey, Proxy!vars
<1> QED BY <1>2, <1>3, <1>4, <1>5, <1>6, <1>7, <1>8, <1>9 DEF Proxy!Next

LEMMA SameCardinality == \A S : Proxy!Cardinality(S) = Cardinality(S)
BY DEF Proxy!Cardinality, Cardinality, Proxy!IsFiniteSet, IsFiniteSet

\* However requests end, and whenever their clients leave, the status window
\* counts as active exactly the requests under way, and every other one that is
\* neither refused, nor without a key, nor left, once.
THEOREM RequestsAreCounted == IsFiniteSet(Requests) /\ Proxy!Spec => []Proxy!CountsAgree
<1> SUFFICES ASSUME IsFiniteSet(Requests) PROVE Proxy!Spec => []Proxy!CountsAgree
  OBVIOUS
<1>1. Proxy!Init => CountsInv
  BY CountsInit
<1>2. CountsInv /\ [Proxy!Next]_(Proxy!vars) => CountsInv'
  BY CountsStep
<1>3. CountsInv => Proxy!CountsAgree
  BY SameCardinality DEF CountsInv, Proxy!CountsAgree, Settled, Unsettled, Proxy!At
<1> QED BY <1>1, <1>2, <1>3, PTL DEF Proxy!Spec
-----------------------------------------------------------------------------
(* Both *)

LEMMA ExchangeIsStream == ExchangeSpec => Spec
<1>1. ExchangeInit => Init
  BY DEF ExchangeInit
<1>2. [ExchangeNext]_<<acting, vars, proxyVars>> => [Next]_vars
  BY DEF ExchangeNext, StreamNext, RequestsNext
<1> QED
  BY <1>1, <1>2, PTL DEF ExchangeSpec, Spec

LEMMA ExchangeIsProxy == ExchangeSpec => Proxy!Spec
<1>1. ExchangeInit => Proxy!Init
  BY DEF ExchangeInit
<1>2. [ExchangeNext]_<<acting, vars, proxyVars>> => [Proxy!Next]_(Proxy!vars)
  BY DEF ExchangeNext, StreamNext, RequestsNext, proxyVars, Proxy!vars
<1> QED
  BY <1>1, <1>2, PTL DEF ExchangeSpec, Proxy!Spec

\* In the company of requests, too, a stream is translated as the theorems above
\* say, for any events of the provider.
THEOREM ExchangeTranslates ==
  ExchangeSpec => [](TypeOK /\ FramesAreNumbered /\ ClientHasWhatWasSent /\ UsageIsReported) /\ ImplementsLifecycle
BY ExchangeIsStream, StreamTypeOK, FramesNumbered, ClientHasEverything, UsageReported, StreamImplementsLifecycle, PTL

\* A request goes out with the key that was saved with its URL, whatever other
\* requests, switches and edits of providers do meanwhile (handle_proxy_request).
THEOREM ExchangeCarriesKeys == ExchangeSpec => []CredentialsMatch
BY ExchangeIsProxy, RequestsCarryTheirKey, PTL DEF CredentialsMatch

\* However requests end, the status window counts the active ones, and each of
\* the others that reached its provider once (ActiveConnection, ProxyMetrics).
THEOREM ExchangeCounts == IsFiniteSet(Requests) /\ ExchangeSpec => []CountsAgree
BY ExchangeIsProxy, RequestsAreCounted, PTL DEF CountsAgree
=============================================================================
