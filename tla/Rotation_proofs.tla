--------------------------- MODULE Rotation_proofs ---------------------------
(***************************************************************************)
(* Proofs about Rotation and what MCRotation remembers of a tick, for any  *)
(* number of peers, any limits and graces, and any intruding connections   *)
(* and people.                                                             *)
(***************************************************************************)
EXTENDS MCRotation, MCParking, Induction_proofs, FiniteSetTheorems, TLAPS

-----------------------------------------------------------------------------
\* What the operators on the queue of parked peers do to its members.
Distinct(s) == \A i, j \in DOMAIN s : s[i] = s[j] => i = j
Before(s, x, y) == \E i, j \in DOMAIN s : i < j /\ s[i] = x /\ s[j] = y

\* f gives Only of every beginning of s up to n; there is such a function.
Filtering(f, s, S, n) ==
  f = [i \in 0..n |-> IF i = 0 THEN <<>>
                      ELSE IF s[i] \in S THEN Append(f[i - 1], s[i]) ELSE f[i - 1]]

LEMMA FilterExists ==
  ASSUME NEW s, NEW S, NEW m \in Nat
  PROVE  \E f : Filtering(f, s, S, m)
<1> DEFINE T == {n \in Nat : \E f : Filtering(f, s, S, n)}
<1>1. 0 \in T
  <2>1. Filtering([i \in 0..0 |-> <<>>], s, S, 0)
    BY DEF Filtering
  <2>2. QED
    BY <2>1
<1>2. ASSUME NEW n \in Nat, n \in T PROVE n + 1 \in T
  <2>1. PICK f : Filtering(f, s, S, n)
    BY <1>2
  <2> DEFINE g == [i \in 0..n + 1 |-> IF i \in 0..n THEN f[i]
                     ELSE IF s[i] \in S THEN Append(f[i - 1], s[i]) ELSE f[i - 1]]
  <2>2. ASSUME NEW i \in 0..n + 1
        PROVE  g[i] = IF i = 0 THEN <<>>
                      ELSE IF s[i] \in S THEN Append(g[i - 1], s[i]) ELSE g[i - 1]
    <3>1. CASE i = n + 1
      <4>1. i - 1 \in 0..n /\ i \notin 0..n /\ i # 0 /\ i - 1 \in 0..n + 1
        BY <3>1
      <4>2. g[i - 1] = f[i - 1]
        BY <4>1
      <4>3. QED
        BY <4>1, <4>2
    <3>2. CASE i = 0
      BY <2>1, <3>2 DEF Filtering
    <3>3. CASE i \in 1..n
      <4>1. i - 1 \in 0..n /\ i \in 0..n /\ i # 0 /\ i - 1 \in 0..n + 1
        BY <3>3
      <4>2. g[i - 1] = f[i - 1] /\ g[i] = f[i]
        BY <4>1
      <4>3. f[i] = IF s[i] \in S THEN Append(f[i - 1], s[i]) ELSE f[i - 1]
        BY <2>1, <4>1 DEF Filtering
      <4>4. QED
        BY <4>1, <4>2, <4>3
    <3>4. QED
      BY <3>1, <3>2, <3>3
  <2>3. g = [i \in 0..n + 1 |-> g[i]]
    OBVIOUS
  <2> HIDE DEF g
  <2>4. Filtering(g, s, S, n + 1)
    BY <2>2, <2>3 DEF Filtering
  <2>5. QED
    BY <2>4
<1>3. Nat \subseteq T
  <2> HIDE DEF T
  <2> QED BY <1>1, <1>2, NatBySteps
<1>4. QED
  BY <1>3

LEMMA AppendSet ==
  ASSUME NEW X, NEW s \in Seq(X), NEW x \in X
  PROVE  ToSet(Append(s, x)) = ToSet(s) \cup {x}
<1>1. DOMAIN Append(s, x) = 1..Len(s) + 1 /\ DOMAIN s = 1..Len(s)
  OBVIOUS
<1>2. /\ \A i \in 1..Len(s) : Append(s, x)[i] = s[i]
      /\ Append(s, x)[Len(s) + 1] = x /\ Len(s) \in Nat
  OBVIOUS
<1>3. 1..Len(s) + 1 = (1..Len(s)) \cup {Len(s) + 1}
  BY <1>2
<1>4. QED
  BY <1>1, <1>2, <1>3 DEF ToSet

LEMMA AppendDistinct ==
  ASSUME NEW X, NEW s \in Seq(X), NEW x \in X, Distinct(s), x \notin ToSet(s)
  PROVE  Distinct(Append(s, x))
<1>1. DOMAIN Append(s, x) = 1..Len(s) + 1 /\ DOMAIN s = 1..Len(s) /\ Len(s) \in Nat
  OBVIOUS
<1>2. /\ \A i \in 1..Len(s) : Append(s, x)[i] = s[i] /\ s[i] # x
      /\ Append(s, x)[Len(s) + 1] = x
  BY <1>1 DEF ToSet
<1>3. QED
  BY <1>1, <1>2 DEF Distinct

LEMMA AppendBefore ==
  ASSUME NEW X, NEW s \in Seq(X), NEW z \in X, NEW x, NEW y, Before(Append(s, z), x, y)
  PROVE  Before(s, x, y) \/ (x \in ToSet(s) /\ y = z)
<1>1. DOMAIN Append(s, z) = 1..Len(s) + 1 /\ DOMAIN s = 1..Len(s) /\ Len(s) \in Nat
  OBVIOUS
<1>2. \A i \in 1..Len(s) : Append(s, z)[i] = s[i]
  OBVIOUS
<1>3. PICK i \in 1..Len(s) + 1, j \in 1..Len(s) + 1 :
        i < j /\ Append(s, z)[i] = x /\ Append(s, z)[j] = y
  BY <1>1 DEF Before
<1>4. i \in 1..Len(s) /\ s[i] = x
  BY <1>1, <1>2, <1>3
<1>5. CASE j = Len(s) + 1
  BY <1>1, <1>3, <1>4, <1>5 DEF ToSet
<1>6. CASE j \in 1..Len(s)
  BY <1>1, <1>2, <1>3, <1>4, <1>6 DEF Before
<1>7. QED
  BY <1>1, <1>5, <1>6

\* Only keeps the members it is asked for, in their order, and repeats none.
LEMMA OnlyIs ==
  ASSUME NEW X, NEW s \in Seq(X), NEW S
  PROVE  /\ Only(s, S) \in Seq(X)
         /\ Len(Only(s, S)) <= Len(s)
         /\ ToSet(Only(s, S)) = ToSet(s) \cap S
         /\ Distinct(s) => Distinct(Only(s, S))
         /\ \A x, y : Before(Only(s, S), x, y) => Before(s, x, y)
<1> DEFINE f == CHOOSE f : Filtering(f, s, S, Len(s))
<1>1. Filtering(f, s, S, Len(s))
  BY FilterExists, SMTT(30)
<1>2. Only(s, S) = f[Len(s)]
  BY DEF Only, Filtering
<1> HIDE DEF f
<1>3. f[0] = <<>> /\ \A n \in 1..Len(s) :
         f[n] = IF s[n] \in S THEN Append(f[n - 1], s[n]) ELSE f[n - 1]
  <2>1. Len(s) \in Nat
    OBVIOUS
  <2>2. \A n \in 0..Len(s) :
           f[n] = IF n = 0 THEN <<>>
                  ELSE IF s[n] \in S THEN Append(f[n - 1], s[n]) ELSE f[n - 1]
    BY <1>1, <2>1, Zenon DEF Filtering
  <2>3. QED
    BY <2>1, <2>2
<1> DEFINE Good(n) == /\ f[n] \in Seq(X) /\ Len(f[n]) <= n
                      /\ ToSet(f[n]) = {s[k] : k \in 1..n} \cap S
                      /\ Distinct(s) => Distinct(f[n])
                      /\ \A x, y : Before(f[n], x, y) =>
                           \E i, j \in 1..n : i < j /\ s[i] = x /\ s[j] = y
           T == {n \in Nat : n <= Len(s) => Good(n)}
<1>4. 0 \in T
  <2>1. f[0] \in Seq(X) /\ Len(f[0]) <= 0
    BY <1>3
  <2>2. ToSet(f[0]) = {} /\ Distinct(f[0]) /\ \A x, y : ~Before(f[0], x, y)
    BY <1>3 DEF ToSet, Distinct, Before
  <2>3. QED
    BY <2>1, <2>2
<1>5. ASSUME NEW n \in Nat, n \in T PROVE n + 1 \in T
  <2> SUFFICES ASSUME n + 1 <= Len(s) PROVE Good(n + 1)
    OBVIOUS
  <2>1. Good(n) /\ n + 1 \in 1..Len(s) /\ s[n + 1] \in X
    BY <1>5
  <2>2. {s[k] : k \in 1..n + 1} = {s[k] : k \in 1..n} \cup {s[n + 1]}
    OBVIOUS
  <2>3. f[n + 1] = IF s[n + 1] \in S THEN Append(f[n], s[n + 1]) ELSE f[n]
    BY <1>3, <2>1
  <2>4. CASE s[n + 1] \in S
    <3>1. f[n + 1] = Append(f[n], s[n + 1])
      BY <2>3, <2>4
    <3>2. ToSet(Append(f[n], s[n + 1])) = ToSet(f[n]) \cup {s[n + 1]}
      BY <2>1, AppendSet
    <3>3. f[n + 1] \in Seq(X) /\ Len(f[n + 1]) <= n + 1
      BY <2>1, <3>1
    <3>4. ASSUME Distinct(s) PROVE Distinct(f[n + 1])
      <4>1. s[n + 1] \notin ToSet(f[n])
        <5>1. \A k \in 1..n : s[k] # s[n + 1]
          BY <2>1, <3>4 DEF Distinct
        <5>2. QED
          BY <2>1, <5>1
      <4>2. QED
        BY <2>1, <3>1, <3>4, <4>1, AppendDistinct
    <3>5. ASSUME NEW x, NEW y, Before(f[n + 1], x, y)
          PROVE  \E i, j \in 1..n + 1 : i < j /\ s[i] = x /\ s[j] = y
      <4>1. CASE Before(f[n], x, y)
        BY <2>1, <4>1
      <4>2. CASE x \in ToSet(f[n]) /\ y = s[n + 1]
        <5>1. PICK k \in 1..n : s[k] = x
          BY <2>1, <4>2
        <5>2. k \in 1..n + 1 /\ n + 1 \in 1..n + 1 /\ k < n + 1
          OBVIOUS
        <5>3. QED
          BY <4>2, <5>1, <5>2
      <4>3. QED
        BY <2>1, <3>1, <3>5, <4>1, <4>2, AppendBefore
    <3>6. ToSet(f[n + 1]) = {s[k] : k \in 1..n + 1} \cap S
      <4>1. ToSet(f[n + 1]) = ({s[k] : k \in 1..n} \cap S) \cup {s[n + 1]}
        BY <2>1, <3>1, <3>2, Zenon
      <4>2. QED
        BY <2>2, <2>4, <4>1, Zenon
    <3>7. QED
      BY <3>3, <3>4, <3>5, <3>6, Zenon
  <2>5. CASE s[n + 1] \notin S
    <3>1. f[n + 1] = f[n]
      BY <2>3, <2>5
    <3>2. ToSet(f[n + 1]) = {s[k] : k \in 1..n + 1} \cap S
      BY <2>1, <2>2, <2>5, <3>1
    <3>3. \A x, y : Before(f[n + 1], x, y) =>
                       \E i, j \in 1..n + 1 : i < j /\ s[i] = x /\ s[j] = y
      BY <2>1, <3>1
    <3>4. f[n + 1] \in Seq(X) /\ Len(f[n + 1]) <= n + 1 /\ (Distinct(s) => Distinct(f[n + 1]))
      BY <2>1, <3>1
    <3>5. QED
      BY <3>2, <3>3, <3>4
  <2>6. QED
    BY <2>4, <2>5
<1>6. Nat \subseteq T
  <2> HIDE DEF T
  <2> QED BY <1>4, <1>5, NatBySteps
<1>7. Good(Len(s))
  <2>1. Len(s) \in Nat /\ Len(s) <= Len(s)
    OBVIOUS
  <2>2. QED
    BY <1>6, <2>1
<1>8. {s[k] : k \in 1..Len(s)} = ToSet(s)
  BY DEF ToSet
<1>9. \A x, y : Before(Only(s, S), x, y) => Before(s, x, y)
  BY <1>2, <1>7 DEF Before
<1>10. QED
  BY <1>2, <1>7, <1>8, <1>9

\* InsertAt puts one member in.
LEMMA InsertIs ==
  ASSUME NEW X, NEW s \in Seq(X), NEW x \in X, NEW i \in 1..Len(s) + 1
  PROVE  /\ InsertAt(s, i, x) \in Seq(X)
         /\ ToSet(InsertAt(s, i, x)) = ToSet(s) \cup {x}
         /\ Distinct(s) /\ x \notin ToSet(s) => Distinct(InsertAt(s, i, x))
         /\ \A y, z : Before(InsertAt(s, i, x), y, z) /\ x \notin {y, z} => Before(s, y, z)
         /\ \A y : Before(InsertAt(s, i, x), y, x) /\ x \notin ToSet(s) =>
                     \E k \in 1..i - 1 : s[k] = y
         /\ \A y : Before(InsertAt(s, i, x), x, y) /\ x \notin ToSet(s) =>
                     \E k \in i..Len(s) : s[k] = y
<1> DEFINE t == InsertAt(s, i, x)
<1>1. Len(s) \in Nat /\ i \in Nat /\ i - 1 \in 0..Len(s)
  OBVIOUS
<1>2. /\ t \in Seq(X) /\ Len(t) = Len(s) + 1
      /\ \A k \in 1..Len(s) + 1 :
           t[k] = IF k < i THEN s[k] ELSE IF k = i THEN x ELSE s[k - 1]
  <2> DEFINE u == SubSeq(s, 1, i - 1)
             v == SubSeq(s, i, Len(s))
  <2>1. u \in Seq(X) /\ Len(u) = i - 1 /\ \A k \in 1..i - 1 : u[k] = s[k]
    BY <1>1
  <2>2. v \in Seq(X) /\ Len(v) = Len(s) - i + 1 /\ \A k \in 1..Len(s) - i + 1 : v[k] = s[k + i - 1]
    BY <1>1
  <2>3. t = (u \o <<x>>) \o v
    BY DEF InsertAt
  <2> HIDE DEF u, v, t
  <2> DEFINE w == u \o <<x>>
  <2>4. w \in Seq(X) /\ Len(w) = i /\ \A k \in 1..i : w[k] = IF k < i THEN s[k] ELSE x
    BY <1>1, <2>1
  <2>5. t = w \o v
    BY <2>3
  <2> HIDE DEF w
  <2>6. t \in Seq(X) /\ Len(t) = Len(s) + 1
    <3>1. t \in Seq(X) /\ Len(t) = Len(w) + Len(v)
      BY <2>2, <2>4, <2>5
    <3>2. QED
      BY <1>1, <2>2, <2>4, <3>1
  <2>7. ASSUME NEW k \in 1..Len(s) + 1
        PROVE  t[k] = IF k < i THEN s[k] ELSE IF k = i THEN x ELSE s[k - 1]
    <3>1. CASE k <= i
      BY <1>1, <2>2, <2>4, <2>5, <3>1
    <3>2. CASE k > i
      <4>1. t[k] = v[k - i]
        BY <1>1, <2>2, <2>4, <2>5, <3>2
      <4>2. k - i \in 1..Len(s) - i + 1 /\ (k - i) + i - 1 = k - 1
        BY <1>1, <3>2
      <4>3. QED
        BY <1>1, <2>2, <3>2, <4>1, <4>2
    <3>3. QED
      BY <1>1, <3>1, <3>2
  <2>8. QED
    BY <2>6, <2>7
<1> HIDE DEF t
<1>3. DOMAIN t = 1..Len(s) + 1 /\ DOMAIN s = 1..Len(s)
  BY <1>2
<1>4. ToSet(t) \subseteq ToSet(s) \cup {x}
  <2> SUFFICES ASSUME NEW k \in 1..Len(s) + 1 PROVE t[k] \in ToSet(s) \cup {x}
    BY <1>3 DEF ToSet
  <2>1. CASE k < i
    BY <1>1, <1>2, <1>3, <2>1 DEF ToSet
  <2>2. CASE k = i
    BY <1>2, <2>2
  <2>3. CASE k > i
    <3>1. k - 1 \in 1..Len(s)
      BY <1>1, <2>3
    <3>2. t[k] = s[k - 1]
      BY <1>1, <1>2, <2>3
    <3>3. QED
      BY <1>3, <3>1, <3>2 DEF ToSet
  <2>4. QED
    BY <1>1, <2>1, <2>2, <2>3
<1>5. ToSet(s) \cup {x} \subseteq ToSet(t)
  <2>1. x \in ToSet(t)
    BY <1>1, <1>2, <1>3 DEF ToSet
  <2>2. ASSUME NEW k \in 1..Len(s) PROVE s[k] \in ToSet(t)
    <3>1. CASE k < i
      <4>1. k \in 1..Len(s) + 1 /\ t[k] = s[k]
        BY <1>1, <1>2, <3>1
      <4>2. QED
        BY <1>3, <4>1 DEF ToSet
    <3>2. CASE k >= i
      <4>1. k + 1 \in 1..Len(s) + 1 /\ ~(k + 1 < i) /\ k + 1 # i /\ (k + 1) - 1 = k
        BY <1>1, <3>2
      <4>2. t[k + 1] = s[k]
        BY <1>2, <4>1
      <4>3. QED
        BY <1>3, <4>1, <4>2 DEF ToSet
    <3>3. QED
      BY <1>1, <3>1, <3>2
  <2>3. QED
    BY <1>3, <2>1, <2>2 DEF ToSet
<1>6. ASSUME Distinct(s), x \notin ToSet(s) PROVE Distinct(t)
  <2> SUFFICES ASSUME NEW k \in 1..Len(s) + 1, NEW l \in 1..Len(s) + 1, t[k] = t[l]
               PROVE  k = l
    BY <1>3 DEF Distinct
  <2> DEFINE back(n) == IF n < i THEN n ELSE n - 1
  <2>1. \A n \in 1..Len(s) : s[n] # x
    BY <1>3, <1>6 DEF ToSet
  <2>2. \A n \in 1..Len(s) + 1 : n # i => back(n) \in 1..Len(s) /\ t[n] = s[back(n)]
    BY <1>1, <1>2
  <2>3. t[i] = x
    BY <1>1, <1>2
  <2>4. CASE k # i /\ l # i
    <3>1. back(k) = back(l)
      BY <1>3, <1>6, <2>2, <2>4 DEF Distinct
    <3>2. QED
      BY <1>1, <2>4, <3>1
  <2>5. QED
    BY <2>1, <2>2, <2>3, <2>4
<1> DEFINE back(n) == IF n < i THEN n ELSE n - 1
<1>7. \A n \in 1..Len(s) + 1 : n # i => back(n) \in 1..Len(s) /\ t[n] = s[back(n)]
  BY <1>1, <1>2
<1>8. t[i] = x
  BY <1>1, <1>2
<1>9. ASSUME NEW y, NEW z, Before(t, y, z), x \notin {y, z} PROVE Before(s, y, z)
  <2>1. PICK k \in 1..Len(s) + 1, l \in 1..Len(s) + 1 : k < l /\ t[k] = y /\ t[l] = z
    BY <1>3, <1>9 DEF Before
  <2>2. k # i /\ l # i
    BY <1>8, <1>9, <2>1
  <2>3. back(k) \in 1..Len(s) /\ back(l) \in 1..Len(s) /\ s[back(k)] = y /\ s[back(l)] = z
    BY <1>7, <2>1, <2>2
  <2>4. back(k) < back(l)
    BY <1>1, <2>1, <2>2
  <2> HIDE DEF back
  <2>5. QED
    BY <1>3, <2>3, <2>4 DEF Before
<1>10. ASSUME NEW y, Before(t, y, x), x \notin ToSet(s) PROVE \E k \in 1..i - 1 : s[k] = y
  <2>1. PICK k \in 1..Len(s) + 1, l \in 1..Len(s) + 1 : k < l /\ t[k] = y /\ t[l] = x
    BY <1>3, <1>10 DEF Before
  <2>2. l = i
    BY <1>3, <1>7, <1>10, <2>1 DEF ToSet
  <2>3. back(k) = k /\ k \in 1..i - 1
    BY <1>1, <2>1, <2>2
  <2>4. s[k] = y
    BY <1>7, <2>1, <2>2, <2>3
  <2>5. QED
    BY <2>3, <2>4
<1>11. ASSUME NEW y, Before(t, x, y), x \notin ToSet(s) PROVE \E k \in i..Len(s) : s[k] = y
  <2>1. PICK k \in 1..Len(s) + 1, l \in 1..Len(s) + 1 : k < l /\ t[k] = x /\ t[l] = y
    BY <1>3, <1>11 DEF Before
  <2>2. k = i
    BY <1>3, <1>7, <1>11, <2>1 DEF ToSet
  <2>3. back(l) = l - 1 /\ l - 1 \in i..Len(s)
    BY <1>1, <2>1, <2>2
  <2>4. s[l - 1] = y
    BY <1>7, <2>1, <2>2, <2>3
  <2>5. QED
    BY <2>3, <2>4
<1>12. QED
  BY <1>2, <1>4, <1>5, <1>6, <1>9, <1>10, <1>11 DEF t

\* The members of a sequence are no more than its length, and as many when none
\* is repeated.
LEMMA MembersCount ==
  ASSUME NEW X, NEW s \in Seq(X)
  PROVE  /\ IsFiniteSet(ToSet(s))
         /\ Cardinality(ToSet(s)) \in 0..Len(s)
         /\ Distinct(s) => Cardinality(ToSet(s)) = Len(s)
<1>1. Len(s) \in Nat /\ DOMAIN s = 1..Len(s)
  OBVIOUS
<1> DEFINE upTo(n) == {s[k] : k \in 1..n}
           Good(n) == /\ IsFiniteSet(upTo(n)) /\ Cardinality(upTo(n)) \in 0..n
                      /\ Distinct(s) => Cardinality(upTo(n)) = n
           T == {n \in Nat : n <= Len(s) => Good(n)}
<1>2. 0 \in T
  <2>1. upTo(0) = {}
    OBVIOUS
  <2> HIDE DEF upTo
  <2>2. IsFiniteSet(upTo(0)) /\ Cardinality(upTo(0)) = 0
    BY <2>1, FS_EmptySet
  <2>3. QED
    BY <2>2
<1>3. ASSUME NEW n \in Nat, n \in T PROVE n + 1 \in T
  <2> SUFFICES ASSUME n + 1 <= Len(s) PROVE Good(n + 1)
    OBVIOUS
  <2>1. Good(n)
    BY <1>1, <1>3
  <2>2. upTo(n + 1) = upTo(n) \cup {s[n + 1]}
    OBVIOUS
  <2>3. Distinct(s) => s[n + 1] \notin upTo(n)
    BY <1>1 DEF Distinct
  <2> HIDE DEF upTo
  <2>4. /\ IsFiniteSet(upTo(n + 1))
        /\ s[n + 1] \notin upTo(n) => Cardinality(upTo(n + 1)) = Cardinality(upTo(n)) + 1
        /\ s[n + 1] \in upTo(n) => Cardinality(upTo(n + 1)) = Cardinality(upTo(n))
    <3> DEFINE U == upTo(n)
    <3>1. IsFiniteSet(U) /\ upTo(n + 1) = U \cup {s[n + 1]}
      BY <2>1, <2>2
    <3> HIDE DEF U
    <3>2. /\ IsFiniteSet(upTo(n + 1))
          /\ s[n + 1] \notin U => Cardinality(upTo(n + 1)) = Cardinality(U) + 1
          /\ s[n + 1] \in U => Cardinality(upTo(n + 1)) = Cardinality(U)
      BY <3>1, FS_AddElement
    <3>3. QED
      BY <3>2 DEF U
  <2>5. Cardinality(upTo(n)) \in Nat
    BY <2>1
  <2>6. QED
    BY <2>1, <2>3, <2>4, <2>5
<1>4. Nat \subseteq T
  <2> HIDE DEF T
  <2> QED BY <1>2, <1>3, NatBySteps
<1>5. Good(Len(s))
  <2> HIDE DEF Good
  <2>1. Len(s) \in Nat /\ Len(s) <= Len(s)
    BY <1>1
  <2>2. QED
    BY <1>4, <2>1
<1>6. upTo(Len(s)) = ToSet(s)
  BY <1>1 DEF ToSet
<1>7. QED
  BY <1>5, <1>6

\* A piece of a sequence without repetitions has as many members as places.
LEMMA PieceCount ==
  ASSUME NEW X, NEW s \in Seq(X), Distinct(s), NEW m \in 1..Len(s) + 1, NEW n \in 0..Len(s),
         m <= n + 1
  PROVE  /\ IsFiniteSet({s[k] : k \in m..n})
         /\ Cardinality({s[k] : k \in m..n}) = n - m + 1
<1> DEFINE t == SubSeq(s, m, n)
<1>1. Len(s) \in Nat /\ m \in Nat /\ n \in Nat /\ n - m + 1 \in Nat
  OBVIOUS
<1>2. t \in Seq(X) /\ Len(t) = n - m + 1 /\ \A k \in 1..n - m + 1 : t[k] = s[k + m - 1]
  BY <1>1
<1> HIDE DEF t
<1>3. DOMAIN t = 1..n - m + 1 /\ DOMAIN s = 1..Len(s)
  BY <1>2
<1>4. Distinct(t)
  <2> SUFFICES ASSUME NEW k \in 1..n - m + 1, NEW l \in 1..n - m + 1, t[k] = t[l]
               PROVE  k = l
    BY <1>3 DEF Distinct
  <2>1. k + m - 1 \in 1..Len(s) /\ l + m - 1 \in 1..Len(s)
    BY <1>1
  <2>2. k + m - 1 = l + m - 1
    BY <1>2, <1>3, <2>1 DEF Distinct
  <2>3. QED
    BY <1>1, <2>2
<1>5. ToSet(t) = {s[k] : k \in m..n}
  <2>1. ASSUME NEW k \in 1..n - m + 1 PROVE t[k] \in {s[j] : j \in m..n}
    <3>1. k + m - 1 \in m..n
      BY <1>1
    <3>2. QED
      BY <1>2, <3>1
  <2>2. ASSUME NEW k \in m..n PROVE s[k] \in ToSet(t)
    <3>1. k - m + 1 \in 1..n - m + 1 /\ (k - m + 1) + m - 1 = k
      BY <1>1
    <3>2. t[k - m + 1] = s[k]
      BY <1>2, <3>1
    <3>3. QED
      BY <1>3, <3>1, <3>2 DEF ToSet
  <2>3. QED
    BY <1>3, <2>1, <2>2 DEF ToSet
<1>6. QED
  BY <1>2, <1>4, <1>5, MembersCount

\* Members that come first in a sequence take its first places; members that come
\* last, its last.
LEMMA HeadPlaces ==
  ASSUME NEW X, NEW s \in Seq(X), Distinct(s), NEW G, G \subseteq ToSet(s),
         \A x, y : Before(s, x, y) /\ y \in G => x \in G, NEW k \in 1..Len(s),
         k <= Cardinality(G)
  PROVE  s[k] \in G
<1> SUFFICES ASSUME s[k] \notin G PROVE FALSE
  OBVIOUS
<1>0. PICK n \in 0..Len(s) : k = n + 1
  <2>1. k - 1 \in 0..Len(s) /\ k = (k - 1) + 1
    OBVIOUS
  <2>2. QED
    BY <2>1
<1> DEFINE piece == {s[j] : j \in 1..n}
<1>1. /\ Len(s) \in Nat /\ DOMAIN s = 1..Len(s) /\ k = n + 1
      /\ 1 \in 1..Len(s) + 1 /\ 1 <= n + 1 /\ n - 1 + 1 = n
  BY <1>0
<1>2. G \subseteq piece
  <2> SUFFICES ASSUME NEW j \in 1..Len(s), s[j] \in G PROVE j \in 1..n
    BY <1>1 DEF ToSet
  <2>1. ~(k < j)
    BY <1>1 DEF Before
  <2>2. j # k
    OBVIOUS
  <2>3. QED
    BY <1>1, <2>1, <2>2
<1>3. IsFiniteSet(piece) /\ Cardinality(piece) = n
  <2>1. Cardinality(piece) = n - 1 + 1 /\ IsFiniteSet(piece)
    <3>1. 1 \in 1..Len(s) + 1 /\ 1 <= n + 1
      BY <1>1
    <3>2. QED
      BY <3>1, PieceCount
  <2>2. QED
    BY <1>1, <2>1
<1> HIDE DEF piece
<1>4. Cardinality(G) <= n /\ Cardinality(G) \in Nat
  BY <1>2, <1>3, FS_Subset, FS_CardinalityType
<1>5. QED
  BY <1>1, <1>4

LEMMA TailPlaces ==
  ASSUME NEW X, NEW s \in Seq(X), Distinct(s), NEW F, F \subseteq ToSet(s),
         \A x, y : Before(s, x, y) /\ x \in F => y \in F, NEW k \in 1..Len(s)
  PROVE  s[k] \in F <=> k > Len(s) - Cardinality(F)
<1>1. Len(s) \in Nat /\ DOMAIN s = 1..Len(s) /\ k \in Nat
  OBVIOUS
<1>2. IsFiniteSet(F) /\ Cardinality(F) \in Nat
  <2>1. IsFiniteSet(ToSet(s))
    BY MembersCount
  <2>2. QED
    BY <2>1, FS_Subset, FS_CardinalityType
<1>3. CASE s[k] \in F
  <2> DEFINE piece == {s[j] : j \in k..Len(s)}
  <2>1. piece \subseteq F
    <3> SUFFICES ASSUME NEW j \in k..Len(s) PROVE s[j] \in F
      OBVIOUS
    <3>1. CASE j = k
      BY <1>3, <3>1
    <3>2. CASE j # k
      <4>1. Before(s, s[k], s[j])
        BY <1>1, <3>2 DEF Before
      <4>2. QED
        BY <1>3, <4>1
    <3>3. QED
      BY <3>1, <3>2
  <2>2. Cardinality(piece) = Len(s) - k + 1
    <3>1. k \in 1..Len(s) + 1 /\ Len(s) \in 0..Len(s) /\ k <= Len(s) + 1
      BY <1>1
    <3>2. QED
      BY <3>1, PieceCount
  <2> HIDE DEF piece
  <2>3. Cardinality(piece) <= Cardinality(F)
    BY <1>2, <2>1, FS_Subset
  <2>4. QED
    BY <1>1, <1>2, <1>3, <2>2, <2>3
<1>4. CASE s[k] \notin F
  <2>0. PICK m \in 1..Len(s) + 1 : m = k + 1
    <3>1. k + 1 \in 1..Len(s) + 1
      OBVIOUS
    <3>2. QED
      BY <3>1
  <2> DEFINE piece == {s[j] : j \in m..Len(s)}
  <2>1. F \subseteq piece
    <3> SUFFICES ASSUME NEW j \in 1..Len(s), s[j] \in F PROVE j \in m..Len(s)
      BY <1>1 DEF ToSet
    <3>1. ~(j < k)
      BY <1>1, <1>4 DEF Before
    <3>2. j # k
      BY <1>4
    <3>3. QED
      BY <1>1, <2>0, <3>1, <3>2
  <2>2. IsFiniteSet(piece) /\ Cardinality(piece) = Len(s) - k
    <3>1. IsFiniteSet(piece) /\ Cardinality(piece) = Len(s) - m + 1
      <4>1. Len(s) \in 0..Len(s) /\ m <= Len(s) + 1
        BY <1>1, <2>0
      <4>2. QED
        BY <4>1, PieceCount
    <3>2. QED
      BY <1>1, <2>0, <3>1
  <2> HIDE DEF piece
  <2>3. Cardinality(F) <= Cardinality(piece)
    BY <2>1, <2>2, FS_Subset
  <2>4. QED
    BY <1>1, <1>2, <1>4, <2>2, <2>3
<1>5. QED
  BY <1>3, <1>4

\* In a sequence without repetitions, one of two members is before the other.
LEMMA OneBefore ==
  ASSUME NEW s, Distinct(s), DOMAIN s \subseteq Nat
  PROVE  /\ \A x, y \in ToSet(s) : x = y \/ Before(s, x, y) \/ Before(s, y, x)
         /\ \A x, y : ~(Before(s, x, y) /\ Before(s, y, x))
         /\ \A x, y : Before(s, x, y) => x # y /\ x \in ToSet(s) /\ y \in ToSet(s)
<1>1. ASSUME NEW i \in DOMAIN s, NEW j \in DOMAIN s
      PROVE  s[i] = s[j] \/ Before(s, s[i], s[j]) \/ Before(s, s[j], s[i])
  BY <1>1 DEF Before
<1>2. \A x, y : ~(Before(s, x, y) /\ Before(s, y, x))
  BY DEF Before, Distinct
<1>3. \A x, y : Before(s, x, y) => x # y /\ x \in ToSet(s) /\ y \in ToSet(s)
  BY DEF Before, Distinct, ToSet
<1>4. QED
  BY <1>1, <1>2, <1>3 DEF ToSet

-----------------------------------------------------------------------------
\* The shape of the state, in parts. Type correctness needs two things more than
\* TypeOK says: no peer is parked twice, place by place, and a tick that is to
\* park or displace somebody knows whom.
RowsOK ==
  /\ rows \subseteq Addr /\ starred \subseteq rows
  /\ held \subseteq Addr /\ live \subseteq Addr

ClocksOK == since \in [Addr -> 0..MaxAge] /\ away \in [Addr -> 0..Grace]

ParkingOK ==
  /\ queue \in Seq(Addr) /\ Distinct(queue)
  /\ quiet \in [Addr -> {Never} \cup 0..MaxInterval]
  /\ fails \in [Addr -> 0..MaxFails]

TickOK == tick \in Ticks /\ (tick.next \in {"displace", "park"} => tick.target \in Addr)

Shape == RowsOK /\ ClocksOK /\ ParkingOK /\ TickOK

LEMMA ShapeGivesType == Shape => TypeOK
BY MembersCount DEF Shape, RowsOK, ClocksOK, ParkingOK, TickOK, TypeOK, Parked

LEMMA Ages == MaxAge \in Nat /\ Grace <= MaxAge /\ NewGrace <= MaxAge
<1>1. Grace \in Nat /\ NewGrace \in Nat
  BY NumberAssumption
<1>2. \E n \in {Grace, NewGrace} : \A m \in {Grace, NewGrace} : m <= n
  BY <1>1
<1>3. MaxAge \in {Grace, NewGrace} /\ \A m \in {Grace, NewGrace} : m <= MaxAge
  BY <1>2 DEF MaxAge, Longest
<1>4. QED
  BY <1>1, <1>3

LEMMA LaterStays ==
  ASSUME NEW max \in Nat, NEW n \in 0..max
  PROVE  Later(n, max) \in 0..max /\ Later(n, max) >= n
BY DEF Later

\* What happens to the parked peers: one more, some fewer, or the same.
LEMMA ParkFirstOK ==
  ASSUME ParkingOK, NEW a \in Addr, ParkFirst(a)
  PROVE  ParkingOK' /\ Parked' = Parked \cup {a}
<1> DEFINE rest == Only(queue, Addr \ {a})
           unprobed == {b \in ToSet(rest) : quiet[b] = Never}
<1>1. /\ rest \in Seq(Addr) /\ Distinct(rest)
      /\ ToSet(rest) = Parked \ {a} /\ Parked \subseteq Addr
  <2>1. Parked \subseteq Addr
    BY DEF ParkingOK, Parked, ToSet
  <2>2. QED
    BY <2>1, OnlyIs DEF ParkingOK, Parked
<1>2. PICK i \in 1..Cardinality(unprobed) + 1 : queue' = InsertAt(rest, i, a)
  BY DEF ParkFirst
<1>3. quiet' = [quiet EXCEPT ![a] = Never] /\ fails' = [fails EXCEPT ![a] = 0]
  BY DEF ParkFirst
<1> HIDE DEF rest
<1>4. i \in 1..Len(rest) + 1
  <2>0. Len(rest) \in Nat
    BY <1>1
  <2>1. IsFiniteSet(ToSet(rest)) /\ Cardinality(ToSet(rest)) \in 0..Len(rest)
    BY <1>1, MembersCount
  <2>2. Cardinality(unprobed) <= Cardinality(ToSet(rest)) /\ Cardinality(unprobed) \in Nat
    BY <2>1, FS_Subset, FS_CardinalityType
  <2> HIDE DEF unprobed
  <2>3. QED
    BY <2>0, <2>1, <2>2
<1>5. /\ queue' \in Seq(Addr) /\ Distinct(queue')
      /\ ToSet(queue') = ToSet(rest) \cup {a}
  BY <1>1, <1>2, <1>4, InsertIs
<1>6. quiet' \in [Addr -> {Never} \cup 0..MaxInterval] /\ fails' \in [Addr -> 0..MaxFails]
  BY <1>3, NumberAssumption DEF ParkingOK
<1>7. QED
  BY <1>1, <1>5, <1>6 DEF ParkingOK, Parked, Distinct

LEMMA UnparkOK ==
  ASSUME ParkingOK, NEW S \in SUBSET Addr, Unpark(S)
  PROVE  ParkingOK' /\ Parked' = Parked \ S
<1>1. /\ queue' \in Seq(Addr) /\ Distinct(queue')
      /\ ToSet(queue') = ToSet(queue) \cap (Addr \ S) /\ ToSet(queue) \subseteq Addr
  <2>1. ToSet(queue) \subseteq Addr
    BY DEF ParkingOK, ToSet
  <2>2. QED
    BY <2>1, OnlyIs DEF ParkingOK, Unpark
<1>2. quiet' \in [Addr -> {Never} \cup 0..MaxInterval] /\ fails' \in [Addr -> 0..MaxFails]
  BY NumberAssumption DEF ParkingOK, Unpark
<1>3. QED
  BY <1>1, <1>2 DEF ParkingOK, Parked, Distinct

LEMMA RequeueOK ==
  ASSUME ParkingOK, NEW a \in Addr, NEW n \in 0..MaxFails, Requeue(a, n)
  PROVE  ParkingOK' /\ Parked' = Parked
<1>1. CASE a \notin Parked
  BY <1>1 DEF Requeue, parking, ParkingOK, Parked, Distinct
<1>2. CASE a \in Parked
  <2> DEFINE rest == Only(queue, Addr \ {a})
             fresh == {b \in ToSet(rest) : quiet[b] = 0}
  <2>1. /\ rest \in Seq(Addr) /\ Distinct(rest)
        /\ ToSet(rest) = Parked \ {a} /\ Parked \subseteq Addr
    <3>1. Parked \subseteq Addr
      BY DEF ParkingOK, Parked, ToSet
    <3>2. QED
      BY <3>1, OnlyIs DEF ParkingOK, Parked
  <2>2. PICK i \in Len(rest) - Cardinality(fresh) + 1..Len(rest) + 1 : queue' = InsertAt(rest, i, a)
    BY <1>2 DEF Requeue
  <2>3. quiet' = [quiet EXCEPT ![a] = 0] /\ fails' = [fails EXCEPT ![a] = n]
    BY <1>2 DEF Requeue
  <2> HIDE DEF rest
  <2>4. i \in 1..Len(rest) + 1
    <3>0. Len(rest) \in Nat
      BY <2>1
    <3>1. IsFiniteSet(ToSet(rest)) /\ Cardinality(ToSet(rest)) \in 0..Len(rest)
      BY <2>1, MembersCount
    <3>2. Cardinality(fresh) <= Cardinality(ToSet(rest)) /\ Cardinality(fresh) \in Nat
      BY <3>1, FS_Subset, FS_CardinalityType
    <3> HIDE DEF fresh
    <3>3. QED
      BY <3>0, <3>1, <3>2
  <2>5. /\ queue' \in Seq(Addr) /\ Distinct(queue')
        /\ ToSet(queue') = ToSet(rest) \cup {a}
    BY <2>1, <2>2, <2>4, InsertIs
  <2>6. quiet' \in [Addr -> {Never} \cup 0..MaxInterval] /\ fails' \in [Addr -> 0..MaxFails]
    BY <2>3, NumberAssumption DEF ParkingOK
  <2>7. QED
    BY <1>2, <2>1, <2>5, <2>6 DEF ParkingOK, Parked, Distinct
<1>3. QED
  BY <1>1, <1>2

\* The peers a tick will knock on: some that are due, each once; and if one that
\* is due is not among them, they are as many as a tick may knock on, and come
\* before it in the queue.
LEMMA ChosenOK ==
  ASSUME NEW s \in Seq(Addr)
  PROVE  /\ Chosen(s) \in Seq(Addr)
         /\ Distinct(s) =>
              /\ Distinct(Chosen(s))
              /\ \A a \in ToSet(s) \cap Due : a \notin ToSet(Chosen(s)) =>
                   /\ Len(Chosen(s)) = ProbesPerTick
                   /\ \A b \in ToSet(Chosen(s)) : Before(s, b, a)
<1> DEFINE t == Only(s, Due)
           few == IF Len(t) < ProbesPerTick THEN Len(t) ELSE ProbesPerTick
           u == Chosen(s)
<1>1. /\ t \in Seq(Addr) /\ ToSet(t) = ToSet(s) \cap Due /\ (Distinct(s) => Distinct(t))
      /\ \A x, y : Before(t, x, y) => Before(s, x, y)
  BY OnlyIs
<1>2. u = SubSeq(t, 1, few)
  BY DEF Chosen, Few
<1> HIDE DEF t, u
<1>3. Len(t) \in Nat /\ few \in 0..Len(t)
  BY <1>1, NumberAssumption
<1>4. few = ProbesPerTick \/ few = Len(t)
  OBVIOUS
<1> HIDE DEF few
<1>5. u \in Seq(Addr) /\ Len(u) = few /\ \A k \in 1..few : u[k] = t[k]
  BY <1>1, <1>2, <1>3
<1>6. DOMAIN u = 1..few /\ DOMAIN t = 1..Len(t)
  BY <1>1, <1>5
<1>7. Distinct(s) => Distinct(u)
  BY <1>1, <1>3, <1>5, <1>6 DEF Distinct
<1>8. ASSUME NEW a \in ToSet(s) \cap Due, a \notin ToSet(u)
      PROVE  /\ Len(u) = ProbesPerTick
             /\ \A b \in ToSet(u) : Before(s, b, a)
  <2>1. PICK j \in 1..Len(t) : t[j] = a
    BY <1>1, <1>6 DEF ToSet
  <2>2. j \notin 1..few
    BY <1>5, <1>6, <1>8, <2>1 DEF ToSet
  <2>3. few = ProbesPerTick
    BY <1>3, <1>4, <2>2
  <2>4. ASSUME NEW k \in 1..few PROVE Before(t, u[k], a)
    <3>1. k \in 1..Len(t) /\ k < j /\ t[k] = u[k]
      BY <1>3, <1>5, <2>2
    <3>2. QED
      BY <1>6, <2>1, <3>1 DEF Before
  <2>5. QED
    BY <1>1, <1>5, <1>6, <2>3, <2>4 DEF ToSet
<1>9. QED
  BY <1>5, <1>7, <1>8 DEF u

-----------------------------------------------------------------------------
\* Every step leaves the shape. Most touch few of its parts.
LEMMA IdleTickOK == tick' = Idle => TickOK'
BY NumberAssumption DEF TickOK, Idle, Ticks, Passes

LEMMA RemoveRowOK ==
  ASSUME RowsOK, ClocksOK, NEW a \in Addr, RemoveRow(a), held' = held
  PROVE  RowsOK' /\ ClocksOK'
BY Ages, NumberAssumption DEF RowsOK, ClocksOK, RemoveRow

LEMMA EntersOK ==
  ASSUME Shape, NEW a \in Addr, NEW v \in Addr \cup {NoAddr}, NEW t \in Ticks, Enters(a, v, t)
  PROVE  Shape'
<1>1. RowsOK'
  BY DEF Shape, RowsOK, Enters
<1>2. ClocksOK'
  BY Ages DEF Shape, ClocksOK, Enters
<1>3. ParkingOK'
  BY UnparkOK DEF Shape, Enters
<1>4. TickOK'
  <2> DEFINE out == IF a \in rows \/ ~Full THEN NoAddr ELSE v
  <2>1. out \in Addr \cup {NoAddr} /\ (out = NoAddr \/ out \in Addr)
    OBVIOUS
  <2>2. tick' = [t EXCEPT !.joined = TRUE, !.target = out,
                          !.next = IF out = NoAddr THEN "go" ELSE "displace"]
    BY DEF Enters
  <2> HIDE DEF out
  <2>3. CASE out = NoAddr
    BY <2>1, <2>2, <2>3 DEF TickOK, Ticks
  <2>4. CASE out # NoAddr
    BY <2>1, <2>2, <2>4 DEF TickOK, Ticks
  <2>5. QED
    BY <2>3, <2>4
<1>5. QED
  BY <1>1, <1>2, <1>3, <1>4 DEF Shape

LEMMA ReadOK ==
  ASSUME RowsOK, TickOK, NEW measured \in SUBSET (rows \ live)
  PROVE  Read(tick, measured) \in Ticks
BY DEF RowsOK, TickOK, Ticks, Read, Evictable

\* Park changes the parked peers by the one who is parked, or not at all.
LEMMA ParkOK ==
  ASSUME Shape, Park
  PROVE  /\ tick.target \in Addr /\ ParkingOK'
         /\ IF tick.target \in tick.measured
            THEN ParkFirst(tick.target) /\ Parked' = Parked \cup {tick.target}
            ELSE UNCHANGED parking /\ Parked' = Parked
<1>1. tick.target \in Addr
  BY DEF Park, Shape, TickOK
<1>2. CASE tick.target \in tick.measured
  BY <1>1, <1>2, ParkFirstOK DEF Park, Shape
<1>3. CASE tick.target \notin tick.measured
  BY <1>1, <1>3 DEF Park, Shape, ParkingOK, parking, Parked, Distinct
<1>4. QED
  BY <1>1, <1>2, <1>3

\* The steps of a tick.
LEMMA TickStepShape == Shape /\ TickStep => Shape'
<1> SUFFICES ASSUME Shape, TickStep PROVE Shape'
  OBVIOUS
<1> USE DEF Shape
<1>0. tick \in Ticks
  BY DEF TickOK
<1>1. ASSUME UNCHANGED <<rows, starred, held, clocks, parking>>, live' \subseteq live, TickOK'
      PROVE  Shape'
  BY <1>1 DEF RowsOK, ClocksOK, ParkingOK, clocks, parking, Distinct
<1>2. CASE Begin
  <2>1. ToRetire \subseteq Addr
    BY DEF ToRetire, RowsOK
  <2>2. TickOK'
    <3>0. PICK measured \in SUBSET (rows \ live) :
            tick' = [Read(tick, measured) EXCEPT !.pass = "kick", !.todo = ToRetire]
      BY <1>2 DEF Begin
    <3> DEFINE t == Read(tick, measured)
    <3>1. t \in Ticks /\ t.next = "go"
      BY <1>2, ReadOK DEF Begin, In, Read, TickOK, Ticks
    <3>2. tick' = [t EXCEPT !.pass = "kick", !.todo = ToRetire]
      BY <3>0
    <3> HIDE DEF t
    <3>3. QED
      BY <2>1, <3>1, <3>2 DEF TickOK, Ticks, Passes
  <2>3. QED
    BY <1>1, <1>2, <2>2 DEF Begin
<1>3. CASE EndKick
  <2>1. tick' = [tick EXCEPT !.pass = "retire", !.kicks = 0] /\ tick.next = "go"
    BY <1>3 DEF EndKick, In
  <2>2. 0 \in 0..MaxKicks
    BY NumberAssumption
  <2>3. TickOK'
    BY <1>0, <2>1, <2>2 DEF TickOK, Ticks, Passes
  <2>4. QED
    BY <1>1, <1>3, <2>3 DEF EndKick
<1>4. CASE Park
  <2>2. ParkingOK'
    BY <1>4, ParkOK
  <2>3. TickOK'
    BY <1>4 DEF Park, TickOK, Ticks
  <2>4. QED
    BY <1>4, <2>2, <2>3 DEF Park, RowsOK, ClocksOK, clocks
<1>5. CASE EndRetire
  <2>1. PICK forgotten \in SUBSET (Parked \ (tick.retired \cap tick.measured)) : Unpark(forgotten)
    BY <1>5 DEF EndRetire
  <2>2. forgotten \in SUBSET Addr
    BY DEF ParkingOK, Parked, ToSet
  <2>3. ParkingOK'
    BY <2>1, <2>2, UnparkOK
  <2> DEFINE knocks == Chosen(queue')
             next(t) == [t EXCEPT !.pass = "revive", !.knocks = knocks, !.retired = {},
                                  !.next = IF knocks = <<>> THEN "go" ELSE "ask"]
  <2>0. PICK measured \in SUBSET (rows \ live) :
          tick' = next(IF tick.retired # {} THEN Read(tick, measured) ELSE tick)
    BY <1>5 DEF EndRetire
  <2> DEFINE t == IF tick.retired # {} THEN Read(tick, measured) ELSE tick
  <2>4. knocks \in Seq(Addr)
    BY <2>3, ChosenOK DEF ParkingOK
  <2>5. t \in Ticks
    BY <1>0, ReadOK
  <2>6. tick' = [t EXCEPT !.pass = "revive", !.knocks = knocks, !.retired = {},
                          !.next = IF knocks = <<>> THEN "go" ELSE "ask"]
    BY <2>0
  <2> HIDE DEF knocks, t
  <2>7. TickOK'
    BY <2>4, <2>5, <2>6 DEF TickOK, Ticks, Passes
  <2>8. QED
    BY <1>5, <2>3, <2>7 DEF EndRetire, RowsOK, ClocksOK, clocks
<1>6. CASE Ask
  <2>1. PICK knocks \in {<<>>, tick.knocks} :
          tick' = [tick EXCEPT !.next = "go", !.knocks = knocks]
    BY <1>6 DEF Ask
  <2>2. <<>> \in Seq(Addr) /\ tick.knocks \in Seq(Addr)
    BY <1>0 DEF Ticks
  <2>3. knocks \in Seq(Addr)
    BY <2>1, <2>2, Zenon
  <2>4. TickOK'
    BY <1>0, <2>1, <2>3 DEF TickOK, Ticks
  <2>5. QED
    BY <1>1, <1>6, <2>4 DEF Ask
<1>7. CASE Displace
  <2>1. tick.target \in Addr
    BY <1>7 DEF Displace, TickOK
  <2>2. RowsOK' /\ ClocksOK'
    BY <1>7, <2>1, RemoveRowOK DEF Displace
  <2>3. TickOK'
    BY <1>7, <2>1 DEF Displace, TickOK, Ticks
  <2>4. QED
    BY <1>7, <2>2, <2>3 DEF Displace, ParkingOK, parking, Distinct
<1>8. CASE EndRevive
  <2>1. TickOK'
    BY <1>8, IdleTickOK DEF EndRevive, In, TickOK, Ticks, Passes
  <2>2. QED
    BY <1>1, <1>8, <2>1 DEF EndRevive
<1>9. CASE EndPromote
  BY <1>1, <1>9, IdleTickOK DEF EndPromote
<1>10. ASSUME NEW a \in Addr, Kick(a) PROVE Shape'
  <2>1. tick.kicks + 1 \in 0..MaxKicks
    BY <1>0, <1>10, NumberAssumption DEF Kick, Ticks
  <2>2. tick' = [tick EXCEPT !.kicks = tick.kicks + 1] /\ tick.next = "go"
    BY <1>10 DEF Kick, In
  <2>3. TickOK'
    BY <1>0, <2>1, <2>2 DEF TickOK, Ticks
  <2>4. QED
    BY <1>1, <1>10, <2>3 DEF Kick
<1>11. ASSUME NEW a \in Addr, Retire(a) PROVE Shape'
  <2>1. RowsOK' /\ ClocksOK'
    BY <1>11, RemoveRowOK DEF Retire
  <2>2. TickOK'
    BY <1>11 DEF Retire, In, TickOK, Ticks
  <2>3. QED
    BY <1>11, <2>1, <2>2 DEF Retire, ParkingOK, parking, Distinct
<1>12. ASSUME NEW a \in Addr, NEW n \in 0..MaxFails, Knocking(a), Requeue(a, n), tick' = Knocked,
              UNCHANGED <<rows, starred, held, live, clocks>>
       PROVE  Shape'
  <2>1. ParkingOK'
    BY <1>12, RequeueOK
  <2>2. Tail(tick.knocks) \in Seq(Addr)
    BY <1>12 DEF Knocking, TickOK, Ticks
  <2>3. TickOK'
    BY <1>12, <2>2 DEF Knocking, Knocked, In, TickOK, Ticks
  <2>4. QED
    BY <1>12, <2>1, <2>3 DEF RowsOK, ClocksOK, clocks
<1>13. ASSUME NEW a \in Addr, ProbeFails(a) PROVE Shape'
  <2>1. (IF fails[a] < MaxFails THEN fails[a] + 1 ELSE MaxFails) \in 0..MaxFails
    BY NumberAssumption DEF ParkingOK
  <2>2. QED
    BY <1>12, <1>13, <2>1 DEF ProbeFails
<1>14. ASSUME NEW a \in Addr, StaysParked(a) PROVE Shape'
  BY <1>12, <1>14, NumberAssumption DEF StaysParked
<1>15. Replaced \subseteq Addr \cup {NoAddr}
  BY <1>0 DEF Replaced, Ticks
<1>16. ASSUME NEW a \in Addr, Revive(a) PROVE Shape'
  <2>1. Knocked \in Ticks
    <3>1. Tail(tick.knocks) \in Seq(Addr)
      BY <1>16 DEF Revive, Knocking, TickOK, Ticks
    <3>2. QED
      BY <1>0, <3>1 DEF Knocked, Ticks
  <2>2. QED
    BY <1>15, <1>16, <2>1, EntersOK DEF Revive
<1>17. ASSUME NEW a \in Addr, Promote(a) PROVE Shape'
  BY <1>0, <1>15, <1>17, EntersOK DEF Promote
<1>18. QED
  BY <1>2, <1>3, <1>4, <1>5, <1>6, <1>7, <1>8, <1>9, <1>10, <1>11, <1>13, <1>14, <1>16, <1>17
  DEF TickStep

LEMMA NextShape == Shape /\ [Next]_vars => Shape'
<1> SUFFICES ASSUME Shape, [Next]_vars PROVE Shape'
  OBVIOUS
<1> USE DEF Shape
<1>1. CASE TickStep
  BY <1>1, TickStepShape
<1>2. CASE Elapse
  <2>1. since' \in [Addr -> 0..MaxAge]
    BY <1>2, Ages, LaterStays DEF Elapse, ClocksOK
  <2>2. away' \in [Addr -> 0..Grace]
    BY <1>2, NumberAssumption, LaterStays DEF Elapse, ClocksOK
  <2>3. quiet' \in [Addr -> {Never} \cup 0..MaxInterval]
    BY <1>2, NumberAssumption, LaterStays DEF Elapse, ParkingOK
  <2>4. TickOK'
    BY <1>2 DEF Elapse, In, TickOK, Ticks, Passes
  <2>5. QED
    BY <1>2, <2>1, <2>2, <2>3, <2>4 DEF Elapse, RowsOK, ClocksOK, ParkingOK, Distinct
<1>3. CASE Abort
  BY <1>3, IdleTickOK DEF Abort, RowsOK, ClocksOK, ParkingOK, clocks, parking, Distinct
<1>4. ASSUME NEW a \in Addr, Connect(a) PROVE Shape'
  <2>1. away' \in [Addr -> 0..Grace]
    BY <1>4, NumberAssumption DEF Connect, ClocksOK
  <2>2. QED
    BY <1>4, <2>1 DEF Connect, RowsOK, ClocksOK, ParkingOK, TickOK, parking, Distinct
<1>5. ASSUME NEW a \in Addr, Disconnect(a) PROVE Shape'
  BY <1>5 DEF Disconnect, RowsOK, ClocksOK, ParkingOK, TickOK, clocks, parking, Distinct
<1>6. ASSUME NEW a \in Addr, HandAdd(a) PROVE Shape'
  <2>1. ParkingOK'
    BY <1>6, UnparkOK DEF HandAdd
  <2>2. ClocksOK'
    BY <1>6, Ages DEF HandAdd, ClocksOK
  <2>3. RowsOK'
    BY <1>6 DEF HandAdd, RowsOK
  <2>4. QED
    BY <1>6, <2>1, <2>2, <2>3 DEF HandAdd, TickOK
<1>7. ASSUME NEW a \in Addr, HandRemove(a) PROVE Shape'
  <2>1. RowsOK' /\ ClocksOK'
    BY <1>7, RemoveRowOK DEF HandRemove
  <2>2. QED
    BY <1>7, <2>1 DEF HandRemove, ParkingOK, TickOK, parking, Distinct
<1>8. ASSUME NEW a \in Addr, SetKept(a) PROVE Shape'
  BY <1>8 DEF SetKept, RowsOK, ClocksOK, ParkingOK, TickOK, clocks, parking, Distinct
<1>9. CASE UNCHANGED vars
  BY <1>9 DEF vars, RowsOK, ClocksOK, ParkingOK, TickOK, clocks, parking, Distinct
<1>10. QED
  BY <1>1, <1>2, <1>3, <1>4, <1>5, <1>6, <1>7, <1>8, <1>9 DEF Next, Person

LEMMA InitShape == Init => Shape
<1> SUFFICES ASSUME Init PROVE Shape
  OBVIOUS
<1>1. TickOK
  BY NumberAssumption DEF Init, TickOK, Idle, Ticks, Passes
<1>2. ClocksOK
  BY Ages, NumberAssumption DEF Init, ClocksOK
<1>3. RowsOK /\ ParkingOK
  BY NumberAssumption DEF Init, RowsOK, ParkingOK, Distinct
<1>4. QED
  BY <1>1, <1>2, <1>3 DEF Shape

\* Type correctness of the rotation: a star sits on a row, no clock passes its
\* bound, and trusted_peer and parked_peer hold a peer once each - also while a
\* tick is parking, displacing or knocking and people and Core act in between.
THEOREM TypeCorrect == Spec => []TypeOK
<1>1. Spec => []Shape
  BY InitShape, NextShape, PTL DEF Spec
<1>2. QED
  BY <1>1, ShapeGivesType, PTL

-----------------------------------------------------------------------------
\* What is true of a tick and its memory at every point. Stages: what the tick
\* has in its hands in which pass.
Stages ==
  /\ tick.todo # {} => tick.pass \in {"kick", "retire"}
  /\ tick.next = "displace" =>
       tick.pass \in {"revive", "promote"} /\ tick.target \in tick.holders /\ tick.joined
  /\ tick.measured \cap tick.wasLive = {}
  /\ tick.pass \in {"idle", "due", "kick"} => tick.retired = {} /\ taken = {}

\* Nobody is let in before joined is set, and then it is one peer.
Joins == entered = {} \/ (tick.joined /\ \E a \in Addr : entered = {a})

\* The list of whom to retire stays true, and the stars stay off it and off the
\* list of whom to displace, but for what a person did since.
Graced == \A a \in tick.todo : since[a] >= Grace \/ a \in touched

Stars ==
  /\ \A a \in tick.todo : a \in starred \cap held => a \in touched
  /\ \A a \in tick.holders : a \in starred => a \in touched

\* Whom the tick has taken out is accounted for, or is just about to be parked. One
\* who is to be displaced was not taken out before, unless a person brought it back.
Parking == IF tick.next = "park" /\ tick.target \in tick.measured THEN {tick.target} ELSE {}

Back ==
  /\ tick.pass = "retire" =>
       /\ taken \subseteq tick.retired \cap tick.measured
       /\ taken \cap rows \subseteq touched
  /\ tick.pass \in {"revive", "promote"} /\ (~tick.joined \/ tick.next = "displace") =>
       taken \cap tick.holders \subseteq touched
  /\ tick.pass \in {"retire", "revive", "promote"} =>
       taken \subseteq rows \cup Parked \cup touched \cup Parking

Memo == Stages /\ Joins /\ Graced /\ Stars /\ Back

\* A tick that is over has nothing to remember.
LEMMA OverMemo == MemNext /\ tick' = Idle => Memo'
BY DEF MemNext, Idle, Memo, Stages, Joins, Graced, Stars, Back

\* Memory while a tick goes on: steps of the tick, and steps around it.
LEMMA Remembers ==
  ASSUME MemNext, tick' # Idle
  PROVE  /\ entered' \subseteq entered \cup Entering
         /\ taken' \subseteq taken \cup (Leaving \cap tick.measured)
         /\ touched \subseteq touched'
         /\ tick' = tick =>
              /\ entered' = entered /\ taken' = taken
              /\ Entering \cup Leaving \cup (starred' \ starred) \cup (held' \ held)
                   \subseteq touched'
BY DEF MemNext

LEMMA AroundMemo ==
  ASSUME Memo, MemNext, tick' # Idle, tick' = tick,
         \A a \in tick.todo : since'[a] = since[a] \/ a \in Entering \cup Leaving,
         Parked \subseteq Parked' \cup Entering
  PROVE  Memo'
<1>1. /\ entered' = entered /\ taken' = taken /\ touched \subseteq touched'
      /\ Entering \cup Leaving \cup (starred' \ starred) \cup (held' \ held) \subseteq touched'
  BY Remembers
<1>2. Stages' /\ Joins'
  BY <1>1 DEF Memo, Stages, Joins
<1>3. Graced'
  BY <1>1 DEF Memo, Graced
<1>4. Stars'
  BY <1>1 DEF Memo, Stars
<1>5. rows \subseteq rows' \cup touched' /\ Parked \subseteq Parked' \cup touched'
  BY <1>1 DEF Leaving
<1>6. Parking' = Parking /\ taken' \cap rows' \subseteq (taken \cap rows) \cup touched'
  BY <1>1 DEF Parking, Entering
<1>7. Back'
  BY <1>1, <1>5, <1>6 DEF Memo, Back
<1>8. QED
  BY <1>2, <1>3, <1>4, <1>7 DEF Memo

\* A step of the tick that leaves rows, stars and parked peers alone, and the
\* lists of the tick too.
LEMMA IdlyMemo ==
  ASSUME Shape, Memo, MemNext, tick' # Idle,
         rows' = rows, starred' = starred, held' = held, since' = since, Parked' = Parked,
         tick'.pass = tick.pass, tick'.next = "go", tick.next \in {"go", "ask"},
         tick'.todo = tick.todo, tick'.retired = tick.retired, tick'.joined = tick.joined,
         tick'.wasLive = tick.wasLive, tick'.holders = tick.holders, tick'.measured = tick.measured
  PROVE  Memo'
<1>1. entered' \subseteq entered /\ taken' \subseteq taken /\ touched \subseteq touched'
  BY Remembers DEF Entering, Leaving
<1>2. Stages' /\ Joins'
  BY <1>1 DEF Memo, Stages, Joins
<1>3. Graced' /\ Stars'
  BY <1>1 DEF Memo, Graced, Stars
<1>4. Back'
  BY <1>1 DEF Memo, Back, Parking
<1>5. QED
  BY <1>2, <1>3, <1>4 DEF Memo

LEMMA BeginMemo == Shape /\ Memo /\ MemNext /\ tick' # Idle /\ Begin => Memo'
<1> SUFFICES ASSUME Shape, Memo, MemNext, tick' # Idle, Begin PROVE Memo'
  OBVIOUS
<1>1. entered' \subseteq entered /\ taken' \subseteq taken /\ touched \subseteq touched'
  BY Remembers DEF Begin, Entering, Leaving
<1>2. /\ tick'.pass = "kick" /\ tick'.next = "go" /\ tick'.todo = ToRetire
      /\ tick'.holders = Evictable /\ tick'.joined = tick.joined
      /\ tick'.retired = tick.retired /\ tick.pass = "due"
      /\ tick'.measured \cap tick'.wasLive = {}
  <2>1. tick \in Ticks
    BY DEF Shape, TickOK
  <2>2. /\ \E measured \in SUBSET (rows \ live) :
             tick' = [Read(tick, measured) EXCEPT !.pass = "kick", !.todo = ToRetire]
        /\ tick.pass = "due" /\ tick.next = "go"
    BY DEF Begin, In
  <2>3. QED
    BY <2>1, <2>2 DEF Read, Ticks
<1>3. Stages' /\ Joins'
  BY <1>1, <1>2 DEF Memo, Stages, Joins
<1>4. Graced'
  BY <1>2 DEF Graced, ToRetire, LongAway, Begin, clocks
<1>5. Stars'
  BY <1>2 DEF Stars, ToRetire, Evictable, Begin
<1>6. QED
  BY <1>2, <1>3, <1>4, <1>5 DEF Memo, Back

LEMMA EndKickMemo == Shape /\ Memo /\ MemNext /\ tick' # Idle /\ EndKick => Memo'
<1> SUFFICES ASSUME Shape, Memo, MemNext, tick' # Idle, EndKick PROVE Memo'
  OBVIOUS
<1>1. entered' \subseteq entered /\ taken' \subseteq taken /\ touched \subseteq touched'
  BY Remembers DEF EndKick, Entering, Leaving
<1>2. /\ tick'.pass = "retire" /\ tick'.next = "go" /\ tick'.todo = tick.todo
      /\ tick'.holders = tick.holders /\ tick'.joined = tick.joined
      /\ tick'.retired = tick.retired /\ tick.pass = "kick"
      /\ tick'.measured = tick.measured /\ tick'.wasLive = tick.wasLive
  BY DEF Shape, TickOK, EndKick, In, Ticks
<1>3. Stages' /\ Joins'
  BY <1>1, <1>2 DEF Memo, Stages, Joins
<1>4. Graced' /\ Stars'
  BY <1>1, <1>2 DEF Memo, Graced, Stars, EndKick, clocks
<1>5. Back'
  BY <1>1, <1>2 DEF Memo, Stages, Back
<1>6. QED
  BY <1>3, <1>4, <1>5 DEF Memo

LEMMA RetireMemo ==
  ASSUME Shape, Memo, MemNext, tick' # Idle, NEW a \in Addr, Retire(a)
  PROVE  Memo'
<1>1. /\ entered' \subseteq entered /\ taken' \subseteq taken \cup ({a} \cap tick.measured)
      /\ touched \subseteq touched' /\ rows' = rows \ {a}
  BY Remembers DEF Retire, RemoveRow, Entering, Leaving
<1>2. /\ tick'.pass = "retire" /\ tick'.next = "park" /\ tick'.target = a
      /\ tick'.todo = tick.todo \ {a} /\ tick'.holders = tick.holders
      /\ tick'.joined = tick.joined /\ tick'.retired = tick.retired \cup {a}
      /\ tick.pass = "retire" /\ tick.next = "go"
      /\ tick'.measured = tick.measured /\ tick'.wasLive = tick.wasLive
  BY DEF Shape, TickOK, Retire, In, Ticks
<1>3. Stages' /\ Joins'
  BY <1>1, <1>2 DEF Memo, Stages, Joins
<1>4. Graced'
  <2>1. \A b \in tick'.todo : b \in tick.todo /\ since'[b] = since[b]
    BY <1>2 DEF Retire, RemoveRow, Shape, ClocksOK, TickOK, Ticks
  <2>2. QED
    BY <1>1, <2>1 DEF Memo, Graced
<1>5. Stars'
  BY <1>1, <1>2 DEF Memo, Stars, Retire, RemoveRow
<1>6. Back'
  BY <1>1, <1>2 DEF Memo, Back, Parking, Retire, parking, Parked
<1>7. QED
  BY <1>3, <1>4, <1>5, <1>6 DEF Memo

LEMMA ParkMemo == Shape /\ Memo /\ MemNext /\ tick' # Idle /\ Park => Memo'
<1> SUFFICES ASSUME Shape, Memo, MemNext, tick' # Idle, Park PROVE Memo'
  OBVIOUS
<1>1. entered' \subseteq entered /\ taken' \subseteq taken /\ touched \subseteq touched'
  BY Remembers DEF Park, Entering, Leaving
<1>2. /\ tick'.pass = tick.pass /\ tick'.next = "go" /\ tick'.todo = tick.todo
      /\ tick'.holders = tick.holders /\ tick'.joined = tick.joined
      /\ tick'.retired = tick.retired /\ tick'.wasLive = tick.wasLive
      /\ tick'.measured = tick.measured /\ tick.next = "park"
  BY DEF Shape, TickOK, Park, Ticks
<1>3. Stages' /\ Joins'
  BY <1>1, <1>2 DEF Memo, Stages, Joins
<1>4. Graced' /\ Stars'
  BY <1>1, <1>2 DEF Memo, Graced, Stars, Park, clocks
<1>5. Parked' = Parked \cup Parking
  BY <1>2, ParkOK DEF Parking
<1>6. Back'
  BY <1>1, <1>2, <1>5 DEF Memo, Back, Parking, Park
<1>7. QED
  BY <1>3, <1>4, <1>6 DEF Memo

LEMMA EndRetireMemo == Shape /\ Memo /\ MemNext /\ tick' # Idle /\ EndRetire => Memo'
<1> SUFFICES ASSUME Shape, Memo, MemNext, tick' # Idle, EndRetire PROVE Memo'
  OBVIOUS
<1>1. entered' \subseteq entered /\ taken' \subseteq taken /\ touched \subseteq touched'
  BY Remembers DEF EndRetire, Entering, Leaving
<1>2. /\ tick'.pass = "revive" /\ tick'.next \in {"go", "ask"} /\ tick'.todo = {}
      /\ IF tick.retired # {} THEN tick'.holders = Evictable ELSE tick'.holders = tick.holders
      /\ tick'.measured \cap tick'.wasLive = {}
      /\ tick'.joined = tick.joined
      /\ tick'.retired = {} /\ tick.pass = "retire" /\ tick.next = "go"
  <2> DEFINE knocks == Chosen(queue')
             next(t) == [t EXCEPT !.pass = "revive", !.knocks = knocks, !.retired = {},
                                  !.next = IF knocks = <<>> THEN "go" ELSE "ask"]
  <2>0. PICK measured \in SUBSET (rows \ live) :
          tick' = next(IF tick.retired # {} THEN Read(tick, measured) ELSE tick)
    BY DEF EndRetire
  <2> DEFINE t == IF tick.retired # {} THEN Read(tick, measured) ELSE tick
  <2>1. tick \in Ticks
    BY DEF Shape, TickOK
  <2>2. /\ t \in Ticks /\ t.joined = tick.joined /\ t.todo = tick.todo
        /\ IF tick.retired # {} THEN t.holders = Evictable ELSE t.holders = tick.holders
        /\ t.measured \cap t.wasLive = {}
    BY <2>1, ReadOK DEF Read, Ticks, Shape, Memo, Stages
  <2>3. tick' = [t EXCEPT !.pass = "revive", !.knocks = knocks, !.retired = {},
                          !.next = IF knocks = <<>> THEN "go" ELSE "ask"]
        /\ tick.todo = {} /\ tick.pass = "retire" /\ tick.next = "go"
    BY <2>0 DEF EndRetire, In
  <2> HIDE DEF knocks, t
  <2>4. QED
    BY <2>2, <2>3 DEF Ticks
<1>3. Stages' /\ Joins'
  BY <1>1, <1>2 DEF Memo, Stages, Joins
<1>4. Graced' /\ Stars'
  BY <1>1, <1>2 DEF Memo, Graced, Stars, Evictable, EndRetire
<1>5. tick.retired \cap tick.measured \cap Parked \subseteq Parked'
  <2>1. PICK forgotten \in SUBSET (Parked \ (tick.retired \cap tick.measured)) : Unpark(forgotten)
    BY DEF EndRetire
  <2>2. forgotten \in SUBSET Addr
    BY DEF Shape, ParkingOK, Parked, ToSet
  <2>3. Parked' = Parked \ forgotten
    BY <2>1, <2>2, UnparkOK DEF Shape
  <2>4. QED
    BY <2>3
<1>6. /\ taken \subseteq tick.retired \cap tick.measured
      /\ taken \subseteq rows \cup Parked \cup touched /\ taken \cap rows \subseteq touched
  BY <1>2 DEF Memo, Back, Parking
<1>7. taken' \cap tick'.holders \subseteq touched'
  BY <1>1, <1>2, <1>6 DEF Evictable
<1>8. taken' \subseteq rows' \cup Parked' \cup touched'
  BY <1>1, <1>5, <1>6 DEF EndRetire
<1>9. Back'
  BY <1>2, <1>7, <1>8 DEF Back
<1>10. QED
  BY <1>3, <1>4, <1>9 DEF Memo

LEMMA DisplaceMemo == Shape /\ Memo /\ MemNext /\ tick' # Idle /\ Displace => Memo'
<1> SUFFICES ASSUME Shape, Memo, MemNext, tick' # Idle, Displace PROVE Memo'
  OBVIOUS
<1>1. /\ entered' \subseteq entered
      /\ taken' \subseteq taken \cup ({tick.target} \cap tick.measured)
      /\ touched \subseteq touched' /\ rows \subseteq rows' \cup {tick.target}
  BY Remembers DEF Displace, RemoveRow, Entering, Leaving
<1>2. /\ tick'.pass = tick.pass /\ tick'.todo = tick.todo /\ tick'.holders = tick.holders
      /\ tick'.joined = tick.joined /\ tick'.retired = tick.retired
      /\ tick'.wasLive = tick.wasLive /\ tick'.measured = tick.measured
      /\ tick.next = "displace"
      /\ \/ tick.target \in tick.wasLive /\ tick'.next = "go"
         \/ tick'.target = tick.target /\ tick'.next = "park"
  BY DEF Shape, TickOK, Displace, Ticks
<1>3. /\ tick.pass \in {"revive", "promote"} /\ tick.todo = {}
      /\ tick.joined /\ tick.target \in tick.holders /\ tick.measured \cap tick.wasLive = {}
  BY <1>2 DEF Memo, Stages
<1>4. Stages' /\ Joins'
  BY <1>1, <1>2, <1>3 DEF Memo, Stages, Joins
<1>5. Graced' /\ Stars'
  BY <1>1, <1>2, <1>3 DEF Memo, Graced, Stars, Displace, RemoveRow
<1>6. Back'
  BY <1>1, <1>2, <1>3 DEF Memo, Back, Parking, Displace, parking, Parked
<1>7. QED
  BY <1>4, <1>5, <1>6 DEF Memo

LEMMA EntersMemo ==
  ASSUME Shape, Memo, MemNext, tick' # Idle, NEW a \in Addr, NEW v \in Replaced, NEW t \in Ticks,
         Enters(a, v, t), tick.pass \in {"revive", "promote"}, tick.next = "go", ~tick.joined,
         t.pass = tick.pass, t.todo = tick.todo, t.retired = tick.retired,
         t.wasLive = tick.wasLive, t.holders = tick.holders, t.measured = tick.measured
  PROVE  Memo'
<1> DEFINE out == IF a \in rows \/ ~Full THEN NoAddr ELSE v
<1>1. out = NoAddr \/ out \in tick.holders
  BY DEF Replaced
<1>2. tick' = [t EXCEPT !.joined = TRUE, !.target = out,
                        !.next = IF out = NoAddr THEN "go" ELSE "displace"]
  BY DEF Enters
<1> HIDE DEF out
<1>3. /\ tick'.pass = tick.pass /\ tick'.todo = tick.todo /\ tick'.holders = tick.holders
      /\ tick'.joined /\ tick'.retired = tick.retired /\ tick'.wasLive = tick.wasLive
      /\ tick'.measured = tick.measured
      /\ tick'.next # "park" /\ (tick'.next = "displace" => tick'.target \in tick.holders)
  BY <1>1, <1>2 DEF Ticks
<1>4. rows' = rows \cup {a} /\ starred' = starred /\ tick.todo = {}
  BY DEF Enters, Memo, Stages
<1>5. /\ entered' \subseteq entered \cup {a} /\ entered = {}
      /\ taken' \subseteq taken /\ touched \subseteq touched'
  BY <1>4, Remembers DEF Entering, Leaving, Memo, Joins
<1>6. Parked' = Parked \ {a}
  BY UnparkOK DEF Shape, Enters
<1>7. Stages' /\ Joins'
  BY <1>3, <1>4, <1>5 DEF Memo, Stages, Joins
<1>8. Graced' /\ Stars'
  BY <1>3, <1>4, <1>5 DEF Memo, Graced, Stars
<1>9. Back'
  BY <1>3, <1>4, <1>5, <1>6 DEF Memo, Back, Parking
<1>10. QED
  BY <1>7, <1>8, <1>9 DEF Memo

LEMMA TickMemo ==
  ASSUME Shape, Memo, MemNext, tick' # Idle, TickStep
  PROVE  Memo'
<1>0. tick \in Ticks
  BY DEF Shape, TickOK
<1>1. CASE Ask
  BY <1>0, <1>1, IdlyMemo DEF Ask, Ticks, clocks, parking, Parked
<1>2. ASSUME NEW a \in Addr, Kick(a) PROVE Memo'
  BY <1>0, <1>2, IdlyMemo DEF Kick, In, Ticks, clocks, parking, Parked
<1>3. ASSUME NEW a \in Addr, NEW n \in 0..MaxFails, Knocking(a), Requeue(a, n), tick' = Knocked,
             UNCHANGED <<rows, starred, held, live, clocks>>
      PROVE  Memo'
  <2>1. Parked' = Parked
    BY <1>3, RequeueOK DEF Shape
  <2>2. QED
    BY <1>0, <1>3, <2>1, IdlyMemo DEF Knocking, Knocked, In, Ticks, clocks
<1>4. ASSUME NEW a \in Addr, ProbeFails(a) PROVE Memo'
  <2>1. (IF fails[a] < MaxFails THEN fails[a] + 1 ELSE MaxFails) \in 0..MaxFails
    BY NumberAssumption DEF Shape, ParkingOK
  <2>2. QED
    BY <1>3, <1>4, <2>1 DEF ProbeFails
<1>5. ASSUME NEW a \in Addr, StaysParked(a) PROVE Memo'
  BY <1>3, <1>5, NumberAssumption DEF StaysParked
<1>6. ASSUME NEW a \in Addr, Revive(a) PROVE Memo'
  <2>1. Tail(tick.knocks) \in Seq(Addr)
    BY <1>0, <1>6 DEF Revive, Knocking, Ticks
  <2>2. /\ Knocked \in Ticks /\ Knocked.pass = tick.pass /\ Knocked.todo = tick.todo
        /\ Knocked.retired = tick.retired /\ Knocked.wasLive = tick.wasLive
        /\ Knocked.holders = tick.holders /\ Knocked.measured = tick.measured
    BY <1>0, <2>1 DEF Knocked, Ticks
  <2>3. tick.pass = "revive" /\ tick.next = "go" /\ ~tick.joined
    BY <1>6 DEF Revive, Knocking, In
  <2>4. PICK v \in Replaced : Enters(a, v, Knocked)
    BY <1>6 DEF Revive
  <2>5. QED
    BY <2>2, <2>3, <2>4, EntersMemo
<1>7. ASSUME NEW a \in Addr, Promote(a) PROVE Memo'
  BY <1>0, <1>7, EntersMemo DEF Promote, In
<1>8. CASE EndRevive
  <2>1. entered' \subseteq entered /\ taken' \subseteq taken /\ touched \subseteq touched'
    BY <1>8, Remembers DEF EndRevive, Entering, Leaving
  <2>2. /\ tick'.pass = "promote" /\ tick'.next = "go" /\ tick'.todo = tick.todo
        /\ tick'.holders = tick.holders /\ tick'.joined = tick.joined
        /\ tick'.retired = tick.retired /\ tick'.wasLive = tick.wasLive
        /\ tick'.measured = tick.measured
        /\ tick.pass = "revive" /\ tick.next = "go"
    BY <1>0, <1>8 DEF EndRevive, In, Ticks
  <2>3. Stages' /\ Joins'
    BY <2>1, <2>2 DEF Memo, Stages, Joins
  <2>4. Graced' /\ Stars'
    BY <1>8, <2>1, <2>2 DEF Memo, Graced, Stars, EndRevive, clocks
  <2>5. Back'
    BY <1>8, <2>1, <2>2 DEF Memo, Back, Parking, EndRevive, parking, Parked
  <2>6. QED
    BY <2>3, <2>4, <2>5 DEF Memo
<1>9. CASE EndPromote
  BY <1>9 DEF EndPromote
<1>10. QED
  BY <1>1, <1>2, <1>4, <1>5, <1>6, <1>7, <1>8, <1>9, BeginMemo, EndKickMemo, RetireMemo,
     ParkMemo, EndRetireMemo, DisplaceMemo
  DEF TickStep

LEMMA NextMemo == Shape /\ Memo /\ [MemNext]_<<vars, memory>> => Memo'
<1>0. CASE UNCHANGED <<vars, memory>>
  BY <1>0 DEF vars, memory, Memo, Stages, Joins, Graced, Stars, Back, Parking, Parked
<1> SUFFICES ASSUME Shape, Memo, MemNext, tick' # Idle PROVE Memo'
  BY <1>0, OverMemo
<1>1. CASE TickStep
  BY <1>1, TickMemo
<1>2. CASE Elapse
  <2>1. entered' \subseteq entered /\ taken' \subseteq taken /\ touched \subseteq touched'
    BY <1>2, Remembers DEF Elapse, Entering, Leaving
  <2>2. /\ tick'.pass = "due" /\ tick'.next = "go" /\ tick'.todo = tick.todo
        /\ tick'.holders = tick.holders /\ tick'.joined = tick.joined
        /\ tick'.retired = tick.retired /\ tick.pass = "idle"
        /\ tick'.measured = tick.measured /\ tick'.wasLive = tick.wasLive
    BY <1>2 DEF Shape, TickOK, Elapse, In, Ticks
  <2>3. Stages' /\ Joins' /\ tick.todo = {}
    BY <2>1, <2>2 DEF Memo, Stages, Joins
  <2>4. Graced' /\ Stars'
    BY <1>2, <2>1, <2>2, <2>3 DEF Memo, Graced, Stars, Elapse
  <2>5. QED
    BY <2>2, <2>3, <2>4 DEF Memo, Back
<1>3. CASE Abort
  BY <1>3 DEF Abort
<1>4. ASSUME NEW a \in Addr, Connect(a) \/ Disconnect(a) \/ SetKept(a) PROVE Memo'
  BY <1>4, AroundMemo DEF Connect, Disconnect, SetKept, clocks, parking, Parked
<1>5. ASSUME NEW a \in Addr, HandAdd(a) PROVE Memo'
  <2>1. Parked' = Parked \ {a}
    BY <1>5, UnparkOK DEF Shape, HandAdd
  <2>2. a \in Entering /\ tick' = tick
    BY <1>5 DEF HandAdd, Entering
  <2>3. \A b \in tick.todo : since'[b] = since[b] \/ b = a
    BY <1>5 DEF HandAdd, Shape, ClocksOK, TickOK, Ticks
  <2>4. QED
    BY <2>1, <2>2, <2>3, AroundMemo
<1>6. ASSUME NEW a \in Addr, HandRemove(a) PROVE Memo'
  <2>1. a \in Leaving /\ tick' = tick /\ Parked' = Parked
    BY <1>6 DEF HandRemove, RemoveRow, Leaving, parking, Parked
  <2>2. \A b \in tick.todo : since'[b] = since[b] \/ b = a
    BY <1>6 DEF HandRemove, RemoveRow, Shape, ClocksOK, TickOK, Ticks
  <2>3. QED
    BY <2>1, <2>2, AroundMemo
<1>7. QED
  BY <1>1, <1>2, <1>3, <1>4, <1>5, <1>6 DEF MemNext, Next, Person

LEMMA MemoHolds == MemSpec => [](Shape /\ Memo)
<1>1. MemInit => Shape /\ Memo
  BY InitShape DEF MemInit, Init, Idle, Memo, Stages, Joins, Graced, Stars, Back
<1>2. Shape /\ [MemNext]_<<vars, memory>> => Shape'
  BY NextShape DEF MemNext, vars, memory
<1>3. (Shape /\ Memo) /\ [MemNext]_<<vars, memory>> => (Shape /\ Memo)'
  BY <1>2, NextMemo
<1>4. QED
  BY <1>1, <1>3, PTL DEF MemSpec

\* One peer joins the manual set per tick at most, revived or promoted, whoever
\* else comes and goes meanwhile (tick: promoteBestCandidate runs only when
\* reviveParkedPeers let nobody in).
THEOREM JoinsOnce == MemSpec => []OneJoin
<1>1. Joins => OneJoin
  BY FS_EmptySet, FS_Singleton, SMTT(30) DEF Joins, OneJoin
<1>2. QED
  BY <1>1, MemoHolds, PTL DEF Memo

\* A tick retires only a peer that had its slot for the whole grace, for any
\* grace, though the list it goes by was made before its first await: the slots
\* that changed hands since are those a person had a hand in (offlineForMs,
\* retireOfflineManualPeers).
THEOREM GraceKept == MemSpec => GraceHonoured
<1>1. Memo => \A a \in Addr : Retire(a) => since[a] >= Grace \/ a \in touched
  BY DEF Memo, Graced, Retire
<1>2. QED
  BY <1>1, MemoHolds, PTL DEF GraceHonoured, MemSpec

\* A star holds for the whole of a tick: neither the retirement nor the swap takes
\* a starred peer that Core has held, unless the star or the session came after
\* the ranking was read (evictableTrusted, retireOfflineManualPeers).
THEOREM StarsKept == MemSpec => StarHolds
<1>1. ASSUME Shape, Memo, MemNext, NEW a \in starred \cap held, a \notin rows', tick' # tick
      PROVE  a \in touched
  <2>1. a \in rows
    BY <1>1 DEF Shape, RowsOK
  <2>2. ASSUME NEW b \in Addr, Retire(b) PROVE a \in touched
    <3>1. a = b /\ b \in tick.todo
      BY <1>1, <2>1, <2>2 DEF Retire, RemoveRow
    <3>2. QED
      BY <1>1, <3>1 DEF Memo, Stars
  <2>3. CASE Displace
    <3>1. a = tick.target /\ tick.target \in tick.holders
      BY <1>1, <2>1, <2>3 DEF Displace, RemoveRow, Memo, Stages
    <3>2. QED
      BY <1>1, <3>1 DEF Memo, Stars
  <2>4. ASSUME NEW b \in Addr, NEW v, NEW t, Enters(b, v, t) PROVE FALSE
    BY <1>1, <2>1, <2>4 DEF Enters
  <2>5. QED
    BY <1>1, <2>1, <2>2, <2>3, <2>4
    DEF MemNext, Next, TickStep, Begin, EndKick, Park, EndRetire, Ask, EndRevive, EndPromote,
        Kick, ProbeFails, StaysParked, Revive, Promote, Elapse, Abort, Connect, Disconnect,
        Person, HandAdd, HandRemove, SetKept
<1>2. Shape /\ Memo /\ [MemNext]_<<vars, memory>>
        => [\A a \in starred \cap held :
              a \notin rows' => tick' = tick \/ a \in touched]_<<vars, memory>>
  BY <1>1
<1>3. QED
  BY <1>2, MemoHolds, PTL DEF StarHolds, MemSpec

\* Whomever a tick has taken out, offline and with a record, is parked when it ends
\* or back, or a person had a hand in it: for any number of retirements and one swap
\* in a tick, over a second reading of the ranking, and any records whose retention
\* ended on the way - those of the peers just retired stay (tick, parkPeer).
THEOREM LossesReversible == MemSpec => Reversible
<1>1. Memo => (EndRevive \/ EndPromote =>
                 taken \subseteq rows \cup Parked \cup touched)
  BY DEF Memo, Back, Parking, EndRevive, EndPromote, In
<1>2. QED
  BY <1>1, MemoHolds, PTL DEF Reversible, MemSpec

-----------------------------------------------------------------------------
\* The order of the queue: those never probed come first, those just probed last.
Ordered ==
  \A x, y \in Addr : Before(queue, x, y) =>
    /\ quiet[y] = Never => quiet[x] = Never
    /\ quiet[x] = 0 => quiet[y] = 0

\* Those probed before that have their turn before a.
Ahead(a) == {b \in Addr : quiet[b] # Never /\ Before(queue, b, a)}

\* What parking, unparking and probing do to the order, and to whom is ahead of a
\* peer: only a probe of the peer itself can put anybody ahead of it.
LEMMA ParkFirstTurns ==
  ASSUME ParkingOK, Ordered, NEW a \in Addr, ParkFirst(a)
  PROVE  /\ Ordered' /\ quiet' = [quiet EXCEPT ![a] = Never]
         /\ \A x \in Addr : Ahead(x)' \subseteq Ahead(x)
         /\ Ahead(a)' = {}
<1> DEFINE rest == Only(queue, Addr \ {a})
           unprobed == {b \in ToSet(rest) : quiet[b] = Never}
<1>1. /\ rest \in Seq(Addr) /\ Distinct(rest)
      /\ ToSet(rest) = Parked \ {a} /\ Parked \subseteq Addr
      /\ \A x, y : Before(rest, x, y) => Before(queue, x, y)
  <2>1. Parked \subseteq Addr
    BY DEF ParkingOK, Parked, ToSet
  <2>2. QED
    BY <2>1, OnlyIs DEF ParkingOK, Parked
<1>2. PICK i \in 1..Cardinality(unprobed) + 1 : queue' = InsertAt(rest, i, a)
  BY DEF ParkFirst
<1>3. quiet' = [quiet EXCEPT ![a] = Never]
  BY DEF ParkFirst
<1> HIDE DEF rest
<1>4. Len(rest) \in Nat /\ DOMAIN rest = 1..Len(rest)
  BY <1>1
<1>5. Cardinality(unprobed) \in 0..Len(rest) /\ unprobed \subseteq ToSet(rest)
  <2>1. IsFiniteSet(ToSet(rest)) /\ Cardinality(ToSet(rest)) \in 0..Len(rest)
    BY <1>1, MembersCount
  <2>2. Cardinality(unprobed) <= Cardinality(ToSet(rest)) /\ Cardinality(unprobed) \in Nat
    BY <2>1, FS_Subset, FS_CardinalityType
  <2> HIDE DEF unprobed
  <2>3. QED
    BY <1>4, <2>1, <2>2 DEF unprobed
<1>6. \A x, y : Before(rest, x, y) => x \in ToSet(rest) /\ y \in ToSet(rest)
  BY <1>1, <1>4, OneBefore
<1>7. \A x, y : Before(rest, x, y) /\ y \in unprobed => x \in unprobed
  BY <1>1, <1>6 DEF Ordered
<1> HIDE DEF unprobed
<1>8. ASSUME NEW x \in Addr, Before(queue', x, a) PROVE quiet[x] = Never /\ x # a
  <2>1. i \in 1..Len(rest) + 1 /\ a \notin ToSet(rest)
    BY <1>1, <1>4, <1>5
  <2>2. PICK k \in 1..i - 1 : rest[k] = x
    <3>1. Before(InsertAt(rest, i, a), x, a)
      BY <1>2, <1>8
    <3>2. rest \in Seq(Addr)
      BY <1>1
    <3>3. QED
      BY <2>1, <3>1, <3>2, InsertIs
  <2>3. k \in 1..Len(rest) /\ k <= Cardinality(unprobed)
    BY <1>4, <1>5
  <2>4. rest[k] \in unprobed
    BY <1>1, <1>5, <1>7, <2>3, HeadPlaces
  <2>5. QED
    BY <1>1, <2>2, <2>4 DEF unprobed
<1>9. \A x, y \in Addr : Before(queue', x, y) /\ a \notin {x, y} => Before(queue, x, y)
  <2>1. i \in 1..Len(rest) + 1
    BY <1>4, <1>5
  <2>2. QED
    BY <1>1, <1>2, <2>1, InsertIs
<1>10. quiet'[a] = Never /\ \A x \in Addr : x # a => quiet'[x] = quiet[x]
  BY <1>3 DEF ParkingOK
<1>11. Never # 0
  BY DEF Never
<1>12. Ordered'
  BY <1>8, <1>9, <1>10, <1>11 DEF Ordered
<1>13. QED
  BY <1>3, <1>8, <1>9, <1>10, <1>12 DEF Ahead

LEMMA UnparkTurns ==
  ASSUME ParkingOK, Ordered, NEW S \in SUBSET Addr, Unpark(S)
  PROVE  /\ Ordered'
         /\ \A x \in Addr : Ahead(x)' \subseteq Ahead(x) \ S
         /\ \A x \in Parked' : quiet'[x] = quiet[x]
<1>1. /\ Distinct(queue') /\ queue' \in Seq(Addr)
      /\ \A x, y : Before(queue', x, y) => Before(queue, x, y)
  BY OnlyIs DEF ParkingOK, Unpark
<1>2. Parked' = Parked \ S /\ Parked \subseteq Addr
  <2>1. Parked \subseteq Addr
    BY DEF ParkingOK, Parked, ToSet
  <2>2. QED
    BY <2>1, UnparkOK
<1>3. \A x \in Parked' : quiet'[x] = quiet[x] /\ x \in Addr \ S
  BY <1>2 DEF Unpark
<1>4. \A x, y : Before(queue', x, y) => x \in Parked' /\ y \in Parked'
  <2>1. DOMAIN queue' \subseteq Nat
    BY <1>1
  <2>2. QED
    BY <1>1, <2>1, OneBefore DEF Parked
<1>5. QED
  BY <1>1, <1>3, <1>4 DEF Ordered, Ahead

LEMMA RequeueTurns ==
  ASSUME ParkingOK, Ordered, NEW a \in Parked, NEW n, Requeue(a, n)
  PROVE  /\ Ordered' /\ quiet' = [quiet EXCEPT ![a] = 0]
         /\ \A x \in Addr \ {a} : quiet[x] # 0 => Ahead(x)' \subseteq Ahead(x) \ {a}
<1> DEFINE rest == Only(queue, Addr \ {a})
           fresh == {b \in ToSet(rest) : quiet[b] = 0}
<1>1. /\ rest \in Seq(Addr) /\ Distinct(rest) /\ a \in Addr
      /\ ToSet(rest) = Parked \ {a} /\ Parked \subseteq Addr
      /\ \A x, y : Before(rest, x, y) => Before(queue, x, y)
  <2>1. Parked \subseteq Addr
    BY DEF ParkingOK, Parked, ToSet
  <2>2. QED
    BY <2>1, OnlyIs DEF ParkingOK, Parked
<1>2. PICK i \in Len(rest) - Cardinality(fresh) + 1..Len(rest) + 1 : queue' = InsertAt(rest, i, a)
  BY DEF Requeue
<1>3. quiet' = [quiet EXCEPT ![a] = 0]
  BY DEF Requeue
<1> HIDE DEF rest
<1>4. Len(rest) \in Nat /\ DOMAIN rest = 1..Len(rest)
  BY <1>1
<1>5. Cardinality(fresh) \in 0..Len(rest) /\ fresh \subseteq ToSet(rest)
  <2>1. IsFiniteSet(ToSet(rest)) /\ Cardinality(ToSet(rest)) \in 0..Len(rest)
    BY <1>1, MembersCount
  <2>2. Cardinality(fresh) <= Cardinality(ToSet(rest)) /\ Cardinality(fresh) \in Nat
    BY <2>1, FS_Subset, FS_CardinalityType
  <2> HIDE DEF fresh
  <2>3. QED
    BY <1>4, <2>1, <2>2 DEF fresh
<1>6. \A x, y : Before(rest, x, y) => x \in ToSet(rest) /\ y \in ToSet(rest)
  BY <1>1, <1>4, OneBefore
<1>7. \A x, y : Before(rest, x, y) /\ x \in fresh => y \in fresh
  BY <1>1, <1>6 DEF Ordered
<1> HIDE DEF fresh
<1>8. i \in 1..Len(rest) + 1 /\ a \notin ToSet(rest)
  BY <1>1, <1>4, <1>5
<1>9. ASSUME NEW x \in Addr, Before(queue', a, x) PROVE quiet[x] = 0 /\ x # a
  <2>1. PICK k \in i..Len(rest) : rest[k] = x
    <3>1. \A y : Before(InsertAt(rest, i, a), a, y) /\ a \notin ToSet(rest) =>
                    \E k \in i..Len(rest) : rest[k] = y
      BY <1>1, <1>8, InsertIs
    <3>2. QED
      BY <1>2, <1>8, <1>9, <3>1, Zenon
  <2>2. k \in 1..Len(rest) /\ k > Len(rest) - Cardinality(fresh)
    BY <1>4, <1>5
  <2>3. rest[k] \in fresh
    BY <1>1, <1>5, <1>7, <2>2, TailPlaces
  <2>4. QED
    BY <1>1, <2>1, <2>3 DEF fresh
<1>10. \A x, y \in Addr : Before(queue', x, y) /\ a \notin {x, y} => Before(queue, x, y)
  BY <1>1, <1>2, <1>8, InsertIs
<1>11. quiet'[a] = 0 /\ \A x \in Addr : x # a => quiet'[x] = quiet[x]
  BY <1>1, <1>3 DEF ParkingOK
<1>12. Never # 0
  BY DEF Never
<1>13. Ordered'
  BY <1>9, <1>10, <1>11, <1>12 DEF Ordered
<1>14. QED
  BY <1>3, <1>9, <1>10, <1>11, <1>13 DEF Ahead

\* Time orders nobody anew; once it has passed, nobody was just probed.
LEMMA ElapseTurns ==
  ASSUME ParkingOK, Ordered, MaxInterval > 0, Elapse
  PROVE  /\ Ordered'
         /\ \A x \in Addr : Ahead(x)' = Ahead(x)
         /\ \A x \in Parked : quiet'[x] # 0
<1>1. queue' = queue /\ Parked' = Parked /\ Parked \subseteq Addr
  BY DEF Elapse, ParkingOK, Parked, ToSet
<1>2. ASSUME NEW x \in Addr
      PROVE  /\ quiet'[x] = Never <=> quiet[x] = Never
             /\ x \in Parked => quiet'[x] # 0
  BY <1>2, NumberAssumption, SMTT(30) DEF Elapse, ParkingOK, Later, Never
<1>3. \A x, y : Before(queue, x, y) => x \in Parked /\ y \in Parked
  <2>1. DOMAIN queue \subseteq Nat
    BY DEF ParkingOK
  <2>2. QED
    BY <2>1, OneBefore DEF Parked, ParkingOK
<1>4. QED
  BY <1>1, <1>2, <1>3 DEF Ordered, Ahead

-----------------------------------------------------------------------------
\* How often a peer that is due can be passed over. Spread is the most peers a
\* tick leaves out: the others have had a knock.
Unknocked == ToSet(tick.knocks)
Spread == Cardinality(Addr) - ProbesPerTick

\* A tick knocks on each peer once, and on nobody it has already knocked on.
Knocks ==
  /\ Distinct(tick.knocks)
  /\ tick.pass \in {"due", "kick", "retire"} => \A b \in Parked : quiet[b] # 0
  /\ tick.pass = "revive" => \A b \in Parked \cap Unknocked : quiet[b] # 0

\* A probe settles what a peer was owed.
Settled == \A a \in Addr : quiet[a] = 0 => missed[a] = 0

\* Each time a peer is passed over, somebody that was ahead of it goes behind it.
Yields ==
  \A a \in Addr : missed[a] = 0 \/ (a \in Parked /\ missed[a] + Cardinality(Ahead(a)) <= Spread)

\* The same for the time that is just going by: the peers the tick has knocked on
\* are no longer ahead, and those it is still to knock on will not be.
Waits ==
  tick.pass = "revive" =>
    \A a \in waiting :
      /\ a \in Parked /\ a \notin Unknocked /\ quiet[a] # 0
      /\ missed[a] + 1 + Cardinality(Ahead(a) \ Unknocked) <= Spread

Turns == /\ missed \in [Addr -> Nat]
         /\ Ordered /\ Knocks /\ Settled /\ Yields /\ Waits

\* Sets of addresses have sizes, and a smaller set no greater one.
LEMMA AddrSize ==
  /\ \A T \in SUBSET Addr : IsFiniteSet(T) /\ Cardinality(T) \in Nat
  /\ \A T \in SUBSET Addr : \A S \in SUBSET T : Cardinality(S) <= Cardinality(T)
  /\ Spread \in Int
<1>1. ASSUME NEW T \in SUBSET Addr PROVE IsFiniteSet(T) /\ Cardinality(T) \in Nat
  BY AddrAssumption, FS_Subset, FS_CardinalityType
<1>2. ASSUME NEW T \in SUBSET Addr, NEW S \in SUBSET T PROVE Cardinality(S) <= Cardinality(T)
  BY <1>1, FS_Subset
<1>3. Cardinality(Addr) \in Nat
  BY <1>1
<1>4. Spread \in Int
  BY <1>3, NumberAssumption DEF Spread
<1>5. QED
  BY <1>1, <1>2, <1>4

\* What a step but the end of the knocking does to the counts.
LEMMA MissedIs ==
  ASSUME missed \in [Addr -> Nat], QueueNext, ~EndRevive
  PROVE  /\ missed' \in [Addr -> Nat]
         /\ \A a \in Addr : /\ missed'[a] \in {0, missed[a]}
                            /\ a \notin Parked' => missed'[a] = 0
                            /\ quiet'[a] = 0 /\ quiet[a] # 0 => missed'[a] = 0
BY DEF QueueNext, Missed, Parked

LEMMA WaitingIs ==
  ASSUME QueueNext, ~(In("retire") /\ tick'.pass = "revive")
  PROVE  /\ waiting' \subseteq waiting \cap Parked'
         /\ tick' = Idle \/ (Ask /\ tick'.knocks = <<>>) => waiting' = {}
BY DEF QueueNext, Waiting, Parked

\* The counts are safe over a step that puts nobody ahead of a peer that may have
\* been passed over, and neither chooses whom to knock on nor ends the knocking.
LEMMA GoesOn ==
  ASSUME Shape, Turns, QueueNext, ~EndRevive, Ordered', Knocks',
         \A x \in Addr : quiet[x] # 0 /\ ~(quiet'[x] = 0 /\ quiet[x] # 0) => Ahead(x)' \subseteq Ahead(x),
         tick'.pass = "revive" =>
           /\ tick.pass = "revive"
           /\ \A x \in waiting' : /\ x \notin Unknocked' /\ quiet'[x] # 0
                                  /\ Ahead(x)' \ Unknocked' \subseteq Ahead(x) \ Unknocked
  PROVE  Turns'
<1>1. /\ missed' \in [Addr -> Nat] /\ missed \in [Addr -> Nat]
      /\ \A a \in Addr : /\ missed'[a] \in {0, missed[a]}
                         /\ a \notin Parked' => missed'[a] = 0
                         /\ quiet'[a] = 0 /\ quiet[a] # 0 => missed'[a] = 0
  BY MissedIs DEF Turns
<1>2. ASSUME NEW a \in Addr, missed'[a] # 0
      PROVE  a \in Parked' /\ missed'[a] + Cardinality(Ahead(a)') <= Spread
  <2>1. /\ missed[a] = missed'[a] /\ missed[a] # 0 /\ a \in Parked'
        /\ ~(quiet'[a] = 0 /\ quiet[a] # 0)
    BY <1>1, <1>2
  <2>2. Ahead(a)' \subseteq Ahead(a) /\ Ahead(a) \subseteq Addr
    BY <2>1 DEF Ahead, Turns, Settled
  <2>3. /\ Cardinality(Ahead(a)') <= Cardinality(Ahead(a)) /\ Spread \in Int
        /\ Cardinality(Ahead(a)) \in Nat /\ Cardinality(Ahead(a)') \in Nat
    BY <2>2, AddrSize
  <2>4. missed[a] + Cardinality(Ahead(a)) <= Spread
    BY <2>1 DEF Turns, Yields
  <2>5. QED
    BY <1>1, <2>1, <2>3, <2>4
<1>3. Yields'
  BY <1>2, AddrSize DEF Yields, Spread
<1>4. Settled'
  BY <1>1 DEF Turns, Settled
<1>5. ASSUME tick'.pass = "revive", NEW a \in waiting'
      PROVE  /\ a \in Parked' /\ a \notin Unknocked' /\ quiet'[a] # 0
             /\ missed'[a] + 1 + Cardinality(Ahead(a)' \ Unknocked') <= Spread
  <2>1. tick.pass = "revive"
    BY <1>5
  <2>2. a \in waiting /\ a \in Parked'
    BY <2>1, WaitingIs DEF In
  <2>3. a \in Addr /\ missed[a] + 1 + Cardinality(Ahead(a) \ Unknocked) <= Spread
    <3>1. a \in Parked /\ missed[a] + 1 + Cardinality(Ahead(a) \ Unknocked) <= Spread
      BY <2>1, <2>2 DEF Turns, Waits
    <3>2. Parked \subseteq Addr
      BY DEF Shape, ParkingOK, Parked, ToSet
    <3>3. QED
      BY <3>1, <3>2
  <2>4. /\ Ahead(a)' \ Unknocked' \subseteq Ahead(a) \ Unknocked
        /\ Ahead(a) \ Unknocked \subseteq Addr
    BY <1>5 DEF Ahead
  <2>5. /\ Cardinality(Ahead(a)' \ Unknocked') <= Cardinality(Ahead(a) \ Unknocked)
        /\ Cardinality(Ahead(a) \ Unknocked) \in Nat /\ Spread \in Int
        /\ Cardinality(Ahead(a)' \ Unknocked') \in Nat
    BY <2>4, AddrSize
  <2>6. missed'[a] \in Nat /\ missed[a] \in Nat /\ missed'[a] <= missed[a]
    BY <1>1, <2>3
  <2>7. missed'[a] + 1 + Cardinality(Ahead(a)' \ Unknocked') <= Spread
    BY <2>3, <2>5, <2>6
  <2>8. QED
    BY <1>5, <2>2, <2>7
<1>6. Waits'
  BY <1>5, AddrSize DEF Waits, Spread
<1>7. QED
  BY <1>1, <1>3, <1>4, <1>6 DEF Turns

\* Steps that have nothing to do with the queue.
LEMMA SteadyTurns ==
  ASSUME Shape, Turns, QueueNext, ~EndRevive, queue' = queue, quiet' = quiet,
         Unknocked' \subseteq Unknocked, Distinct(tick'.knocks),
         tick'.pass \in {"due", "kick", "retire"} => tick.pass \in {"due", "kick", "retire"},
         tick'.pass = "revive" => tick.pass = "revive" /\ (Unknocked' = Unknocked \/ waiting' = {})
  PROVE  Turns'
<1>1. \A x \in Addr : Ahead(x)' = Ahead(x)
  BY DEF Ahead
<1>2. Ordered'
  BY DEF Turns, Ordered
<1>3. Parked' = Parked
  BY DEF Parked
<1>4. Knocks'
  BY <1>3 DEF Turns, Knocks
<1>5. Parked \subseteq Addr
  BY DEF Shape, ParkingOK, Parked, ToSet
<1>6. ASSUME tick'.pass = "revive", NEW x \in waiting'
      PROVE  /\ x \notin Unknocked' /\ quiet'[x] # 0
             /\ Ahead(x)' \ Unknocked' \subseteq Ahead(x) \ Unknocked
  <2>1. tick.pass = "revive" /\ Unknocked' = Unknocked
    BY <1>6
  <2>2. x \in waiting
    BY <2>1, WaitingIs DEF In
  <2>3. x \in Parked /\ x \notin Unknocked /\ quiet[x] # 0
    BY <2>1, <2>2 DEF Turns, Waits
  <2>4. QED
    BY <1>1, <1>5, <2>1, <2>3
<1>7. QED
  BY <1>1, <1>2, <1>4, <1>6, GoesOn

\* The end of the knocking: whoever was due and has been left out is passed over.
LEMMA EndReviveTurns ==
  ASSUME Shape, Turns, QueueNext, EndRevive, Patience \in Nat
  PROVE  Turns'
<1>1. /\ tick.pass = "revive" /\ tick.knocks = <<>> /\ tick'.knocks = <<>>
      /\ tick'.pass \in {"idle", "promote"} /\ queue' = queue /\ quiet' = quiet
  BY DEF EndRevive, In, Idle, Shape, TickOK, Ticks, parking
<1>2. Unknocked = {} /\ Parked' = Parked /\ \A x \in Addr : Ahead(x)' = Ahead(x)
  BY <1>1 DEF Unknocked, ToSet, Parked, Ahead
<1>3. /\ missed' \in [Addr -> Nat] /\ missed \in [Addr -> Nat]
      /\ \A a \in Addr : \/ missed'[a] \in {0, missed[a]} /\ (a \notin Parked => missed'[a] = 0)
                         \/ a \in waiting /\ a \in Parked /\ missed'[a] <= missed[a] + 1
  <2>1. missed \in [Addr -> Nat] /\ Patience + 1 \in Nat
    BY DEF Turns
  <2>2. \A n \in Nat : Later(n, Patience + 1) \in Nat
    BY <2>1 DEF Later
  <2>3. ASSUME NEW a \in Addr, a \in Parked, a \in waiting
        PROVE  Later(missed[a], Patience + 1) <= missed[a] + 1
    <3>1. missed[a] <= missed[a] + 1 \/ Patience + 1 <= missed[a] + 1
      BY <2>1
    <3>2. QED
      BY <2>1 DEF Later
  <2>4. missed' = Missed /\ ToSet(queue') = Parked
    BY <1>1 DEF QueueNext, Parked
  <2>5. QED
    BY <2>1, <2>2, <2>3, <2>4 DEF Missed
<1>4. ASSUME NEW a \in Addr, missed'[a] # 0
      PROVE  a \in Parked' /\ missed'[a] + Cardinality(Ahead(a)') <= Spread /\ quiet[a] # 0
  <2>1. Cardinality(Ahead(a)) \in Nat /\ Spread \in Int /\ missed[a] \in Nat /\ missed'[a] \in Nat
    BY <1>3, AddrSize DEF Ahead
  <2>2. CASE missed'[a] = missed[a] /\ a \in Parked
    BY <1>2, <1>4, <2>2 DEF Turns, Yields, Settled
  <2>3. CASE a \in waiting /\ a \in Parked /\ missed'[a] <= missed[a] + 1
    <3>1. Ahead(a) \ Unknocked = Ahead(a)
      BY <1>2
    <3>2. missed[a] + 1 + Cardinality(Ahead(a)) <= Spread /\ quiet[a] # 0
      BY <1>1, <2>3, <3>1 DEF Turns, Waits
    <3>3. QED
      BY <1>2, <2>1, <2>3, <3>2
  <2>4. QED
    BY <1>3, <1>4, <2>2, <2>3
<1>5. Yields' /\ Settled'
  BY <1>1, <1>4, AddrSize DEF Yields, Settled, Spread
<1>6. Ordered'
  BY <1>1 DEF Turns, Ordered
<1>7. Knocks' /\ Waits'
  BY <1>1 DEF Knocks, Waits, Distinct
<1>8. QED
  BY <1>3, <1>5, <1>6, <1>7 DEF Turns

\* The choice of whom to knock on. Whoever is left out has the others before it in
\* the queue, as many as a tick may knock on, and one of them was probed before.
LEMMA EndRetireTurns ==
  ASSUME Shape, Turns, QueueNext, EndRetire
  PROVE  Turns'
<1> DEFINE K == ToSet(Chosen(queue'))
<1>1. PICK forgotten \in SUBSET (Parked \ (tick.retired \cap tick.measured)) : Unpark(forgotten)
  BY DEF EndRetire
<1>2. /\ ParkingOK' /\ Parked' \subseteq Parked /\ Parked \subseteq Addr
      /\ Ordered' /\ \A x \in Addr : Ahead(x)' \subseteq Ahead(x)
      /\ \A x \in Parked' : quiet'[x] = quiet[x]
  <2>1. Parked \subseteq Addr
    BY DEF Shape, ParkingOK, Parked, ToSet
  <2>2. forgotten \in SUBSET Addr
    BY <2>1
  <2>3. QED
    BY <1>1, <2>1, <2>2, UnparkOK, UnparkTurns DEF Shape, Turns
<1>3. /\ tick.pass = "retire" /\ In("retire") /\ tick'.pass = "revive"
      /\ tick'.knocks = Chosen(queue') /\ Unknocked' = K
  BY DEF EndRetire, In, Unknocked, Shape, TickOK, Ticks, Read
<1>4. /\ Chosen(queue') \in Seq(Addr) /\ Distinct(Chosen(queue'))
      /\ \A a \in Parked' \cap Due : a \notin K =>
           /\ Len(Chosen(queue')) = ProbesPerTick
           /\ \A b \in K : Before(queue', b, a)
  BY <1>2, ChosenOK DEF ParkingOK, Parked
<1>5. IsFiniteSet(K) /\ Cardinality(K) = Len(Chosen(queue'))
  BY <1>4, MembersCount
<1> HIDE DEF K
<1>6. \A b \in Parked : quiet[b] # 0
  BY <1>3 DEF Turns, Knocks
<1>7. Knocks'
  BY <1>2, <1>3, <1>4, <1>6 DEF Knocks
<1>8. ~EndRevive
  BY <1>3 DEF EndRevive, In
<1>9. /\ missed' \in [Addr -> Nat] /\ missed \in [Addr -> Nat]
      /\ \A a \in Addr : missed'[a] \in {0, missed[a]} /\ (a \notin Parked' => missed'[a] = 0)
  BY <1>8, MissedIs DEF Turns
<1>10. ASSUME NEW a \in Addr, missed'[a] # 0
       PROVE  a \in Parked' /\ missed'[a] + Cardinality(Ahead(a)') <= Spread
  <2>1. Ahead(a)' \subseteq Ahead(a) /\ Ahead(a) \subseteq Addr
    BY <1>2 DEF Ahead
  <2>2. /\ Cardinality(Ahead(a)') <= Cardinality(Ahead(a)) /\ Spread \in Int
        /\ Cardinality(Ahead(a)) \in Nat /\ Cardinality(Ahead(a)') \in Nat
    BY <2>1, AddrSize
  <2>3. missed[a] + Cardinality(Ahead(a)) <= Spread /\ missed'[a] = missed[a]
    BY <1>9, <1>10 DEF Turns, Yields
  <2>4. QED
    BY <1>9, <1>10, <2>2, <2>3
<1>11. Yields'
  BY <1>10, AddrSize DEF Yields, Spread
<1>12. Settled'
  <2> SUFFICES ASSUME NEW a \in Addr, quiet'[a] = 0, missed'[a] # 0 PROVE FALSE
    BY DEF Settled
  <2>1. a \in Parked' /\ missed[a] # 0
    BY <1>9
  <2>2. QED
    BY <1>2, <1>6, <2>1
<1>13. ASSUME NEW x \in waiting'
       PROVE  /\ x \in Parked' /\ x \notin K /\ quiet'[x] # 0 /\ x \in Addr
              /\ x \in Due /\ \E b \in K : quiet[b] # Never
  <2>1. /\ x \in Parked' /\ x \notin K /\ IsDue(x)
        /\ ~(Len(Chosen(queue')) = ProbesPerTick /\ \A b \in K : quiet[b] = Never)
    <3>1. waiting' = {a \in ToSet(queue') : quiet[a] # Never /\ IsDue(a)
                        /\ ~(Len(tick'.knocks) = ProbesPerTick /\ \A b \in ToSet(tick'.knocks) : quiet[b] = Never)}
                     \ ToSet(tick'.knocks)
      BY <1>3 DEF QueueNext, Waiting
    <3>2. QED
      BY <1>3, <3>1 DEF K, Parked
  <2>2. x \in Addr /\ x \in Due
    BY <1>2, <2>1 DEF Due
  <2>3. quiet'[x] # 0
    BY <1>2, <1>6, <2>1
  <2>4. QED
    BY <1>4, <2>1, <2>2, <2>3
<1>14. ASSUME NEW x \in waiting'
       PROVE  missed'[x] + 1 + Cardinality(Ahead(x)' \ K) <= Spread
  <2>1. /\ x \in Parked' /\ x \notin K /\ x \in Addr /\ x \in Due
        /\ Cardinality(K) = ProbesPerTick /\ \A b \in K : Before(queue', b, x)
    BY <1>4, <1>5, <1>13
  <2>2. PICK b \in K : quiet[b] # Never
    BY <1>13
  <2>3. K \subseteq Parked'
    <3>1. DOMAIN queue' \subseteq Nat /\ Distinct(queue')
      BY <1>2 DEF ParkingOK, Distinct
    <3>2. QED
      BY <2>1, <3>1, OneBefore DEF Parked
  <2>4. b \in Ahead(x)'
    BY <1>2, <2>1, <2>2, <2>3 DEF Ahead
  <2>5. x \notin Ahead(x)'
    <3>1. DOMAIN queue' \subseteq Nat /\ Distinct(queue')
      BY <1>2 DEF ParkingOK, Distinct
    <3>2. ~Before(queue', x, x)
      BY <3>1, OneBefore
    <3>3. QED
      BY <3>2 DEF Ahead
  <2> DEFINE left == Ahead(x)' \ K
  <2>6. left \subseteq Addr /\ K \subseteq Addr /\ Ahead(x) \subseteq Addr
    BY <1>2, <2>3 DEF Ahead
  <2>7. Cardinality(left) \in Nat /\ Spread \in Int /\ missed[x] \in Nat
    BY <1>9, <2>1, <2>6, AddrSize
  <2>8. CASE missed'[x] = 0
    <3> DEFINE others == K \cup {x}
    <3>1. Cardinality(others) = ProbesPerTick + 1 /\ IsFiniteSet(others)
      BY <1>5, <2>1, FS_AddElement
    <3>2. left \subseteq Addr \ others /\ others \subseteq Addr
      BY <2>1, <2>5, <2>6
    <3> HIDE DEF left, others
    <3>3. Cardinality(Addr \ others) = Cardinality(Addr) - Cardinality(others)
      <4>1. Addr \cap others = others
        BY <3>2
      <4>2. Cardinality(Addr \ others) = Cardinality(Addr) - Cardinality(Addr \cap others)
        BY AddrAssumption, FS_Difference
      <4>3. QED
        BY <4>1, <4>2
    <3>4. Cardinality(left) <= Cardinality(Addr \ others)
      BY <3>2, AddrSize
    <3>5. Cardinality(Addr) \in Nat /\ ProbesPerTick \in Nat
      BY AddrSize, NumberAssumption
    <3>6. missed'[x] + 1 + Cardinality(left) <= Spread
      BY <2>7, <2>8, <3>1, <3>3, <3>4, <3>5 DEF Spread
    <3>7. QED
      BY <3>6 DEF left
  <2>9. CASE missed'[x] = missed[x] /\ missed[x] # 0
    <3>1. missed[x] + Cardinality(Ahead(x)) <= Spread
      BY <2>1, <2>9 DEF Turns, Yields
    <3>2. left \subseteq Ahead(x) \ {b} /\ b \in Ahead(x)
      BY <1>2, <2>1, <2>4
    <3> HIDE DEF left
    <3>3. Cardinality(Ahead(x) \ {b}) = Cardinality(Ahead(x)) - 1
      BY <2>6, <3>2, AddrSize, FS_RemoveElement
    <3>4. Ahead(x) \ {b} \in SUBSET Addr
      BY <2>6
    <3>5. Cardinality(left) <= Cardinality(Ahead(x) \ {b}) /\ Cardinality(Ahead(x)) \in Nat
      BY <2>6, <3>2, <3>4, AddrSize
    <3>6. missed'[x] + 1 + Cardinality(left) <= Spread
      BY <2>7, <2>9, <3>1, <3>3, <3>5
    <3>7. QED
      BY <3>6 DEF left
  <2>10. QED
    BY <1>9, <2>1, <2>8, <2>9
<1>15. Waits'
  BY <1>3, <1>13, <1>14, AddrSize DEF Waits, Spread
<1>16. QED
  BY <1>2, <1>7, <1>9, <1>11, <1>12, <1>15 DEF Turns

\* Parking puts its peer first, where nobody is ahead of it.
LEMMA ParkTurns ==
  ASSUME Shape, Turns, QueueNext, Park
  PROVE  Turns'
<1>0. tick \in Ticks /\ Distinct(tick.knocks)
  BY DEF Shape, TickOK, Turns, Knocks
<1> SUFFICES ASSUME tick.target \in tick.measured PROVE Turns'
  BY <1>0, ParkOK, SteadyTurns DEF Ticks, Park, Unknocked, EndRevive, In, parking
<1>1. /\ tick.target \in Addr /\ ParkFirst(tick.target) /\ tick'.pass = tick.pass
      /\ tick'.knocks = tick.knocks /\ Unknocked' = Unknocked /\ ~EndRevive
  BY <1>0, ParkOK DEF Ticks, Park, Unknocked, EndRevive, In
<1>2. /\ Ordered' /\ quiet' = [quiet EXCEPT ![tick.target] = Never]
      /\ Parked' = Parked \cup {tick.target}
      /\ \A x \in Addr : Ahead(x)' \subseteq Ahead(x)
  BY <1>1, ParkFirstOK, ParkFirstTurns DEF Shape, Turns
<1>3. Parked \subseteq Addr /\ Never # 0
  BY DEF Shape, ParkingOK, Parked, ToSet, Never
<1>4. \A x \in Addr : quiet'[x] = Never \/ quiet'[x] = quiet[x]
  BY <1>1, <1>2 DEF Shape, ParkingOK
<1>5. quiet'[tick.target] = Never
  BY <1>1, <1>2 DEF Shape, ParkingOK
<1>6. Knocks'
  BY <1>1, <1>2, <1>3, <1>4, <1>5 DEF Turns, Knocks
<1>7. ASSUME tick'.pass = "revive", NEW x \in waiting'
      PROVE  /\ x \notin Unknocked' /\ quiet'[x] # 0
             /\ Ahead(x)' \ Unknocked' \subseteq Ahead(x) \ Unknocked
  <2>1. x \in waiting /\ tick.pass = "revive"
    BY <1>1, <1>7, WaitingIs DEF In
  <2>2. x \in Parked /\ x \notin Unknocked /\ quiet[x] # 0
    BY <2>1 DEF Turns, Waits
  <2>3. QED
    BY <1>1, <1>2, <1>3, <1>4, <2>2
<1>8. QED
  BY <1>1, <1>2, <1>6, <1>7, GoesOn

\* The list of those to knock on, once the first has had its knock.
LEMMA NextKnock ==
  ASSUME NEW X, NEW s \in Seq(X), s # <<>>, Distinct(s)
  PROVE  /\ Tail(s) \in Seq(X) /\ Distinct(Tail(s))
         /\ Head(s) \in ToSet(s) /\ ToSet(Tail(s)) = ToSet(s) \ {Head(s)}
<1> DEFINE a == Head(s)
           t == Tail(s)
<1>1. /\ Len(s) \in Nat /\ Len(s) > 0 /\ DOMAIN s = 1..Len(s) /\ DOMAIN t = 1..Len(s) - 1
      /\ s[1] = a /\ (\A k \in 1..Len(s) - 1 : t[k] = s[k + 1]) /\ t \in Seq(X)
  OBVIOUS
<1>2. \A k, l \in 1..Len(s) : s[k] = s[l] => k = l
  BY <1>1 DEF Distinct
<1> HIDE DEF a, t
<1>3. Distinct(t)
  <2> SUFFICES ASSUME NEW k \in 1..Len(s) - 1, NEW l \in 1..Len(s) - 1, t[k] = t[l]
               PROVE  k = l
    BY <1>1 DEF Distinct
  <2>1. k + 1 \in 1..Len(s) /\ l + 1 \in 1..Len(s)
    BY <1>1
  <2>2. k + 1 = l + 1
    BY <1>1, <1>2, <2>1
  <2>3. QED
    BY <1>1, <2>2
<1>4. ToSet(t) \subseteq ToSet(s) \ {a}
  <2> SUFFICES ASSUME NEW k \in 1..Len(s) - 1 PROVE t[k] \in ToSet(s) \ {a}
    BY <1>1 DEF ToSet
  <2>1. k + 1 \in 1..Len(s) /\ k + 1 # 1 /\ 1 \in 1..Len(s)
    BY <1>1
  <2>2. s[k + 1] # s[1]
    BY <1>2, <2>1
  <2>3. QED
    BY <1>1, <2>1, <2>2 DEF ToSet
<1>5. ToSet(s) \ {a} \subseteq ToSet(t)
  <2> SUFFICES ASSUME NEW k \in 1..Len(s), s[k] # a PROVE s[k] \in ToSet(t)
    BY <1>1 DEF ToSet
  <2>1. PICK m \in 1..Len(s) - 1 : k = m + 1
    <3>1. k - 1 \in 1..Len(s) - 1 /\ k = (k - 1) + 1
      BY <1>1
    <3>2. QED
      BY <3>1
  <2>2. QED
    BY <1>1, <2>1 DEF ToSet
<1>6. a \in ToSet(s)
  BY <1>1 DEF ToSet
<1>7. QED
  BY <1>1, <1>3, <1>4, <1>5, <1>6 DEF a, t

\* A knock puts its peer last, behind all that have been passed over.
LEMMA KnockTurns ==
  ASSUME Shape, Turns, QueueNext, NEW a \in Addr, NEW n \in 0..MaxFails, Knocking(a),
         Requeue(a, n), tick' = Knocked
  PROVE  Turns'
<1>1. /\ tick.pass = "revive" /\ tick.knocks # <<>> /\ a = Head(tick.knocks)
      /\ tick.knocks \in Seq(Addr) /\ ~EndRevive
  BY DEF Shape, TickOK, Ticks, Knocking, In, EndRevive
<1>2. tick'.pass = "revive" /\ tick'.knocks = Tail(tick.knocks)
  BY <1>1 DEF Shape, TickOK, Ticks, Knocked
<1>3. a \in Unknocked /\ Unknocked' = Unknocked \ {a} /\ Distinct(tick'.knocks)
  BY <1>1, <1>2, NextKnock DEF Turns, Knocks, Unknocked
<1>4. Parked \subseteq Addr /\ Parked' = Parked
  <2>1. Parked \subseteq Addr
    BY DEF Shape, ParkingOK, Parked, ToSet
  <2>2. QED
    BY <2>1, RequeueOK DEF Shape
<1>5. /\ Ordered'
      /\ \A x \in Addr \ {a} : quiet'[x] = quiet[x]
      /\ \A x \in Addr \ {a} : quiet[x] # 0 => Ahead(x)' \subseteq Ahead(x) \ {a}
      /\ a \in Parked => quiet[a] # 0 /\ quiet'[a] = 0
      /\ a \notin Parked => quiet'[a] = quiet[a] /\ Ahead(a)' \subseteq Ahead(a)
  <2>1. CASE a \in Parked
    <3>1. /\ Ordered' /\ quiet' = [quiet EXCEPT ![a] = 0]
          /\ \A x \in Addr \ {a} : quiet[x] # 0 => Ahead(x)' \subseteq Ahead(x) \ {a}
      BY <2>1, RequeueTurns DEF Shape, Turns
    <3>2. quiet[a] # 0
      BY <1>1, <1>3, <2>1 DEF Turns, Knocks
    <3>3. QED
      BY <2>1, <3>1, <3>2 DEF Shape, ParkingOK
  <2>2. CASE a \notin Parked
    <3>1. queue' = queue /\ quiet' = quiet
      BY <2>2 DEF Requeue, parking
    <3>2. \A x \in Addr : Ahead(x)' = Ahead(x) /\ a \notin Ahead(x)
      <4>1. DOMAIN queue \subseteq Nat /\ Distinct(queue)
        BY DEF Shape, ParkingOK
      <4>2. \A x : ~Before(queue, a, x)
        BY <2>2, <4>1, OneBefore DEF Parked
      <4>3. QED
        BY <3>1, <4>2 DEF Ahead
    <3>3. Ordered'
      BY <3>1 DEF Turns, Ordered
    <3>4. QED
      BY <2>2, <3>1, <3>2, <3>3
  <2>3. QED
    BY <2>1, <2>2
<1>6. Knocks'
  BY <1>1, <1>2, <1>3, <1>4, <1>5 DEF Turns, Knocks
<1>7. \A x \in Addr : quiet[x] # 0 /\ ~(quiet'[x] = 0 /\ quiet[x] # 0) => Ahead(x)' \subseteq Ahead(x)
  BY <1>5
<1>8. ASSUME NEW x \in waiting'
      PROVE  /\ x \notin Unknocked' /\ quiet'[x] # 0
             /\ Ahead(x)' \ Unknocked' \subseteq Ahead(x) \ Unknocked
  <2>1. x \in waiting
    BY <1>1, WaitingIs DEF In
  <2>2. x \in Parked /\ x \notin Unknocked /\ quiet[x] # 0
    BY <1>1, <2>1 DEF Turns, Waits
  <2>3. x \in Addr \ {a}
    BY <1>3, <1>4, <2>2
  <2>4. QED
    BY <1>3, <1>5, <2>2, <2>3
<1>9. QED
  BY <1>1, <1>2, <1>5, <1>6, <1>7, <1>8, GoesOn

\* Peers that leave the queue leave the others in their order.
LEMMA LeaveTurns ==
  ASSUME Shape, Turns, QueueNext, ~EndRevive, NEW S \in SUBSET Addr, Unpark(S),
         ~(In("retire") /\ tick'.pass = "revive"), tick'.pass = tick.pass,
         Distinct(tick'.knocks), Unknocked' \subseteq Unknocked, Unknocked \ S \subseteq Unknocked'
  PROVE  Turns'
<1>1. /\ Ordered' /\ Parked' = Parked \ S /\ Parked \subseteq Addr
      /\ \A x \in Addr : Ahead(x)' \subseteq Ahead(x) \ S
      /\ \A x \in Parked' : quiet'[x] = quiet[x]
  <2>1. Parked \subseteq Addr
    BY DEF Shape, ParkingOK, Parked, ToSet
  <2>2. QED
    BY <2>1, UnparkOK, UnparkTurns DEF Shape, Turns
<1>2. Knocks'
  BY <1>1 DEF Turns, Knocks
<1>3. ASSUME tick'.pass = "revive", NEW x \in waiting'
      PROVE  /\ x \notin Unknocked' /\ quiet'[x] # 0
             /\ Ahead(x)' \ Unknocked' \subseteq Ahead(x) \ Unknocked
  <2>1. x \in waiting /\ x \in Parked' /\ tick.pass = "revive"
    BY <1>3, WaitingIs
  <2>2. x \in Parked /\ x \notin Unknocked /\ quiet[x] # 0
    BY <2>1 DEF Turns, Waits
  <2>3. QED
    BY <1>1, <2>1, <2>2
<1>4. QED
  BY <1>1, <1>2, <1>3, GoesOn

\* Time has passed since the last knock when a tick begins.
LEMMA HourTurns ==
  ASSUME Shape, Turns, QueueNext, Elapse, MaxInterval > 0
  PROVE  Turns'
<1>1. /\ Ordered' /\ (\A x \in Addr : Ahead(x)' = Ahead(x)) /\ (\A x \in Parked : quiet'[x] # 0)
      /\ Parked' = Parked
  BY ElapseTurns DEF Shape, Turns, Elapse, Parked
<1>2. /\ tick'.pass = "due" /\ tick'.knocks = tick.knocks /\ ~EndRevive
  BY DEF Shape, TickOK, Ticks, Elapse, EndRevive, In
<1>3. Knocks'
  BY <1>1, <1>2 DEF Turns, Knocks
<1>4. QED
  BY <1>1, <1>2, <1>3, GoesOn

\* The tick ends.
LEMMA OverTurns ==
  ASSUME Shape, Turns, QueueNext, tick' = Idle, ~EndRevive, UNCHANGED parking
  PROVE  Turns'
<1>1. tick'.pass = "idle" /\ tick'.knocks = <<>> /\ Distinct(tick'.knocks) /\ Unknocked' = {}
  BY DEF Idle, Distinct, Unknocked, ToSet
<1>2. QED
  BY <1>1, SteadyTurns DEF parking

\* The steps of the tick itself.
LEMMA TickTurns ==
  ASSUME Shape, Turns, QueueNext, TickStep, Patience \in Nat
  PROVE  Turns'
<1>0. tick \in Ticks /\ Distinct(tick.knocks)
  BY DEF Shape, TickOK, Ticks, Turns, Knocks
<1>1. CASE Begin \/ EndKick \/ Displace
  <2>1. CASE Begin
    BY <1>0, <2>1, SteadyTurns DEF Begin, In, Read, Ticks, Unknocked, parking, EndRevive
  <2>2. CASE EndKick
    BY <1>0, <2>2, SteadyTurns DEF EndKick, In, Ticks, Unknocked, parking, EndRevive
  <2>3. CASE Displace
    BY <1>0, <2>3, SteadyTurns DEF Displace, In, Ticks, Unknocked, parking, EndRevive
  <2>4. QED
    BY <1>1, <2>1, <2>2, <2>3
<1>2. CASE Ask
  <2>1. PICK proxied \in BOOLEAN : tick' = [tick EXCEPT !.next = "go", !.knocks = IF proxied THEN <<>> ELSE @]
    BY <1>2 DEF Ask
  <2>2. tick'.pass = tick.pass /\ (tick'.knocks = tick.knocks \/ tick'.knocks = <<>>)
    BY <1>0, <2>1 DEF Ticks
  <2>3. ~In("retire") /\ ~EndRevive
    BY <1>2 DEF Ask, In, EndRevive
  <2>4. CASE tick'.knocks = <<>>
    <3>1. waiting' = {} /\ Unknocked' = {} /\ Distinct(tick'.knocks)
      BY <1>2, <2>3, <2>4, WaitingIs DEF Unknocked, ToSet, Distinct
    <3>2. QED
      BY <1>2, <2>2, <2>3, <3>1, SteadyTurns DEF Ask, parking
  <2>5. CASE tick'.knocks = tick.knocks
    BY <1>0, <1>2, <2>2, <2>3, <2>5, SteadyTurns DEF Ask, parking, Unknocked
  <2>6. QED
    BY <2>2, <2>4, <2>5
<1>3. CASE EndPromote
  BY <1>3, OverTurns DEF EndPromote, EndRevive, In
<1>4. ASSUME NEW a \in Addr, Kick(a) \/ Retire(a) PROVE Turns'
  BY <1>0, <1>4, SteadyTurns DEF Kick, Retire, In, Ticks, Unknocked, parking, EndRevive, RemoveRow
<1>5. ASSUME NEW a \in Addr, ProbeFails(a) PROVE Turns'
  <2>1. (IF fails[a] < MaxFails THEN fails[a] + 1 ELSE MaxFails) \in 0..MaxFails
    BY NumberAssumption DEF Shape, ParkingOK
  <2>2. QED
    BY <1>5, <2>1, KnockTurns DEF ProbeFails
<1>6. ASSUME NEW a \in Addr, StaysParked(a) PROVE Turns'
  BY <1>6, KnockTurns, NumberAssumption DEF StaysParked
<1>7. ASSUME NEW a \in Addr, Revive(a) PROVE Turns'
  <2>1. /\ tick.pass = "revive" /\ tick.knocks # <<>> /\ a = Head(tick.knocks)
        /\ tick.knocks \in Seq(Addr) /\ ~EndRevive
    BY <1>0, <1>7 DEF Revive, Knocking, In, Ticks, EndRevive
  <2>2. Knocked.pass = tick.pass /\ Knocked.knocks = Tail(tick.knocks)
    BY <1>0 DEF Knocked, Ticks
  <2>3. PICK v : Enters(a, v, Knocked)
    BY <1>7 DEF Revive
  <2>4. Unpark({a}) /\ tick'.pass = tick.pass /\ tick'.knocks = Tail(tick.knocks)
    <3>1. Tail(tick.knocks) \in Seq(Addr)
      BY <1>0, <2>1, NextKnock
    <3>2. Knocked \in Ticks
      BY <1>0, <3>1 DEF Knocked, Ticks
    <3>3. QED
      BY <2>2, <2>3, <3>2 DEF Enters, Ticks
  <2>5. /\ Distinct(tick'.knocks) /\ Unknocked' \subseteq Unknocked
        /\ Unknocked \ {a} \subseteq Unknocked'
    BY <1>0, <2>1, <2>4, NextKnock DEF Unknocked
  <2>6. {a} \in SUBSET Addr /\ ~In("retire")
    BY <2>1 DEF In
  <2>7. QED
    BY <2>1, <2>4, <2>5, <2>6, LeaveTurns
<1>8. ASSUME NEW a \in Addr, Promote(a) PROVE Turns'
  <2>1. PICK v : Enters(a, v, tick)
    BY <1>8 DEF Promote
  <2>2. tick.pass = "promote" /\ tick.knocks \in Seq(Addr) /\ ~EndRevive
    BY <1>0, <1>8 DEF Promote, In, Ticks, EndRevive
  <2>3. Unpark({a}) /\ tick'.pass = tick.pass /\ tick'.knocks = tick.knocks
    BY <1>0, <2>1 DEF Enters, Ticks
  <2>4. {a} \in SUBSET Addr /\ ~In("retire")
    BY <2>2 DEF In
  <2>5. QED
    BY <1>0, <2>2, <2>3, <2>4, LeaveTurns DEF Unknocked
<1>9. QED
  BY <1>1, <1>2, <1>3, <1>4, <1>5, <1>6, <1>7, <1>8, EndReviveTurns, EndRetireTurns, ParkTurns
  DEF TickStep

LEMMA NextTurns ==
  ASSUME Shape, Turns, [QueueNext]_<<vars, waiting, missed>>, MaxInterval > 0, Patience \in Nat
  PROVE  Turns'
<1>1. CASE UNCHANGED <<vars, waiting, missed>>
  BY <1>1 DEF vars, Turns, Ordered, Knocks, Settled, Yields, Waits, Ahead, Unknocked, Parked
<1> SUFFICES ASSUME QueueNext PROVE Turns'
  BY <1>1
<1>2. tick \in Ticks /\ Distinct(tick.knocks)
  BY DEF Shape, TickOK, Turns, Knocks
<1>3. CASE Abort
  <2>1. ~EndRevive \/ EndRevive
    OBVIOUS
  <2>2. QED
    BY <1>3, <2>1, OverTurns, EndReviveTurns DEF Abort
<1>4. ASSUME NEW a \in Addr, Connect(a) \/ Disconnect(a) \/ HandRemove(a) \/ SetKept(a)
      PROVE  Turns'
  <2>1. tick' = tick /\ queue' = queue /\ quiet' = quiet
    BY <1>4 DEF Connect, Disconnect, HandRemove, SetKept, parking
  <2>2. CASE EndRevive
    BY <2>2, EndReviveTurns
  <2>3. CASE ~EndRevive
    BY <1>2, <2>1, <2>3, SteadyTurns DEF Unknocked
  <2>4. QED
    BY <2>2, <2>3
<1>5. ASSUME NEW a \in Addr, HandAdd(a) PROVE Turns'
  <2>1. tick' = tick /\ Unpark({a}) /\ {a} \in SUBSET Addr
    BY <1>5 DEF HandAdd
  <2>2. CASE EndRevive
    BY <2>2, EndReviveTurns
  <2>3. CASE ~EndRevive
    BY <1>2, <2>1, <2>3, LeaveTurns DEF Unknocked, In
  <2>4. QED
    BY <2>2, <2>3
<1>6. QED
  BY <1>3, <1>4, <1>5, TickTurns, HourTurns DEF QueueNext, Next, Person

\* What the counts start from.
LEMMA InitTurns == QueueInit => Turns
<1> SUFFICES ASSUME QueueInit PROVE Turns
  OBVIOUS
<1>1. queue = <<>> /\ tick = Idle /\ missed = [a \in Addr |-> 0]
  BY DEF QueueInit, Init
<1>2. Parked = {} /\ tick.pass = "idle" /\ tick.knocks = <<>>
  BY <1>1 DEF Parked, ToSet, Idle
<1>3. Ordered /\ Knocks
  BY <1>1, <1>2 DEF Ordered, Knocks, Before, Distinct
<1>4. QED
  BY <1>1, <1>2, <1>3 DEF Turns, Settled, Yields, Waits

\* A parked peer whose backoff is over is passed over no more often than there are
\* peers beyond those a tick knocks on, for any number of both: the limit applies
\* to those that are due, and each time somebody ahead of the peer goes behind it
\* (reviveParkedPeers). Peers just parked come first, and are not counted.
THEOREM TurnComes == QueueSpec => []DueSoon
<1>1. QueueInit => Shape /\ Turns
  BY InitShape, InitTurns DEF QueueInit
<1>2. (Shape /\ Turns) /\ [QueueNext]_<<vars, waiting, missed>> => (Shape /\ Turns)'
  <2>1. Shape /\ [QueueNext]_<<vars, waiting, missed>> => Shape'
    BY NextShape DEF QueueNext, vars
  <2>2. QED
    BY <2>1, NextTurns, PatienceAssumption
<1>3. Shape /\ Turns => DueSoon
  <2> SUFFICES ASSUME Turns, NEW a \in Addr PROVE missed[a] <= Patience
    BY DEF DueSoon
  <2>1. /\ missed[a] \in Nat /\ Cardinality(Ahead(a)) \in Nat /\ Cardinality(Addr) \in Nat
        /\ ProbesPerTick \in Nat /\ Patience \in Nat
    BY AddrSize, NumberAssumption, PatienceAssumption DEF Turns, Ahead
  <2>2. missed[a] = 0 \/ missed[a] + Cardinality(Ahead(a)) <= Spread
    BY DEF Turns, Yields
  <2>3. QED
    BY <2>1, <2>2, PatienceAssumption DEF Spread
<1>4. QED
  BY <1>1, <1>2, <1>3, PTL DEF QueueSpec
=============================================================================
