-------------------------- MODULE TagPages_proofs ---------------------------
(* Proofs about TagPages, for any tags, page sizes, page cap, entries and     *)
(* Link headers, and any number of changes during the walk.                   *)
EXTENDS TagPages, FiniteSetTheorems, SequenceTheorems, WellFoundedInduction, NaturalsInduction,
        TLAPS

-----------------------------------------------------------------------------
(* Induction over an interval, for sets instead of predicates.               *)

\* A set with 0 and with the successor of each of its members holds Nat.
LEMMA NatInduct ==
    ASSUME NEW S, 0 \in S, \A n \in Nat : n \in S => n + 1 \in S
    PROVE  Nat \subseteq S
<1> DEFINE T == Nat \ S
           R == {ss \in Nat \X Nat : ss[1] < ss[2]}
<1> SUFFICES ASSUME T # {} PROVE FALSE
  OBVIOUS
<1>1. IsWellFoundedOn(R, Nat)
  BY NatLessThanWellFounded DEF OpToRel
<1>2. PICK x \in T : \A y \in T : ~(<<y, x>> \in R)
  <2>1. T \subseteq Nat
    OBVIOUS
  <2> HIDE DEF T, R
  <2> QED BY <1>1, <2>1, WFMin
<1>3. x \in Nat /\ x # 0
  OBVIOUS
<1>4. x - 1 \in Nat
  BY <1>3
<1>5. <<x - 1, x>> \in R
  BY <1>3, <1>4
<1>6. x - 1 \in S
  BY <1>2, <1>4, <1>5
<1>7. x \in S
  BY <1>4, <1>6
<1> QED BY <1>7

LEMMA UpTo ==
    ASSUME NEW N \in Nat, NEW S, 0 \in S, \A n \in 0 .. N - 1 : n \in S => n + 1 \in S
    PROVE  0 .. N \subseteq S
<1> DEFINE T == {n \in Nat : n <= N => n \in S}
<1>1. 0 \in T
  OBVIOUS
<1>2. ASSUME NEW n \in Nat, n \in T PROVE n + 1 \in T
  BY <1>2
<1>3. Nat \subseteq T
  <2> HIDE DEF T
  <2> QED BY <1>1, <1>2, NatInduct
<1> QED BY <1>3

\* A function whose values stay in a set.
LEMMA Stays ==
    ASSUME NEW N \in Nat, NEW X, NEW g, g[0] \in X,
           \A i \in 1 .. N : g[i - 1] \in X => g[i] \in X
    PROVE  \A n \in 0 .. N : g[n] \in X
<1> DEFINE S == {n \in 0 .. N : g[n] \in X}
<1>1. 0 \in S
  OBVIOUS
<1>2. ASSUME NEW n \in 0 .. N - 1, n \in S PROVE n + 1 \in S
  <2>1. n + 1 \in 1 .. N /\ (n + 1) - 1 = n
    OBVIOUS
  <2> QED BY <1>2, <2>1
<1>3. 0 .. N \subseteq S
  <2> HIDE DEF S
  <2> QED BY <1>1, <1>2, UpTo
<1> QED BY <1>3

\* A function on 0 .. N with values in X that begins with base and goes on by
\* a step.
IsStep(step, X, N) == N \in Nat /\ step \in [X \X (1 .. N) -> X]

IsFold(f, X, base, N, step) ==
    /\ f \in [0 .. N -> X]
    /\ f[0] = base
    /\ \A i \in 1 .. N : f[i] = step[<<f[i - 1], i>>]

LEMMA FoldExists ==
    ASSUME NEW X, NEW base \in X, NEW N, NEW step, IsStep(step, X, N)
    PROVE  \E f : IsFold(f, X, base, N, step)
<1> USE DEF IsStep
<1> DEFINE Good(f, n) == f[0] = base /\ \A i \in 1 .. n : f[i] = step[<<f[i - 1], i>>]
           S == {n \in 0 .. N : \E f \in [0 .. n -> X] : Good(f, n)}
<1>1. 0 \in S
  <2> DEFINE f == [i \in 0 .. 0 |-> base]
  <2>1. f \in [0 .. 0 -> X] /\ Good(f, 0)
    OBVIOUS
  <2>2. \E h \in [0 .. 0 -> X] : Good(h, 0)
    <3> HIDE DEF f
    <3> QED BY <2>1
  <2> QED BY <2>2
<1>2. ASSUME NEW n \in 0 .. N - 1, n \in S PROVE n + 1 \in S
  <2>1. PICK f \in [0 .. n -> X] : Good(f, n)
    BY <1>2
  <2> DEFINE next == step[<<f[n], n + 1>>]
             g == [i \in 0 .. n + 1 |-> IF i = n + 1 THEN next ELSE f[i]]
  <2>2. next \in X
    <3>1. f[n] \in X /\ n + 1 \in 1 .. N
      OBVIOUS
    <3> QED BY <3>1
  <2>3. g \in [0 .. n + 1 -> X]
    <3>1. ASSUME NEW i \in 0 .. n + 1 PROVE (IF i = n + 1 THEN next ELSE f[i]) \in X
      <4> HIDE DEF next
      <4>1. i # n + 1 => i \in 0 .. n
        OBVIOUS
      <4> QED BY <2>2, <4>1
    <3> HIDE DEF next
    <3> QED BY <3>1
  <2>4. Good(g, n + 1)
    <3>1. g[0] = base
      BY <2>1
    <3>2. ASSUME NEW i \in 1 .. n + 1 PROVE g[i] = step[<<g[i - 1], i>>]
      <4>1. CASE i = n + 1
        <5>1. i - 1 = n /\ g[i - 1] = f[n] /\ g[i] = next
          BY <4>1
        <5> HIDE DEF g
        <5>2. step[<<g[i - 1], i>>] = next
          BY <4>1, <5>1
        <5> QED BY <5>1, <5>2
      <4>2. CASE i # n + 1
        <5>1. i \in 1 .. n /\ i \in 0 .. n /\ i - 1 \in 0 .. n
          BY <4>2
        <5>2. g[i] = f[i] /\ g[i - 1] = f[i - 1]
          BY <4>2, <5>1
        <5>3. f[i] = step[<<f[i - 1], i>>]
          BY <2>1, <5>1
        <5> QED BY <5>2, <5>3
      <4> QED BY <4>1, <4>2
    <3> QED BY <3>1, <3>2
  <2>5. \E h \in [0 .. n + 1 -> X] : Good(h, n + 1)
    <3> HIDE DEF g
    <3> QED BY <2>3, <2>4
  <2> QED BY <2>5
<1>3. 0 .. N \subseteq S
  <2> HIDE DEF S
  <2> QED BY <1>1, <1>2, UpTo
<1>4. N \in S
  BY <1>3
<1>5. \E f \in [0 .. N -> X] : Good(f, N)
  BY <1>4
<1> QED BY <1>5 DEF IsFold

-----------------------------------------------------------------------------
(* Sorted sequences.                                                         *)

\* s has the members of S, each once, from the lowest, or from the highest.
Climbs(s, S) ==
    /\ s \in Seq(S) /\ Range(s) = S
    /\ \A i, j \in 1 .. Len(s) : i < j => s[i] < s[j]

Falls(s, S) ==
    /\ s \in Seq(S) /\ Range(s) = S
    /\ \A i, j \in 1 .. Len(s) : i < j => s[i] > s[j]

\* A finite set of numbers that is not empty has a greatest one.
LEMMA HasMax ==
    ASSUME NEW S, S \subseteq Int, IsFiniteSet(S), S # {}
    PROVE  \E m \in S : \A t \in S : t <= m
<1> DEFINE Max_(T) == \E m \in T : \A t \in T : t <= m
           N == {n \in Nat : \A T \in SUBSET S : Cardinality(T) = n /\ T # {} => Max_(T)}
<1>1. 0 \in N
  <2>1. ASSUME NEW T \in SUBSET S, Cardinality(T) = 0, T # {} PROVE FALSE
    <3>1. IsFiniteSet(T)
      BY FS_Subset
    <3> QED BY <2>1, <3>1, FS_EmptySet
  <2> QED BY <2>1
<1>2. ASSUME NEW n \in Nat, n \in N PROVE n + 1 \in N
  <2> SUFFICES ASSUME NEW T \in SUBSET S, Cardinality(T) = n + 1, T # {} PROVE Max_(T)
    OBVIOUS
  <2>1. PICK x \in T : TRUE
    OBVIOUS
  <2> DEFINE U == T \ {x}
  <2>2. IsFiniteSet(T)
    BY FS_Subset
  <2>3. Cardinality(U) = n
    <3>1. Cardinality(T \ {x}) = Cardinality(T) - 1
      BY <2>2, FS_RemoveElement
    <3> QED BY <3>1
  <2>4. CASE U = {}
    <3>1. \A t \in T : t <= x
      BY <2>4
    <3> QED BY <3>1
  <2>5. CASE U # {}
    <3>1. Max_(U)
      BY <1>2, <2>3, <2>5
    <3>2. PICK m \in U : \A t \in U : t <= m
      BY <3>1
    <3>3. m \in Int /\ x \in Int /\ m \in T /\ \A t \in T : t \in U \/ t = x
      OBVIOUS
    <3>4. CASE x <= m
      BY <3>2, <3>3, <3>4
    <3>5. CASE m <= x
      <4>1. \A t \in T : t \in Int
        OBVIOUS
      <4>2. \A t \in T : t <= x
        BY <3>2, <3>3, <3>5, <4>1
      <4> QED BY <4>2
    <3> QED BY <3>3, <3>4, <3>5
  <2> QED BY <2>4, <2>5
<1>3. Nat \subseteq N
  <2> HIDE DEF N
  <2> QED BY <1>1, <1>2, NatInduct
<1>4. Cardinality(S) \in N
  BY <1>3, FS_CardinalityType
<1> QED BY <1>4

\* A finite set of numbers can be sorted.
LEMMA CanSort ==
    ASSUME NEW S, S \subseteq Int, IsFiniteSet(S)
    PROVE  \E s \in [1 .. Cardinality(S) -> S] :
              Range(s) = S /\ \A i, j \in DOMAIN s : i < j => s[i] < s[j]
<1> DEFINE Up(s, T) == Range(s) = T /\ \A i, j \in DOMAIN s : i < j => s[i] < s[j]
           Sort(n, T) == \E s \in [1 .. n -> T] : Up(s, T)
           N == {n \in Nat : \A T \in SUBSET S : Cardinality(T) = n => Sort(n, T)}
<1>1. 0 \in N
  <2> SUFFICES ASSUME NEW T \in SUBSET S, Cardinality(T) = 0 PROVE Sort(0, T)
    OBVIOUS
  <2>1. T = {}
    <3>1. IsFiniteSet(T)
      BY FS_Subset
    <3> QED BY <3>1, FS_EmptySet
  <2> DEFINE e == [i \in 1 .. 0 |-> 0]
  <2>2. e \in [1 .. 0 -> T] /\ Range(e) = T /\ DOMAIN e = {}
    BY <2>1 DEF Range
  <2>3. Up(e, T)
    BY <2>2
  <2> HIDE DEF e, Up
  <2> QED BY <2>2, <2>3
<1>2. ASSUME NEW n \in Nat, n \in N PROVE n + 1 \in N
  <2> SUFFICES ASSUME NEW T \in SUBSET S, Cardinality(T) = n + 1 PROVE Sort(n + 1, T)
    OBVIOUS
  <2>1. IsFiniteSet(T) /\ T \subseteq Int
    BY FS_Subset
  <2>2. T # {}
    BY FS_EmptySet
  <2>3. PICK m \in T : \A t \in T : t <= m
    BY <2>1, <2>2, HasMax
  <2> DEFINE U == T \ {m}
  <2>4. Cardinality(U) = n
    <3>1. Cardinality(T \ {m}) = Cardinality(T) - 1
      BY <2>1, FS_RemoveElement
    <3> QED BY <3>1
  <2>5. Sort(n, U)
    BY <1>2, <2>4
  <2>6. PICK r \in [1 .. n -> U] : Up(r, U)
    BY <2>5
  <2> DEFINE s == [i \in 1 .. n + 1 |-> IF i = n + 1 THEN m ELSE r[i]]
  <2>7. \A i \in 1 .. n : s[i] = r[i] /\ r[i] \in U
    OBVIOUS
  <2>8. s[n + 1] = m /\ DOMAIN s = 1 .. n + 1
    OBVIOUS
  <2>9. \A i \in 1 .. n + 1 : i \in 1 .. n \/ i = n + 1
    OBVIOUS
  <2> HIDE DEF s
  <2>10. s \in [1 .. n + 1 -> T]
    <3>1. ASSUME NEW i \in 1 .. n + 1 PROVE s[i] \in T
      BY <2>7, <2>8, <2>9
    <3>2. s = [i \in 1 .. n + 1 |-> s[i]]
      BY DEF s
    <3> QED BY <3>1, <3>2
  <2>11. Range(s) = T
    <3>1. ASSUME NEW t \in T PROVE t \in Range(s)
      <4>1. CASE t = m
        BY <4>1, <2>8 DEF Range
      <4>2. CASE t # m
        <5>1. t \in Range(r)
          BY <4>2, <2>6
        <5>2. PICK i \in 1 .. n : t = r[i]
          BY <5>1 DEF Range
        <5>3. i \in 1 .. n + 1 /\ s[i] = t
          BY <2>7, <5>2
        <5> QED BY <2>8, <5>3 DEF Range
      <4> QED BY <4>1, <4>2
    <3>2. ASSUME NEW t \in Range(s) PROVE t \in T
      BY <2>10, <3>2 DEF Range
    <3> QED BY <3>1, <3>2
  <2>12. ASSUME NEW i \in 1 .. n + 1, NEW j \in 1 .. n + 1, i < j PROVE s[i] < s[j]
    <3>1. i \in 1 .. n
      BY <2>12
    <3>2. s[i] \in U /\ s[i] = r[i]
      BY <3>1, <2>7
    <3>3. CASE j = n + 1
      <4>1. s[i] \in Int /\ m \in Int /\ s[i] # m /\ s[i] <= m
        BY <3>2, <2>1, <2>3
      <4> QED BY <3>3, <4>1, <2>8
    <3>4. CASE j \in 1 .. n
      BY <2>6, <2>7, <2>12, <3>1, <3>4
    <3> QED BY <2>9, <3>3, <3>4
  <2>13. Up(s, T)
    BY <2>8, <2>11, <2>12
  <2> HIDE DEF Up
  <2> QED BY <2>10, <2>13
<1>3. Nat \subseteq N
  <2> HIDE DEF N
  <2> QED BY <1>1, <1>2, NatInduct
<1>4. Cardinality(S) \in N
  BY <1>3, FS_CardinalityType
<1> QED BY <1>4

LEMMA AscendingRule ==
    ASSUME NEW S, S \subseteq Int, IsFiniteSet(S)
    PROVE  Climbs(Ascending(S), S)
<1> DEFINE s == Ascending(S)
           n == Cardinality(S)
<1>1. n \in Nat
  BY FS_CardinalityType
<1>2. /\ s \in [1 .. n -> S] /\ Range(s) = S
      /\ \A i, j \in DOMAIN s : i < j => s[i] < s[j]
  BY CanSort DEF Ascending
<1> HIDE DEF s, n
<1>3. s \in Seq(S) /\ Len(s) = n
  BY <1>1, <1>2, SeqDef
<1> QED BY <1>2, <1>3 DEF Climbs, s

LEMMA DescendingRule ==
    ASSUME NEW S, S \subseteq Int, IsFiniteSet(S)
    PROVE  Falls(Descending(S), S)
<1> DEFINE a == Ascending(S)
           n == Len(a)
           d == Descending(S)
<1>1. a \in Seq(S) /\ Range(a) = S /\ \A i, j \in 1 .. n : i < j => a[i] < a[j]
  BY AscendingRule DEF Climbs
<1>2. n \in Nat /\ DOMAIN a = 1 .. n
  BY <1>1
<1>3. d = [i \in 1 .. n |-> a[n + 1 - i]]
  BY <1>2 DEF Descending
<1> HIDE DEF a, n, d
<1>4. ASSUME NEW i \in 1 .. n
      PROVE n + 1 - i \in 1 .. n /\ d[i] = a[n + 1 - i] /\ a[i] \in S /\ n + 1 - (n + 1 - i) = i
  BY <1>1, <1>2, <1>3, ElementOfSeq
<1>5. d \in Seq(S) /\ Len(d) = n
  <2>1. \A i \in 1 .. n : d[i] \in S
    BY <1>4
  <2>2. d \in [1 .. n -> S]
    BY <1>3, <2>1
  <2> QED BY <1>2, <2>2, SeqDef
<1>6. Range(d) = S
  <2>1. ASSUME NEW t \in S PROVE t \in Range(d)
    <3>1. PICK i \in 1 .. n : t = a[i]
      BY <1>1, <1>2 DEF Range
    <3>2. n + 1 - i \in DOMAIN d /\ d[n + 1 - i] = t
      BY <1>2, <1>3, <1>4, <3>1
    <3> QED BY <3>2 DEF Range
  <2>2. ASSUME NEW t \in Range(d) PROVE t \in S
    BY <1>5, <2>2, ElementOfSeq DEF Range
  <2> QED BY <2>1, <2>2
<1>7. ASSUME NEW i \in 1 .. n, NEW j \in 1 .. n, i < j PROVE d[i] > d[j]
  <2>1. n + 1 - j < n + 1 - i
    BY <1>2, <1>7
  <2>2. a[n + 1 - j] < a[n + 1 - i]
    BY <1>1, <1>4, <2>1
  <2>3. a[n + 1 - j] \in Int /\ a[n + 1 - i] \in Int
    BY <1>4
  <2> QED BY <1>4, <2>2, <2>3
<1> QED BY <1>5, <1>6, <1>7 DEF Falls, d

-----------------------------------------------------------------------------
(* The entries of index.yaml and their versions.                             *)

LEMMA FallsOnce ==
    ASSUME NEW S, S \subseteq Int, NEW s, Falls(s, S),
           NEW i \in 1 .. Len(s), NEW j \in 1 .. Len(s), s[i] = s[j]
    PROVE  i = j
<1>1. s \in Seq(S)
  BY DEF Falls
<1>2. s[i] \in S /\ s[j] \in S
  BY <1>1, ElementOfSeq
<1>3. s[i] \in Int /\ s[j] \in Int
  BY <1>2
<1>4. i \in Int /\ j \in Int
  OBVIOUS
<1> QED BY <1>3, <1>4 DEF Falls

\* The sequences that begin with d and go on with its members and NoVersion.
Extended(d, S) ==
    {e \in Seq(S \cup {NoVersion}) :
        Len(e) >= Len(d) /\ \A k \in 1 .. Len(d) : e[k] = d[k]}

LEMMA ExtendedSelf ==
    ASSUME NEW S, NEW d \in Seq(S) PROVE d \in Extended(d, S)
<1>1. d \in Seq(S \cup {NoVersion})
  BY SeqMonotonic
<1>2. Len(d) \in Nat
  OBVIOUS
<1> QED BY <1>1, <1>2 DEF Extended

LEMMA ExtendedMore ==
    ASSUME NEW S, NEW d \in Seq(S), NEW e \in Extended(d, S), NEW x \in S \cup {NoVersion}
    PROVE  Append(e, x) \in Extended(d, S)
<1> DEFINE a == Append(e, x)
<1>1. e \in Seq(S \cup {NoVersion}) /\ Len(d) \in Nat /\ Len(e) \in Nat /\ Len(e) >= Len(d)
  BY DEF Extended
<1>2. /\ a \in Seq(S \cup {NoVersion}) /\ Len(a) = Len(e) + 1
      /\ \A i \in 1 .. Len(e) : a[i] = e[i]
  BY <1>1, AppendProperties
<1> HIDE DEF a
<1>3. ASSUME NEW k \in 1 .. Len(d) PROVE a[k] = d[k]
  <2>1. k \in 1 .. Len(e)
    BY <1>1
  <2> QED BY <1>2, <2>1 DEF Extended
<1>4. Len(a) >= Len(d)
  BY <1>1, <1>2
<1>5. a \in Extended(d, S)
  BY <1>2, <1>3, <1>4 DEF Extended
<1> QED BY <1>5 DEF a

LEMMA EntriesRule ==
    ASSUME again \in Seq(Tags \cup {NoVersion}),
           Descending(published) \in Seq(published)
    PROVE  Entries \in Extended(Descending(published), published)
<1> DEFINE N == Len(again)
           base == Descending(published)
           X == Extended(base, published)
           step == [p \in X \X (1 .. N) |-> WithExtra(p[1], again[p[2]])]
           Rec(f) == [n \in 0 .. N |-> IF n = 0 THEN base ELSE WithExtra(f[n - 1], again[n])]
<1>1. N \in Nat /\ base \in X
  BY ExtendedSelf
<1>2. ASSUME NEW x \in X, NEW i \in 1 .. N PROVE WithExtra(x, again[i]) \in X
  BY ExtendedMore DEF WithExtra
<1> HIDE DEF X, N, base
<1>3. IsStep(step, X, N)
  BY <1>1, <1>2 DEF IsStep
<1>4. ASSUME NEW x \in X, NEW i \in 1 .. N PROVE step[<<x, i>>] = WithExtra(x, again[i])
  OBVIOUS
<1>5. PICK f : IsFold(f, X, base, N, step)
  <2> HIDE DEF step
  <2> QED BY <1>1, <1>3, FoldExists
<1> HIDE DEF step
<1>6. /\ f \in [0 .. N -> X] /\ f[0] = base
      /\ \A i \in 1 .. N : f[i] = WithExtra(f[i - 1], again[i])
  <2> SUFFICES ASSUME NEW i \in 1 .. N PROVE f[i] = WithExtra(f[i - 1], again[i])
    BY <1>5 DEF IsFold
  <2>1. i - 1 \in 0 .. N
    BY <1>1
  <2>2. f[i - 1] \in X
    BY <1>5, <2>1 DEF IsFold
  <2> QED BY <1>4, <1>5, <2>2 DEF IsFold
<1>7. f = Rec(f)
  BY <1>1, <1>6
<1>8. EntriesTo = Rec(EntriesTo)
  BY <1>7 DEF EntriesTo, N, base
<1>9. EntriesTo[0] = base
  BY <1>1, <1>8
<1>10. \A i \in 1 .. N : EntriesTo[i] = WithExtra(EntriesTo[i - 1], again[i])
  BY <1>1, <1>8
<1>11. \A n \in 0 .. N : EntriesTo[n] \in X
  <2>1. EntriesTo[0] \in X
    BY <1>1, <1>9
  <2>2. \A i \in 1 .. N : EntriesTo[i - 1] \in X => EntriesTo[i] \in X
    BY <1>2, <1>10
  <2> QED BY <1>1, <2>1, <2>2, Stays, Zenon
<1>12. EntriesTo[N] \in X
  BY <1>1, <1>11
<1> QED BY <1>12 DEF Entries, N, X, base

LEMMA VersionsUnfold ==
    ASSUME NEW T, NEW e \in Seq(T)
    PROVE  /\ VersionsTo(e)[0] = <<>>
           /\ \A i \in 1 .. Len(e) : VersionsTo(e)[i] = WithVersion(VersionsTo(e)[i - 1], e[i])
<1> DEFINE N == Len(e)
           X == Seq(T)
           step == [p \in X \X (1 .. N) |-> WithVersion(p[1], e[p[2]])]
           Rec(f) == [n \in 0 .. N |-> IF n = 0 THEN <<>> ELSE WithVersion(f[n - 1], e[n])]
<1>1. N \in Nat /\ <<>> \in X
  OBVIOUS
<1>2. ASSUME NEW x \in X, NEW i \in 1 .. N PROVE WithVersion(x, e[i]) \in X
  BY DEF WithVersion
<1> HIDE DEF X, N
<1>3. IsStep(step, X, N)
  BY <1>1, <1>2 DEF IsStep
<1>4. ASSUME NEW x \in X, NEW i \in 1 .. N PROVE step[<<x, i>>] = WithVersion(x, e[i])
  OBVIOUS
<1>5. PICK f : IsFold(f, X, <<>>, N, step)
  <2> HIDE DEF step
  <2> QED BY <1>1, <1>3, FoldExists
<1> HIDE DEF step
<1>6. /\ f \in [0 .. N -> X] /\ f[0] = <<>>
      /\ \A i \in 1 .. N : f[i] = WithVersion(f[i - 1], e[i])
  <2> SUFFICES ASSUME NEW i \in 1 .. N PROVE f[i] = WithVersion(f[i - 1], e[i])
    BY <1>5 DEF IsFold
  <2>1. i - 1 \in 0 .. N
    BY <1>1
  <2>2. f[i - 1] \in X
    BY <1>5, <2>1 DEF IsFold
  <2> QED BY <1>4, <1>5, <2>2 DEF IsFold
<1>7. f = Rec(f)
  BY <1>1, <1>6
<1>8. VersionsTo(e) = Rec(VersionsTo(e))
  BY <1>7 DEF VersionsTo, N
<1>9. VersionsTo(e)[0] = <<>>
  BY <1>1, <1>8
<1>10. \A i \in 1 .. N : VersionsTo(e)[i] = WithVersion(VersionsTo(e)[i - 1], e[i])
  BY <1>1, <1>8
<1> QED BY <1>9, <1>10 DEF N

\* The first n members of a sequence.
LEMMA Prefix ==
    ASSUME NEW S, NEW s \in Seq(S), NEW n \in 0 .. Len(s)
    PROVE  /\ SubSeq(s, 1, n) \in Seq(S) /\ Len(SubSeq(s, 1, n)) = n
           /\ \A i \in 1 .. n : SubSeq(s, 1, n)[i] = s[i]
           /\ Range(SubSeq(s, 1, n)) = {s[i] : i \in 1 .. n}
<1> DEFINE r == SubSeq(s, 1, n)
<1>1. n \in Nat /\ n <= Len(s) /\ Len(s) \in Nat
  OBVIOUS
<1>2. \A i \in 1 .. n : s[i] \in S
  BY <1>1, ElementOfSeq
<1>3. r \in Seq(S) /\ Len(r) = n /\ \A i \in 1 .. n : r[i] = s[i]
  BY <1>1, <1>2, SubSeqProperties
<1> HIDE DEF r
<1>4. Range(r) = {s[i] : i \in 1 .. n}
  <2>1. DOMAIN r = 1 .. n
    BY <1>3
  <2> QED BY <1>3, <2>1 DEF Range
<1> QED BY <1>3, <1>4 DEF r

\* list_versions finds the versions of the repository in their order, each
\* once, whatever follows them in the index.
LEMMA VersionsRule ==
    ASSUME NEW S, S \subseteq Int, NoVersion \notin S, NEW d, Falls(d, S),
           NEW e \in Extended(d, S)
    PROVE  list_versions(e) = d
<1> DEFINE M == Len(d)
           V(n) == VersionsTo(e)[n]
           Q == {n \in 0 .. Len(e) : V(n) = SubSeq(d, 1, IF n <= M THEN n ELSE M)}
<1>1. d \in Seq(S) /\ Range(d) = S /\ M \in Nat
  BY DEF Falls
<1>2. e \in Seq(S \cup {NoVersion}) /\ Len(e) \in Nat /\ Len(e) >= M
      /\ \A k \in 1 .. M : e[k] = d[k]
  BY DEF Extended
<1>3. V(0) = <<>> /\ \A i \in 1 .. Len(e) : V(i) = WithVersion(V(i - 1), e[i])
  BY <1>2, VersionsUnfold
<1> HIDE DEF V, M
<1>4. 0 \in Q
  <2>1. SubSeq(d, 1, 0) = <<>>
    BY SubSeqEmpty
  <2>2. (IF 0 <= M THEN 0 ELSE M) = 0
    BY <1>1
  <2>3. 0 \in 0 .. Len(e)
    BY <1>2
  <2> QED BY <1>3, <2>1, <2>2, <2>3
<1>5. ASSUME NEW n \in 0 .. Len(e) - 1, n \in Q PROVE n + 1 \in Q
  <2>1. n + 1 \in 1 .. Len(e) /\ n + 1 \in 0 .. Len(e) /\ (n + 1) - 1 = n
    BY <1>2
  <2>2. V(n + 1) = WithVersion(V(n), e[n + 1])
    BY <1>3, <2>1
  <2>3. CASE n < M
    <3>1. n + 1 \in 1 .. M /\ n \in 0 .. M /\ n <= M /\ n + 1 <= M
      BY <1>1, <2>3
    <3>2. V(n) = SubSeq(d, 1, n)
      BY <1>5, <3>1
    <3>3. e[n + 1] = d[n + 1] /\ d[n + 1] \in S
      BY <1>1, <1>2, <3>1, ElementOfSeq DEF M
    <3>4. d[n + 1] \notin Range(SubSeq(d, 1, n))
      <4> SUFFICES ASSUME d[n + 1] \in Range(SubSeq(d, 1, n)) PROVE FALSE
        OBVIOUS
      <4>1. PICK i \in 1 .. n : d[n + 1] = d[i]
        BY <1>1, <3>1, Prefix DEF M
      <4>2. i \in 1 .. Len(d) /\ n + 1 \in 1 .. Len(d) /\ i # n + 1
        BY <1>1, <3>1 DEF M
      <4> QED BY <4>1, <4>2, FallsOnce
    <3>5. V(n + 1) = Append(SubSeq(d, 1, n), d[n + 1])
      BY <2>2, <3>2, <3>3, <3>4 DEF WithVersion
    <3>6. Append(SubSeq(d, 1, n), d[n + 1]) = SubSeq(d, 1, n + 1)
      <4> DEFINE a == SubSeq(d, 1, n)
                 b == SubSeq(d, 1, n + 1)
      <4>1. a \in Seq(S) /\ Len(a) = n /\ \A i \in 1 .. n : a[i] = d[i]
        BY <1>1, <3>1, Prefix DEF M
      <4>2. b \in Seq(S) /\ Len(b) = n + 1 /\ \A i \in 1 .. n + 1 : b[i] = d[i]
        <5>1. n + 1 \in 0 .. Len(d)
          BY <1>1, <3>1 DEF M
        <5> QED BY <1>1, <5>1, Prefix
      <4> HIDE DEF a, b
      <4>3. /\ Append(a, d[n + 1]) \in Seq(S) /\ Len(Append(a, d[n + 1])) = n + 1
            /\ \A i \in 1 .. n : Append(a, d[n + 1])[i] = a[i]
            /\ Append(a, d[n + 1])[n + 1] = d[n + 1]
        BY <3>3, <4>1, AppendProperties
      <4>4. \A i \in 1 .. n + 1 : Append(a, d[n + 1])[i] = b[i]
        <5>1. \A i \in 1 .. n + 1 : i \in 1 .. n \/ i = n + 1
          OBVIOUS
        <5> QED BY <4>1, <4>2, <4>3, <5>1
      <4>5. Append(a, d[n + 1]) = b
        BY <4>2, <4>3, <4>4, SeqEqual
      <4> QED BY <4>5 DEF a, b
    <3> QED BY <2>1, <3>1, <3>5, <3>6
  <2>4. CASE ~(n < M)
    <3>1. (IF n <= M THEN n ELSE M) = M /\ (IF n + 1 <= M THEN n + 1 ELSE M) = M
      BY <1>1, <2>4
    <3>2. V(n) = d
      BY <1>1, <1>5, <3>1, SubSeqFull DEF M
    <3>3. e[n + 1] \in S \cup {NoVersion}
      BY <1>2, <2>1, ElementOfSeq
    <3>4. V(n + 1) = d
      BY <1>1, <2>2, <3>2, <3>3 DEF WithVersion
    <3> QED BY <1>1, <2>1, <3>1, <3>4, SubSeqFull DEF M
  <2> QED BY <2>3, <2>4
<1>6. 0 .. Len(e) \subseteq Q
  <2> HIDE DEF Q
  <2> QED BY <1>2, <1>4, <1>5, UpTo
<1>7. Len(e) \in Q
  BY <1>2, <1>6
<1>8. V(Len(e)) = SubSeq(d, 1, M)
  <2>1. (IF Len(e) <= M THEN Len(e) ELSE M) = M
    BY <1>1, <1>2
  <2> QED BY <1>7, <2>1
<1> QED BY <1>1, <1>8, SubSeqFull DEF list_versions, V, M

-----------------------------------------------------------------------------
(* Pages.                                                                    *)

\* No tag is twice on a page.
Once(tags) == \A i, j \in DOMAIN tags : tags[i] = tags[j] => i = j

\* A page is what a sequence begins with: all of it, nothing if n is 0, or the
\* first n tags with a link that continues after the last of them.
LEMMA PageRule ==
    ASSUME NEW S, NEW s \in Seq(S), NEW n, n \in Nat \/ n = None
    PROVE  \/ /\ Page(s, n).next = {}
              /\ Page(s, n).tags = s \/ (n = 0 /\ Page(s, n).tags = SubSeq(s, 1, 0))
           \/ /\ n \in 1 .. Len(s)
              /\ Page(s, n).next = {[n |-> n, last |-> s[n]]}
              /\ Page(s, n).tags = SubSeq(s, 1, n)
<1>1. Len(s) \in Nat
  OBVIOUS
<1>2. CASE n # None /\ Len(s) > n
  <2>1. n \in Nat
    BY <1>2
  <2>2. Page(s, n).tags = SubSeq(s, 1, n)
        /\ Page(s, n).next = IF n > 0 THEN {[n |-> n, last |-> s[n]]} ELSE {}
    BY <1>2 DEF Page, NoLink
  <2>3. CASE n = 0
    BY <2>2, <2>3
  <2>4. CASE n # 0
    <3>1. n > 0 /\ n \in 1 .. Len(s)
      BY <1>1, <1>2, <2>1, <2>4
    <3> QED BY <2>2, <3>1
  <2> QED BY <2>3, <2>4
<1>3. CASE ~(n # None /\ Len(s) > n)
  BY <1>3 DEF Page, NoLink
<1> QED BY <1>2, <1>3

LEMMA PrefixOnce ==
    ASSUME NEW S, NEW s \in Seq(S), Once(s), NEW n \in 0 .. Len(s)
    PROVE  Once(SubSeq(s, 1, n)) /\ Range(SubSeq(s, 1, n)) \subseteq Range(s)
<1> DEFINE r == SubSeq(s, 1, n)
<1>1. Len(r) = n /\ r \in Seq(S) /\ Len(s) \in Nat /\ n \in Nat /\ n <= Len(s)
      /\ \A i \in 1 .. n : r[i] = s[i]
  BY Prefix
<1> HIDE DEF r
<1>2. DOMAIN r = 1 .. n /\ DOMAIN s = 1 .. Len(s) /\ \A i \in 1 .. n : i \in 1 .. Len(s)
  BY <1>1
<1>3. Once(r)
  BY <1>1, <1>2 DEF Once
<1>4. Range(r) \subseteq Range(s)
  BY <1>1, <1>2 DEF Range
<1> QED BY <1>3, <1>4 DEF r

\* What a page of a sorted sequence has, and where its link continues.
CutBelow(page, n, R) ==
    /\ Once(page.tags) /\ Range(page.tags) \subseteq R
    /\ page.next = {} => n = 0 \/ Range(page.tags) = R
    /\ page.next # {} =>
          n \in Nat /\ \E m \in R : /\ page.next = {[n |-> n, last |-> m]}
                                    /\ Range(page.tags) = {t \in R : t >= m}

CutAbove(page, n, R) ==
    /\ Once(page.tags) /\ Range(page.tags) \subseteq R
    /\ page.next = {} => n = 0 \/ Range(page.tags) = R
    /\ page.next # {} =>
          n \in Nat /\ \E m \in R : /\ page.next = {[n |-> n, last |-> m]}
                                    /\ Range(page.tags) = {t \in R : t <= m}

LEMMA FallsCut ==
    ASSUME NEW R, R \subseteq Int, NEW r, Falls(r, R), NEW n, n \in Nat \/ n = None
    PROVE  CutBelow(Page(r, n), n, R)
<1> DEFINE page == Page(r, n)
<1>1. r \in Seq(R) /\ Range(r) = R /\ Len(r) \in Nat /\ DOMAIN r = 1 .. Len(r)
  BY DEF Falls
<1>2. Once(r)
  BY <1>1, FallsOnce DEF Once
<1>3. /\ \A k \in 0 .. Len(r) : Once(SubSeq(r, 1, k)) /\ Range(SubSeq(r, 1, k)) \subseteq R
      /\ 0 \in 0 .. Len(r)
  BY <1>1, <1>2, PrefixOnce
<1>4. CASE page.next = {} /\ (page.tags = r \/ (n = 0 /\ page.tags = SubSeq(r, 1, 0)))
  <2>1. Once(page.tags) /\ Range(page.tags) \subseteq R
    BY <1>1, <1>2, <1>3, <1>4
  <2>2. n = 0 \/ Range(page.tags) = R
    BY <1>1, <1>4
  <2> HIDE DEF page
  <2>3. CutBelow(page, n, R)
    BY <1>4, <2>1, <2>2 DEF CutBelow
  <2> QED BY <2>3 DEF page
<1>5. CASE /\ n \in 1 .. Len(r) /\ page.next = {[n |-> n, last |-> r[n]]}
           /\ page.tags = SubSeq(r, 1, n)
  <2> DEFINE m == r[n]
  <2>1. m \in R /\ n \in Nat /\ n \in 0 .. Len(r) /\ \A i \in 1 .. Len(r) : r[i] \in R
    BY <1>1, <1>5, ElementOfSeq
  <2>2. Range(page.tags) = {r[i] : i \in 1 .. n}
    BY <1>1, <1>5, <2>1, Prefix
  <2>3. Once(page.tags) /\ Range(page.tags) \subseteq R
    BY <1>3, <1>5, <2>1
  <2>4. \A i \in 1 .. Len(r) : i \in 1 .. n <=> r[i] >= m
    <3> SUFFICES ASSUME NEW i \in 1 .. Len(r) PROVE i \in 1 .. n <=> r[i] >= m
      OBVIOUS
    <3>1. r[i] \in Int /\ m \in Int /\ i \in Int /\ n \in Int
      <4>1. r[i] \in Int /\ m \in Int
        BY <2>1
      <4>2. i \in Int /\ n \in Int
        BY <2>1
      <4> QED BY <4>1, <4>2
    <3>2. i < n => r[i] > m
      BY <1>5 DEF Falls
    <3>3. n < i => m > r[i]
      BY <1>5 DEF Falls
    <3> HIDE DEF m
    <3>4. i = n => r[i] = m
      BY DEF m
    <3> QED BY <3>1, <3>2, <3>3, <3>4
  <2> HIDE DEF m
  <2>5. Range(page.tags) = {t \in R : t >= m}
    <3>1. ASSUME NEW t \in R, t >= m PROVE t \in Range(page.tags)
      <4>1. PICK i \in 1 .. Len(r) : t = r[i]
        BY <1>1 DEF Range
      <4> QED BY <2>2, <2>4, <3>1, <4>1
    <3>2. ASSUME NEW t \in Range(page.tags) PROVE t \in R /\ t >= m
      <4>1. PICK i \in 1 .. n : t = r[i]
        BY <2>2
      <4>2. i \in 1 .. Len(r)
        BY <2>1
      <4> QED BY <2>1, <2>4, <4>1, <4>2
    <3> QED BY <3>1, <3>2
  <2>6. page.next = {[n |-> n, last |-> m]}
    BY <1>5 DEF m
  <2> HIDE DEF page
  <2>7. CutBelow(page, n, R)
    BY <2>1, <2>3, <2>5, <2>6 DEF CutBelow
  <2> QED BY <2>7 DEF page
<1> QED BY <1>1, <1>4, <1>5, PageRule

LEMMA ClimbsOnce ==
    ASSUME NEW S, S \subseteq Int, NEW s, Climbs(s, S),
           NEW i \in 1 .. Len(s), NEW j \in 1 .. Len(s), s[i] = s[j]
    PROVE  i = j
<1>1. s \in Seq(S)
  BY DEF Climbs
<1>2. s[i] \in S /\ s[j] \in S
  BY <1>1, ElementOfSeq
<1>3. s[i] \in Int /\ s[j] \in Int
  BY <1>2
<1>4. i \in Int /\ j \in Int
  OBVIOUS
<1> QED BY <1>3, <1>4 DEF Climbs

LEMMA ClimbsCut ==
    ASSUME NEW R, R \subseteq Int, NEW r, Climbs(r, R), NEW n, n \in Nat \/ n = None
    PROVE  CutAbove(Page(r, n), n, R)
<1> DEFINE page == Page(r, n)
<1>1. r \in Seq(R) /\ Range(r) = R /\ Len(r) \in Nat /\ DOMAIN r = 1 .. Len(r)
  BY DEF Climbs
<1>2. Once(r)
  BY <1>1, ClimbsOnce DEF Once
<1>3. /\ \A k \in 0 .. Len(r) : Once(SubSeq(r, 1, k)) /\ Range(SubSeq(r, 1, k)) \subseteq R
      /\ 0 \in 0 .. Len(r)
  BY <1>1, <1>2, PrefixOnce
<1>4. CASE page.next = {} /\ (page.tags = r \/ (n = 0 /\ page.tags = SubSeq(r, 1, 0)))
  <2>1. Once(page.tags) /\ Range(page.tags) \subseteq R
    BY <1>1, <1>2, <1>3, <1>4
  <2>2. n = 0 \/ Range(page.tags) = R
    BY <1>1, <1>4
  <2> HIDE DEF page
  <2>3. CutAbove(page, n, R)
    BY <1>4, <2>1, <2>2 DEF CutAbove
  <2> QED BY <2>3 DEF page
<1>5. CASE /\ n \in 1 .. Len(r) /\ page.next = {[n |-> n, last |-> r[n]]}
           /\ page.tags = SubSeq(r, 1, n)
  <2> DEFINE m == r[n]
  <2>1. m \in R /\ n \in Nat /\ n \in 0 .. Len(r) /\ \A i \in 1 .. Len(r) : r[i] \in R
    BY <1>1, <1>5, ElementOfSeq
  <2>2. Range(page.tags) = {r[i] : i \in 1 .. n}
    BY <1>1, <1>5, <2>1, Prefix
  <2>3. Once(page.tags) /\ Range(page.tags) \subseteq R
    BY <1>3, <1>5, <2>1
  <2>4. \A i \in 1 .. Len(r) : i \in 1 .. n <=> r[i] <= m
    <3> SUFFICES ASSUME NEW i \in 1 .. Len(r) PROVE i \in 1 .. n <=> r[i] <= m
      OBVIOUS
    <3>1. r[i] \in Int /\ m \in Int /\ i \in Int /\ n \in Int
      <4>1. r[i] \in Int /\ m \in Int
        BY <2>1
      <4>2. i \in Int /\ n \in Int
        BY <2>1
      <4> QED BY <4>1, <4>2
    <3>2. i < n => r[i] < m
      BY <1>5 DEF Climbs
    <3>3. n < i => m < r[i]
      BY <1>5 DEF Climbs
    <3> HIDE DEF m
    <3>4. i = n => r[i] = m
      BY DEF m
    <3> QED BY <3>1, <3>2, <3>3, <3>4
  <2> HIDE DEF m
  <2>5. Range(page.tags) = {t \in R : t <= m}
    <3>1. ASSUME NEW t \in R, t <= m PROVE t \in Range(page.tags)
      <4>1. PICK i \in 1 .. Len(r) : t = r[i]
        BY <1>1 DEF Range
      <4> QED BY <2>2, <2>4, <3>1, <4>1
    <3>2. ASSUME NEW t \in Range(page.tags) PROVE t \in R /\ t <= m
      <4>1. PICK i \in 1 .. n : t = r[i]
        BY <2>2
      <4>2. i \in 1 .. Len(r)
        BY <2>1
      <4> QED BY <2>1, <2>4, <4>1, <4>2
    <3> QED BY <3>1, <3>2
  <2>6. page.next = {[n |-> n, last |-> m]}
    BY <1>5 DEF m
  <2> HIDE DEF page
  <2>7. CutAbove(page, n, R)
    BY <2>1, <2>3, <2>5, <2>6 DEF CutAbove
  <2> QED BY <2>7 DEF page
<1> QED BY <1>1, <1>4, <1>5, PageRule

\* classic::tags continues after last if last is still there, and starts over
\* if it is not.
LEMMA RestRule ==
    ASSUME NEW S, S \subseteq Int, NEW d, Falls(d, S), NEW last
    PROVE  Falls(AfterLast(d, last), {t \in S : last \in S => t < last})
<1> DEFINE M == Len(d)
           p == Position(d, last)
           r == AfterLast(d, last)
           R == {t \in S : last \in S => t < last}
<1>1. d \in Seq(S) /\ Range(d) = S /\ M \in Nat /\ DOMAIN d = 1 .. M
  BY DEF Falls
<1>2. \A i \in 1 .. M : d[i] \in S /\ d[i] \in Int
  BY <1>1, ElementOfSeq
<1>3. CASE last \notin S
  <2>1. p = 0
    BY <1>1, <1>3 DEF Position
  <2>2. r = d
    BY <1>1, <2>1, SubSeqFull DEF AfterLast
  <2>3. R = S
    BY <1>3
  <2> QED BY <2>2, <2>3
<1>4. CASE last \in S
  <2>1. \E i \in DOMAIN d : d[i] = last /\ \A j \in 1 .. i - 1 : d[j] # last
    <3>1. PICK i \in 1 .. M : d[i] = last
      BY <1>1, <1>4 DEF Range
    <3>2. \A j \in 1 .. i - 1 : d[j] # last
      <4> SUFFICES ASSUME NEW j \in 1 .. i - 1, d[j] = last PROVE FALSE
        OBVIOUS
      <4>1. j \in 1 .. Len(d) /\ i \in 1 .. Len(d) /\ j # i /\ d[j] = d[i]
        BY <3>1
      <4> QED BY <4>1, FallsOnce
    <3> QED BY <1>1, <3>1, <3>2
  <2>2. p \in 1 .. M /\ d[p] = last
    <3>1. last \in Range(d)
      BY <1>1, <1>4
    <3> QED BY <1>1, <2>1, <3>1 DEF Position
  <2>3. r = SubSeq(d, p + 1, M)
    BY DEF AfterLast
  <2> HIDE DEF p, r
  <2>4. ASSUME NEW i \in 1 .. M PROVE i > p <=> d[i] \in R
    <3>1. p < i => last > d[i]
      BY <2>2 DEF Falls
    <3>2. i < p => d[i] > last
      BY <2>2 DEF Falls
    <3>3. i \in Int /\ p \in Int /\ d[i] \in Int /\ last \in Int /\ d[i] \in S
      BY <1>2, <1>4, <2>2
    <3>4. d[i] \in R <=> d[i] < last
      BY <1>4, <3>3
    <3> HIDE DEF R
    <3> QED BY <2>2, <3>1, <3>2, <3>3, <3>4
  <2> HIDE DEF R
  <2>5. /\ r \in Seq(R) /\ Len(r) = M - p
        /\ \A i \in 1 .. M - p : r[i] = d[p + i] /\ p + i \in 1 .. M
    <3>1. \A i \in p + 1 .. M : d[i] \in R
      BY <1>1, <2>2, <2>4
    <3>2. p + 1 \in Int /\ M \in Int
      BY <1>1, <2>2
    <3>3. r \in Seq(R) /\ Len(r) = IF p + 1 <= M THEN M - (p + 1) + 1 ELSE 0
      BY <2>3, <3>1, <3>2, SubSeqProperties
    <3>4. \A i \in 1 .. M - (p + 1) + 1 : r[i] = d[(p + 1) + i - 1]
      BY <2>3, <3>1, <3>2, SubSeqProperties
    <3>5. Len(r) = M - p
      <4>1. M \in Nat /\ p \in 1 .. M
        BY <1>1, <2>2
      <4> HIDE DEF M
      <4> QED BY <3>3, <4>1
    <3>6. ASSUME NEW i \in 1 .. M - p PROVE r[i] = d[p + i] /\ p + i \in 1 .. M
      <4>1. i \in 1 .. M - (p + 1) + 1 /\ (p + 1) + i - 1 = p + i /\ p + i \in 1 .. M
        BY <1>1, <2>2
      <4> QED BY <3>4, <4>1
    <3> QED BY <3>3, <3>5, <3>6
  <2>6. Range(r) = R
    <3>0. DOMAIN r = 1 .. M - p
      BY <2>5
    <3>1. ASSUME NEW t \in R PROVE t \in Range(r)
      <4>1. t \in S
        BY DEF R
      <4>2. PICK i \in 1 .. M : t = d[i]
        BY <1>1, <4>1 DEF Range
      <4>3. i > p
        BY <2>4, <4>2
      <4>4. i - p \in 1 .. M - p /\ p + (i - p) = i
        BY <1>1, <2>2, <4>3
      <4> QED BY <2>5, <3>0, <4>2, <4>4 DEF Range
    <3>2. ASSUME NEW t \in Range(r) PROVE t \in R
      <4>1. PICK i \in 1 .. Len(r) : t = r[i]
        BY <2>5, <3>0 DEF Range
      <4> QED BY <2>5, <4>1, ElementOfSeq
    <3> QED BY <3>1, <3>2
  <2>7. ASSUME NEW i \in 1 .. Len(r), NEW j \in 1 .. Len(r), i < j PROVE r[i] > r[j]
    <3>1. i \in 1 .. M - p /\ j \in 1 .. M - p
      BY <2>5
    <3>2. p + i < p + j
      BY <2>2, <2>7
    <3>3. d[p + i] > d[p + j]
      BY <2>5, <3>1, <3>2 DEF Falls
    <3> QED BY <2>5, <3>1, <3>3
  <2>8. Falls(r, R)
    BY <2>5, <2>6, <2>7 DEF Falls
  <2> QED BY <2>8 DEF r, R
<1> QED BY <1>3, <1>4

-----------------------------------------------------------------------------
(* Link headers.                                                             *)

\* A header as HeadersAssumption has it.
IsHeader(fields) ==
    /\ fields \in Seq(Range(fields))
    /\ \A i \in DOMAIN fields :
          /\ fields[i].links \in Seq(Range(fields[i].links))
          /\ \A j \in DOMAIN fields[i].links :
                LET ref == fields[i].links[j].ref
                IN  ref.query \in Queries /\ ref.fragment \in BOOLEAN

\* The links of one field, and where they are among the links of all.
Links(fields, i) == fields[i].links

LEMMA LinksUnfold ==
    ASSUME NEW fields, IsHeader(fields)
    PROVE  /\ Len(fields) \in Nat /\ DOMAIN fields = 1 .. Len(fields)
           /\ LinksTo(fields)[0] = <<>>
           /\ \A i \in 1 .. Len(fields) :
                 LinksTo(fields)[i] = LinksTo(fields)[i - 1] \o Links(fields, i)
           /\ \E L : /\ \A n \in 0 .. Len(fields) : LinksTo(fields)[n] \in Seq(L)
                     /\ \A i \in 1 .. Len(fields) : Links(fields, i) \in Seq(L)
<1> DEFINE N == Len(fields)
           L == UNION {Range(fields[i].links) : i \in DOMAIN fields}
           X == Seq(L)
           step == [p \in X \X (1 .. N) |-> p[1] \o Links(fields, p[2])]
           Rec(f) == [n \in 0 .. N |-> IF n = 0 THEN <<>> ELSE f[n - 1] \o Links(fields, n)]
<1>1. N \in Nat /\ <<>> \in X /\ DOMAIN fields = 1 .. N
  BY DEF IsHeader
<1>2. \A i \in 1 .. N : Links(fields, i) \in X
  <2> SUFFICES ASSUME NEW i \in 1 .. N PROVE Links(fields, i) \in X
    OBVIOUS
  <2>1. Links(fields, i) \in Seq(Range(fields[i].links))
    BY <1>1 DEF IsHeader, Links
  <2>2. Range(fields[i].links) \subseteq L
    BY <1>1
  <2> QED BY <2>1, <2>2, SeqMonotonic
<1>3. ASSUME NEW x \in X, NEW i \in 1 .. N PROVE x \o Links(fields, i) \in X
  BY <1>2, ConcatProperties
<1> HIDE DEF X, N
<1>4. IsStep(step, X, N)
  BY <1>1, <1>3 DEF IsStep
<1>5. ASSUME NEW x \in X, NEW i \in 1 .. N PROVE step[<<x, i>>] = x \o Links(fields, i)
  OBVIOUS
<1>6. PICK f : IsFold(f, X, <<>>, N, step)
  <2> HIDE DEF step
  <2> QED BY <1>1, <1>4, FoldExists
<1> HIDE DEF step
<1>7. /\ f \in [0 .. N -> X] /\ f[0] = <<>>
      /\ \A i \in 1 .. N : f[i] = f[i - 1] \o Links(fields, i)
  <2> SUFFICES ASSUME NEW i \in 1 .. N PROVE f[i] = f[i - 1] \o Links(fields, i)
    BY <1>6 DEF IsFold
  <2>1. i - 1 \in 0 .. N
    BY <1>1
  <2>2. f[i - 1] \in X
    BY <1>6, <2>1 DEF IsFold
  <2> QED BY <1>5, <1>6, <2>2 DEF IsFold
<1>8. f = Rec(f)
  BY <1>1, <1>7
<1>9. LinksTo(fields) = Rec(LinksTo(fields))
  BY <1>8 DEF LinksTo, N, Links
<1>10. LinksTo(fields)[0] = <<>>
  BY <1>1, <1>9
<1>11. \A i \in 1 .. N : LinksTo(fields)[i] = LinksTo(fields)[i - 1] \o Links(fields, i)
  <2> SUFFICES ASSUME NEW i \in 1 .. N
               PROVE  LinksTo(fields)[i] = LinksTo(fields)[i - 1] \o Links(fields, i)
    OBVIOUS
  <2>1. i \in 0 .. N /\ i # 0
    BY <1>1
  <2> DEFINE more == LinksTo(fields)[i - 1] \o Links(fields, i)
  <2>2. Rec(LinksTo(fields))[i] = more
    BY <2>1
  <2> HIDE DEF more, Rec
  <2>3. LinksTo(fields)[i] = more
    BY <1>9, <2>2
  <2> QED BY <2>3 DEF more
<1>12. \A n \in 0 .. N : LinksTo(fields)[n] \in X
  <2>1. LinksTo(fields)[0] \in X
    BY <1>1, <1>10
  <2>2. \A i \in 1 .. N : LinksTo(fields)[i - 1] \in X => LinksTo(fields)[i] \in X
    BY <1>3, <1>11
  <2> QED BY <1>1, <2>1, <2>2, Stays, Zenon
<1> HIDE DEF L
<1> QED BY <1>1, <1>2, <1>10, <1>11, <1>12 DEF N, X

Place(fields, i, j) == Len(LinksTo(fields)[i - 1]) + j

\* Every link of the first n fields has its place, and every place its link.
LEMMA Places ==
    ASSUME NEW fields, IsHeader(fields), NEW n \in 0 .. Len(fields)
    PROVE  LET all == LinksTo(fields)[n] IN
           /\ DOMAIN all = 1 .. Len(all) /\ Len(all) \in Nat
           /\ \A i \in 0 .. n : Len(LinksTo(fields)[i]) \in Nat /\ Len(LinksTo(fields)[i]) <= Len(all)
           /\ \A i \in 1 .. n : \A j \in 1 .. Len(Links(fields, i)) :
                 /\ Place(fields, i, j) \in 1 .. Len(all)
                 /\ all[Place(fields, i, j)] = Links(fields, i)[j]
           /\ \A k \in 1 .. Len(all) :
                 \E i \in 1 .. n : \E j \in 1 .. Len(Links(fields, i)) : k = Place(fields, i, j)
<1> DEFINE A(m) == LinksTo(fields)[m]
           N == Len(fields)
           B(m) == /\ \A i \in 0 .. m : Len(A(i)) <= Len(A(m))
                   /\ \A i \in 1 .. m : \A j \in 1 .. Len(Links(fields, i)) :
                         /\ Place(fields, i, j) \in 1 .. Len(A(m))
                         /\ A(m)[Place(fields, i, j)] = Links(fields, i)[j]
                   /\ \A k \in 1 .. Len(A(m)) :
                         \E i \in 1 .. m : \E j \in 1 .. Len(Links(fields, i)) :
                            k = Place(fields, i, j)
           Q == {m \in 0 .. N : B(m)}
<1>1. PICK L : /\ \A m \in 0 .. N : A(m) \in Seq(L)
               /\ \A i \in 1 .. N : Links(fields, i) \in Seq(L)
  BY LinksUnfold
<1>2. N \in Nat /\ A(0) = <<>> /\ \A i \in 1 .. N : A(i) = A(i - 1) \o Links(fields, i)
  BY LinksUnfold
<1> HIDE DEF A, N
<1>3. /\ \A m \in 0 .. N : Len(A(m)) \in Nat /\ DOMAIN A(m) = 1 .. Len(A(m))
      /\ \A i \in 1 .. N : Len(Links(fields, i)) \in Nat
  BY <1>1
<1>4. 0 \in Q
  <2>1. Len(A(0)) = 0 /\ 0 \in 0 .. N
    BY <1>2
  <2>2. B(0)
    BY <2>1
  <2> QED BY <2>1, <2>2
<1>5. ASSUME NEW m \in 0 .. N - 1, m \in Q PROVE m + 1 \in Q
  <2> DEFINE l == Links(fields, m + 1)
             a == A(m)
             b == A(m + 1)
  <2>1. m + 1 \in 1 .. N /\ m + 1 \in 0 .. N /\ m \in 0 .. N /\ (m + 1) - 1 = m
    BY <1>2
  <2>2. b = a \o l /\ a \in Seq(L) /\ l \in Seq(L)
    BY <1>1, <1>2, <2>1
  <2>3. Len(a) \in Nat /\ Len(l) \in Nat /\ Len(b) \in Nat
    BY <1>3, <2>1
  <2> HIDE DEF a, b, l
  <2>4. /\ Len(b) = Len(a) + Len(l)
        /\ \A k \in 1 .. Len(a) : b[k] = a[k]
        /\ \A j \in 1 .. Len(l) : b[Len(a) + j] = l[j]
    <3>1. /\ Len(b) = Len(a) + Len(l)
          /\ \A k \in 1 .. Len(b) : b[k] = IF k <= Len(a) THEN a[k] ELSE l[k - Len(a)]
      BY <2>2, <2>3, ConcatProperties
    <3>2. ASSUME NEW k \in 1 .. Len(a) PROVE b[k] = a[k]
      BY <2>3, <3>1
    <3>3. ASSUME NEW j \in 1 .. Len(l) PROVE b[Len(a) + j] = l[j]
      <4>1. Len(a) + j \in 1 .. Len(b) /\ ~(Len(a) + j <= Len(a)) /\ (Len(a) + j) - Len(a) = j
        BY <2>3, <3>1
      <4> QED BY <3>1, <4>1
    <3> QED BY <3>1, <3>2, <3>3
  <2>5. B(m)
    BY <1>5
  <2>6. \A j : Place(fields, m + 1, j) = Len(a) + j
    BY <2>1 DEF Place, A, a
  <2>7. \A i \in 0 .. m + 1 : Len(A(i)) <= Len(b)
    <3> SUFFICES ASSUME NEW i \in 0 .. m + 1 PROVE Len(A(i)) <= Len(b)
      OBVIOUS
    <3>1. CASE i = m + 1
      BY <2>3, <3>1 DEF b
    <3>2. CASE i # m + 1
      <4>1. i \in 0 .. m /\ i \in 0 .. N
        <5>1. i \in Nat /\ i <= m
          BY <3>2
        <5> QED BY <1>2, <2>1, <5>1
      <4>2. Len(A(i)) <= Len(a)
        BY <2>5, <4>1 DEF a
      <4>3. Len(A(i)) \in Nat
        BY <1>3, <4>1
      <4> QED BY <2>3, <2>4, <4>2, <4>3
    <3> QED BY <3>1, <3>2
  <2>8. ASSUME NEW i \in 1 .. m + 1, NEW j \in 1 .. Len(Links(fields, i))
        PROVE  /\ Place(fields, i, j) \in 1 .. Len(b)
               /\ b[Place(fields, i, j)] = Links(fields, i)[j]
    <3>1. CASE i = m + 1
      <4>1. j \in 1 .. Len(l) /\ Place(fields, i, j) = Len(a) + j /\ Links(fields, i) = l
        BY <2>6, <3>1 DEF l
      <4>2. Len(a) + j \in 1 .. Len(b)
        BY <2>3, <2>4, <4>1
      <4> QED BY <2>4, <4>1, <4>2
    <3>2. CASE i # m + 1
      <4>1. i \in 1 .. m
        BY <3>2
      <4>2. Place(fields, i, j) \in 1 .. Len(a) /\ a[Place(fields, i, j)] = Links(fields, i)[j]
        BY <2>5, <4>1 DEF a
      <4>3. Place(fields, i, j) \in 1 .. Len(b)
        BY <2>3, <2>4, <4>2
      <4> QED BY <2>4, <4>2, <4>3
    <3> QED BY <3>1, <3>2
  <2>9. ASSUME NEW k \in 1 .. Len(b)
        PROVE  \E i \in 1 .. m + 1 : \E j \in 1 .. Len(Links(fields, i)) : k = Place(fields, i, j)
    <3>1. CASE k <= Len(a)
      <4>1. k \in 1 .. Len(a)
        BY <2>3, <3>1
      <4>2. PICK i \in 1 .. m : \E j \in 1 .. Len(Links(fields, i)) : k = Place(fields, i, j)
        BY <2>5, <4>1 DEF a
      <4>3. i \in 1 .. m + 1
        BY <2>1
      <4> QED BY <4>2, <4>3
    <3>2. CASE ~(k <= Len(a))
      <4>1. k - Len(a) \in 1 .. Len(l) /\ k = Len(a) + (k - Len(a)) /\ m + 1 \in 1 .. m + 1
        BY <2>3, <2>4, <3>2
      <4>2. k = Place(fields, m + 1, k - Len(a))
        BY <2>6, <4>1
      <4> QED BY <4>1, <4>2 DEF l
    <3> QED BY <3>1, <3>2
  <2>10. B(m + 1)
    BY <2>7, <2>8, <2>9 DEF b
  <2> HIDE DEF B
  <2> QED BY <2>1, <2>10
<1>6. 0 .. N \subseteq Q
  <2> HIDE DEF Q
  <2> QED BY <1>2, <1>4, <1>5, UpTo
<1>7. n \in 0 .. N /\ n \in Q
  BY <1>6 DEF N
<1>8. B(n)
  BY <1>7
<1>9. \A i \in 0 .. n : Len(A(i)) \in Nat
  BY <1>2, <1>3, <1>7
<1> QED BY <1>3, <1>7, <1>8, <1>9 DEF A, N

\* Two links have two places.
LEMMA PlacesDiffer ==
    ASSUME NEW fields, IsHeader(fields),
           NEW i1 \in 1 .. Len(fields), NEW j1 \in 1 .. Len(Links(fields, i1)),
           NEW i2 \in 1 .. Len(fields), NEW j2 \in 1 .. Len(Links(fields, i2)),
           Place(fields, i1, j1) = Place(fields, i2, j2)
    PROVE  i1 = i2 /\ j1 = j2
<1> DEFINE A(m) == Len(LinksTo(fields)[m])
           N == Len(fields)
<1>1. N \in Nat
  BY LinksUnfold
<1>2. ASSUME NEW m \in 1 .. N, NEW j \in 1 .. Len(Links(fields, m))
      PROVE  A(m) \in Nat /\ A(m - 1) \in Nat /\ A(m - 1) + j <= A(m) /\ j \in Nat
  <2>1. m \in 0 .. N /\ m \in 1 .. m /\ m - 1 \in 0 .. m /\ m \in 0 .. m
    BY <1>1
  <2>2. Place(fields, m, j) \in 1 .. A(m) /\ A(m) \in Nat /\ A(m - 1) \in Nat
    BY <1>2, <2>1, Places
  <2>3. Place(fields, m, j) = A(m - 1) + j
    BY DEF Place
  <2>4. j \in Nat
    BY LinksUnfold
  <2> HIDE DEF A
  <2> QED BY <2>2, <2>3, <2>4
<1>3. ASSUME NEW m \in 1 .. N, NEW o \in 1 .. N, m < o PROVE A(m) <= A(o - 1)
  <2>1. o - 1 \in 0 .. N /\ m \in 0 .. o - 1
    BY <1>1, <1>3
  <2> QED BY <2>1, Places
<1>4. ASSUME NEW m \in 1 .. N, NEW o \in 1 .. N, NEW j \in 1 .. Len(Links(fields, m)),
             NEW k \in 1 .. Len(Links(fields, o)), m < o
      PROVE  A(m - 1) + j < A(o - 1) + k
  <2>1. A(m) \in Nat /\ A(m - 1) \in Nat /\ A(m - 1) + j <= A(m) /\ j \in Nat
    BY <1>2, <1>4
  <2>2. A(o - 1) \in Nat /\ k \in Nat /\ k >= 1
    <3>1. A(o - 1) \in Nat /\ k \in Nat
      BY <1>2, <1>4
    <3> QED BY <3>1
  <2>3. A(m) <= A(o - 1)
    BY <1>3, <1>4
  <2> HIDE DEF A
  <2> QED BY <2>1, <2>2, <2>3
<1>5. A(i1 - 1) + j1 = A(i2 - 1) + j2
  BY DEF Place
<1>6. /\ A(i1 - 1) \in Nat /\ A(i2 - 1) \in Nat /\ j1 \in Nat /\ j2 \in Nat
      /\ i1 \in Nat /\ i2 \in Nat
  BY <1>1, <1>2
<1> HIDE DEF A
<1>7. ~(i1 < i2) /\ ~(i2 < i1)
  <2>1. i1 < i2 => A(i1 - 1) + j1 < A(i2 - 1) + j2
    BY <1>4 DEF N
  <2>2. i2 < i1 => A(i2 - 1) + j2 < A(i1 - 1) + j1
    BY <1>4 DEF N
  <2> QED BY <1>5, <1>6, <2>1, <2>2
<1>8. i1 = i2
  BY <1>6, <1>7
<1>9. j1 = j2
  BY <1>5, <1>6, <1>8
<1> QED BY <1>8, <1>9

\* The link a place of NextLinks stands for.
LinkAt(fields, x) == Links(fields, x[1])[x[2]]

LEMMA NextLinksRule ==
    ASSUME NEW fields, IsHeader(fields), NEW x
    PROVE  x \in NextLinks(fields) <=>
               \E i \in 1 .. Len(fields) : \E j \in 1 .. Len(Links(fields, i)) :
                   x = <<i, j>> /\ is_next_link(Links(fields, i)[j])
<1>1. DOMAIN fields = 1 .. Len(fields)
  BY LinksUnfold
<1>2. \A i \in 1 .. Len(fields) : DOMAIN fields[i].links = 1 .. Len(Links(fields, i))
  BY <1>1 DEF IsHeader, Links
<1>3. ASSUME x \in NextLinks(fields)
      PROVE  \E i \in 1 .. Len(fields) : \E j \in 1 .. Len(Links(fields, i)) :
                 x = <<i, j>> /\ is_next_link(Links(fields, i)[j])
  <2>1. PICK i \in DOMAIN fields : x \in {i} \X DOMAIN fields[i].links
    BY <1>3 DEF NextLinks
  <2>2. is_next_link(fields[x[1]].links[x[2]])
    BY <1>3 DEF NextLinks
  <2>3. PICK j \in DOMAIN fields[i].links : x = <<i, j>>
    BY <2>1
  <2>4. is_next_link(Links(fields, i)[j])
    BY <2>2, <2>3 DEF Links
  <2> QED BY <1>1, <1>2, <2>3, <2>4
<1>4. ASSUME NEW i \in 1 .. Len(fields), NEW j \in 1 .. Len(Links(fields, i)),
             x = <<i, j>>, is_next_link(Links(fields, i)[j])
      PROVE  x \in NextLinks(fields)
  <2>1. x \in {i} \X DOMAIN fields[i].links /\ i \in DOMAIN fields
    BY <1>1, <1>2, <1>4
  <2>2. x[1] = i /\ x[2] = j
    BY <1>4
  <2>3. is_next_link(fields[x[1]].links[x[2]])
    BY <1>4, <2>2 DEF Links
  <2> QED BY <2>1, <2>3 DEF NextLinks
<1> QED BY <1>3, <1>4

\* The proxy and a client of the registry agree on the next link.
LEMMA SelectRule ==
    ASSUME NEW fields, IsHeader(fields)
    PROVE  select_next_link(LinksTo(fields)[Len(fields)]) =
               {LinkAt(fields, x) : x \in {x \in NextLinks(fields) : NextLinks(fields) = {x}}}
<1> DEFINE all == LinksTo(fields)[Len(fields)]
           cand == {k \in DOMAIN all : is_next_link(all[k])}
           nexts == NextLinks(fields)
           pos(x) == Place(fields, x[1], x[2])
<1>1. Len(fields) \in Nat /\ Len(fields) \in 0 .. Len(fields)
  BY LinksUnfold
<1>2. /\ DOMAIN all = 1 .. Len(all)
      /\ \A i \in 1 .. Len(fields) : \A j \in 1 .. Len(Links(fields, i)) :
            /\ Place(fields, i, j) \in 1 .. Len(all)
            /\ all[Place(fields, i, j)] = Links(fields, i)[j]
      /\ \A k \in 1 .. Len(all) :
            \E i \in 1 .. Len(fields) : \E j \in 1 .. Len(Links(fields, i)) : k = Place(fields, i, j)
  BY <1>1, Places
<1> HIDE DEF all
<1>3. ASSUME NEW x \in nexts PROVE pos(x) \in cand /\ all[pos(x)] = LinkAt(fields, x)
  <2>1a. PICK i \in 1 .. Len(fields) : \E j \in 1 .. Len(Links(fields, i)) :
            x = <<i, j>> /\ is_next_link(Links(fields, i)[j])
    BY <1>3, NextLinksRule
  <2>1. PICK j \in 1 .. Len(Links(fields, i)) :
            x = <<i, j>> /\ is_next_link(Links(fields, i)[j])
    BY <2>1a
  <2>2. pos(x) = Place(fields, i, j) /\ LinkAt(fields, x) = Links(fields, i)[j]
    BY <2>1 DEF LinkAt
  <2> QED BY <1>2, <2>1, <2>2
<1>4. ASSUME NEW k \in cand PROVE \E x \in nexts : k = pos(x)
  <2>1a. PICK i \in 1 .. Len(fields) : \E j \in 1 .. Len(Links(fields, i)) : k = Place(fields, i, j)
    BY <1>2, <1>4
  <2>1. PICK j \in 1 .. Len(Links(fields, i)) : k = Place(fields, i, j)
    BY <2>1a
  <2>2. is_next_link(Links(fields, i)[j])
    BY <1>2, <1>4, <2>1
  <2>3. <<i, j>> \in nexts
    BY <2>2, NextLinksRule
  <2>4. k = pos(<<i, j>>)
    BY <2>1
  <2> QED BY <2>3, <2>4
<1>5. ASSUME NEW x \in nexts, NEW y \in nexts, pos(x) = pos(y) PROVE x = y
  <2>1a. PICK i1 \in 1 .. Len(fields) : \E j1 \in 1 .. Len(Links(fields, i1)) : x = <<i1, j1>>
    BY <1>5, NextLinksRule
  <2>1. PICK j1 \in 1 .. Len(Links(fields, i1)) : x = <<i1, j1>>
    BY <2>1a
  <2>2a. PICK i2 \in 1 .. Len(fields) : \E j2 \in 1 .. Len(Links(fields, i2)) : y = <<i2, j2>>
    BY <1>5, NextLinksRule
  <2>2. PICK j2 \in 1 .. Len(Links(fields, i2)) : y = <<i2, j2>>
    BY <2>2a
  <2>3. Place(fields, i1, j1) = Place(fields, i2, j2)
    BY <1>5, <2>1, <2>2
  <2>4. i1 = i2 /\ j1 = j2
    BY <2>3, PlacesDiffer
  <2> QED BY <2>1, <2>2, <2>4
<1> HIDE DEF cand, nexts, pos
<1>6. ASSUME NEW x \in nexts, nexts = {x} PROVE cand = {pos(x)}
  BY <1>3, <1>4, <1>6
<1>7. ASSUME NEW k \in cand, cand = {k} PROVE \E x \in nexts : nexts = {x} /\ k = pos(x)
  <2>1. PICK x \in nexts : k = pos(x)
    BY <1>4, <1>7
  <2>2. ASSUME NEW y \in nexts PROVE y = x
    BY <1>3, <1>5, <1>7, <2>1, <2>2
  <2> QED BY <2>1, <2>2
<1> DEFINE sel == {all[k] : k \in {k \in cand : cand = {k}}}
           links == {LinkAt(fields, x) : x \in {x \in nexts : nexts = {x}}}
<1>8. sel \subseteq links
  <2> SUFFICES ASSUME NEW k \in cand, cand = {k} PROVE all[k] \in links
    OBVIOUS
  <2>1. PICK x \in nexts : nexts = {x} /\ k = pos(x)
    BY <1>7
  <2> QED BY <1>3, <2>1
<1>9. links \subseteq sel
  <2> SUFFICES ASSUME NEW x \in nexts, nexts = {x} PROVE LinkAt(fields, x) \in sel
    OBVIOUS
  <2>1. pos(x) \in cand /\ cand = {pos(x)} /\ all[pos(x)] = LinkAt(fields, x)
    BY <1>3, <1>6
  <2> QED BY <2>1
<1>10. sel = links
  BY <1>8, <1>9
<1>11. select_next_link(all) = sel
  BY DEF select_next_link, cand
<1> QED BY <1>10, <1>11 DEF all, nexts

\* The next link, if there is just one: the proxy takes it, and a client of the
\* registry follows it.
LEMMA NextLinkCases ==
    ASSUME NEW fields, IsHeader(fields)
    PROVE  \/ /\ select_next_link(LinksTo(fields)[Len(fields)]) = {} /\ DirectNext(fields) = {}
           \/ \E i \in DOMAIN fields : \E j \in DOMAIN fields[i].links :
                 LET link == fields[i].links[j] IN
                 /\ select_next_link(LinksTo(fields)[Len(fields)]) = {link}
                 /\ DirectNext(fields) = {Resolve(upstream_url(NoQuery), link.ref)}
<1> DEFINE nexts == NextLinks(fields)
           one == {x \in nexts : nexts = {x}}
           sel == select_next_link(LinksTo(fields)[Len(fields)])
           url(x) == Resolve(upstream_url(NoQuery), LinkAt(fields, x).ref)
<1>1. sel = {LinkAt(fields, x) : x \in one}
  BY SelectRule
<1>2. DirectNext(fields) = {url(x) : x \in one}
  BY DEF DirectNext, LinkAt, Links
<1> HIDE DEF sel, nexts, url
<1>3. CASE one = {}
  <2>1. sel = {} /\ DirectNext(fields) = {}
    BY <1>1, <1>2, <1>3
  <2> QED BY <2>1 DEF sel
<1>4. CASE one # {}
  <2>1. PICK x \in nexts : one = {x}
    BY <1>4
  <2>2. sel = {LinkAt(fields, x)} /\ DirectNext(fields) = {url(x)}
    BY <1>1, <1>2, <2>1
  <2>3a. PICK i \in 1 .. Len(fields) : \E j \in 1 .. Len(Links(fields, i)) : x = <<i, j>>
    BY NextLinksRule DEF nexts
  <2>3. PICK j \in 1 .. Len(Links(fields, i)) : x = <<i, j>>
    BY <2>3a
  <2>4. i \in DOMAIN fields /\ j \in DOMAIN fields[i].links
    <3>1. i \in DOMAIN fields
      BY LinksUnfold
    <3> QED BY <3>1 DEF IsHeader, Links
  <2>5. LinkAt(fields, x) = fields[i].links[j]
    BY <2>3 DEF LinkAt, Links
  <2> QED BY <2>2, <2>4, <2>5 DEF sel, url
<1> QED BY <1>3, <1>4

\* A reference the proxy takes leads to the tag list, with its own query.
LEMMA ResolvedUrl ==
    ASSUME NEW ref, ref.fragment \in BOOLEAN, NEW url \in resolved_tag_link_url(ref)
    PROVE  /\ url = Resolve(upstream_url(NoQuery), ref)
           /\ url.query = ref.query
           /\ url = upstream_url(ref.query)
<1> DEFINE base == upstream_url(NoQuery)
<1>1. /\ url = Resolve(base, ref)
      /\ url.scheme = base.scheme /\ url.host = base.host /\ url.path = base.path
      /\ ~url.fragment
  BY DEF resolved_tag_link_url
<1>2. url.query = ref.query /\ url.fragment = ref.fragment
  BY <1>1 DEF Resolve
<1>3. url.fragment = FALSE
  BY <1>1, <1>2
<1>4. url = [scheme |-> url.scheme, host |-> url.host, path |-> url.path, query |-> url.query,
             fragment |-> url.fragment]
  BY <1>1 DEF Resolve
<1>5. upstream_url(ref.query) = [scheme |-> base.scheme, host |-> base.host, path |-> base.path,
                                 query |-> ref.query, fragment |-> FALSE]
  BY DEF upstream_url
<1> HIDE DEF base
<1> QED BY <1>1, <1>2, <1>3, <1>4, <1>5 DEF base

\* The link the client is given asks what the registry's link asks.
LEMMA LinkRule ==
    ASSUME NEW fields, IsHeader(fields), NEW r \in rewrite_tag_links(fields)
    PROVE  /\ r \in Queries
           /\ DirectNext(fields) = {upstream_url(r)}
           /\ rewrite_tag_links(fields) = {r}
<1> DEFINE sel == select_next_link(LinksTo(fields)[Len(fields)])
<1>1. rewrite_tag_links(fields) =
          {url.query : url \in UNION {resolved_tag_link_url(link.ref) : link \in sel}}
  BY DEF rewrite_tag_links, NoLink
<1>2a. PICK i \in DOMAIN fields : \E j \in DOMAIN fields[i].links :
          /\ sel = {fields[i].links[j]}
          /\ DirectNext(fields) = {Resolve(upstream_url(NoQuery), fields[i].links[j].ref)}
  <2>1. sel # {}
    BY <1>1
  <2> QED BY <2>1, NextLinkCases
<1>2. PICK j \in DOMAIN fields[i].links :
          /\ sel = {fields[i].links[j]}
          /\ DirectNext(fields) = {Resolve(upstream_url(NoQuery), fields[i].links[j].ref)}
  BY <1>2a
<1> DEFINE ref == fields[i].links[j].ref
<1>3. ref.query \in Queries /\ ref.fragment \in BOOLEAN
  BY DEF IsHeader
<1> HIDE DEF sel
<1>4. rewrite_tag_links(fields) = {url.query : url \in resolved_tag_link_url(ref)}
  BY <1>1, <1>2
<1>5. PICK url \in resolved_tag_link_url(ref) : r = url.query
  BY <1>4
<1> HIDE DEF ref
<1>6. url = Resolve(upstream_url(NoQuery), ref) /\ url.query = ref.query
      /\ url = upstream_url(ref.query)
  BY <1>3, <1>5, ResolvedUrl
<1>7. \A v \in resolved_tag_link_url(ref) : v.query = ref.query
  BY <1>3, ResolvedUrl
<1>8. DirectNext(fields) = {upstream_url(r)}
  BY <1>2, <1>5, <1>6 DEF ref
<1>9. rewrite_tag_links(fields) = {r}
  BY <1>4, <1>5, <1>6, <1>7
<1> QED BY <1>3, <1>5, <1>6, <1>8, <1>9

\* A plain header gives the client the link to the next page.
LEMMA PlainRule ==
    ASSUME NEW fields, IsHeader(fields), NEW q, Plain(fields, q)
    PROVE  rewrite_tag_links(fields) = {q}
<1> DEFINE sel == select_next_link(LinksTo(fields)[Len(fields)])
           base == upstream_url(NoQuery)
<1>1. rewrite_tag_links(fields) =
          {url.query : url \in UNION {resolved_tag_link_url(link.ref) : link \in sel}}
  BY DEF rewrite_tag_links, Plain
<1>2. DirectNext(fields) = {upstream_url(q)}
  BY DEF Plain
<1>3a. PICK i \in DOMAIN fields : \E j \in DOMAIN fields[i].links :
          /\ sel = {fields[i].links[j]}
          /\ DirectNext(fields) = {Resolve(base, fields[i].links[j].ref)}
  <2>1. DirectNext(fields) # {}
    BY <1>2
  <2> QED BY <2>1, NextLinkCases
<1>3. PICK j \in DOMAIN fields[i].links :
          /\ sel = {fields[i].links[j]}
          /\ DirectNext(fields) = {Resolve(base, fields[i].links[j].ref)}
  BY <1>3a
<1> DEFINE ref == fields[i].links[j].ref
           url == Resolve(base, ref)
<1>4. ref.safe /\ (ref.host = None <=> ref.scheme = None)
  BY DEF Plain
<1> HIDE DEF sel, ref
<1>5. url = upstream_url(q)
  BY <1>2, <1>3 DEF ref
<1>6. /\ url.scheme = Target.scheme /\ url.host = Target.registry /\ url.query = q
      /\ url.path = base.path /\ url.fragment = FALSE
  <2> HIDE DEF url
  <2> QED BY <1>5 DEF upstream_url
<1>7. base.scheme = Target.scheme /\ base.host = Target.registry
  BY DEF upstream_url
<1>8. is_strict_tag_link_reference(ref)
  <2>1. CASE ref.scheme = None
    BY <1>4, <2>1 DEF is_strict_tag_link_reference
  <2>2. CASE ref.scheme # None
    <3>1. ref.host # None
      BY <1>4, <2>2
    <3>2. url.scheme = ref.scheme /\ url.host = ref.host
      BY <2>2, <3>1 DEF Resolve
    <3> HIDE DEF url, base
    <3> QED BY <1>6, <2>2, <3>1, <3>2, TargetAssumption DEF is_strict_tag_link_reference
  <2> QED BY <2>1, <2>2
<1>9. resolved_tag_link_url(ref) = {url}
  <2> HIDE DEF url
  <2>1. resolved_tag_link_url(ref) = {v \in {url} :
            /\ ref.safe /\ is_strict_tag_link_reference(ref)
            /\ v.scheme = base.scheme /\ v.host = base.host
            /\ v.path = base.path
            /\ ~v.fragment}
    BY DEF resolved_tag_link_url, url
  <2> HIDE DEF base
  <2> QED BY <1>4, <1>6, <1>7, <1>8, <2>1
<1> HIDE DEF url
<1>10. rewrite_tag_links(fields) = {v.query : v \in {url}}
  BY <1>1, <1>3, <1>9 DEF ref
<1> QED BY <1>6, <1>10

-----------------------------------------------------------------------------
(* The walk.                                                                 *)

\* While the client goes on: every tag that was there all the time and lies
\* before the one it continues after was given to it, and nothing beyond that.
Above(L, A, l) == \A t \in A : t >= l => t \in L
Below(L, A, l) == \A t \in A : t <= l => t \in L

Ahead ==
    state = "asking" /\ ~strayed =>
        /\ query.last = None => listed = {}
        /\ query.last # None /\ kind = "classic" =>
              /\ Above(listed, always, query.last)
              /\ restarted \/ \A t \in listed : t >= query.last
        /\ query.last # None /\ kind = "oci" =>
              /\ Below(listed, always, query.last)
              /\ \A t \in listed : t <= query.last

\* A link to another page than the next comes from a header that is not plain.
StrayIsOdd == strayed => dropped

IInv == TypeOK /\ Ahead /\ StrayIsOdd /\ WalkComplete /\ LinkMeansTheSame

LEMMA SetOfBools ==
    ASSUME NEW a, NEW b, NEW c, NEW d, NEW e
    PROVE  {a, b, c, d, e} \subseteq BOOLEAN <=>
               a \in BOOLEAN /\ b \in BOOLEAN /\ c \in BOOLEAN /\ d \in BOOLEAN /\ e \in BOOLEAN
  OBVIOUS

LEMMA TypeFacts ==
    ASSUME TypeOK
    PROVE  /\ published \subseteq Int /\ IsFiniteSet(published) /\ NoVersion \notin published
           /\ None \notin published
           /\ query.last \in Tags \cup {None} /\ query.n \in PageSizes \cup {PageCap, None}
           /\ query.n \in Nat \/ query.n = None
           /\ repeated \in BOOLEAN /\ restarted \in BOOLEAN /\ dropped \in BOOLEAN
           /\ strayed \in BOOLEAN /\ misled \in BOOLEAN
<1>1. published \subseteq Tags /\ IsFiniteSet(published)
  BY TagsAssumption, FS_Subset DEF TypeOK
<1>2. query \in Queries
  BY DEF TypeOK
<1>3. query.last \in Tags \cup {None} /\ query.n \in PageSizes \cup {PageCap, None}
  BY <1>2 DEF Queries
<1>4. query.n \in Nat \/ query.n = None
  BY <1>3, PagesAssumption
<1>5. /\ repeated \in BOOLEAN /\ restarted \in BOOLEAN /\ dropped \in BOOLEAN
      /\ strayed \in BOOLEAN /\ misled \in BOOLEAN
  BY SetOfBools DEF TypeOK
<1>6. published \subseteq Int /\ NoVersion \notin published /\ None \notin published
  BY <1>1, TagsAssumption
<1> QED BY <1>1, <1>3, <1>4, <1>5, <1>6

LEMMA InitInv == Init => IInv
<1> SUFFICES ASSUME Init PROVE IInv
  OBVIOUS
<1>1. kind \in {"classic", "oci"} /\ published \subseteq Tags /\ listed = {} /\ always = Tags
      /\ changes = 0 /\ state = "asking"
  BY DEF Init
<1>2. repeated = FALSE /\ restarted = FALSE /\ dropped = FALSE /\ strayed = FALSE /\ misled = FALSE
  BY DEF Init
<1>3. again \in Seq(Tags \cup {NoVersion})
  <2>1. <<>> \in Seq(Tags \cup {NoVersion})
    OBVIOUS
  <2>2. again = <<>> \/ again \in Extra
    BY DEF Init
  <2> QED BY <2>1, <2>2, TagsAssumption
<1>4. query \in Queries /\ query.last = None
  BY DEF Init, Queries
<1>5. {repeated, restarted, dropped, strayed, misled} \subseteq BOOLEAN
  BY <1>2
<1>6. 0 \in 0 .. MaxChanges
  BY PagesAssumption
<1>7. TypeOK
  BY <1>1, <1>3, <1>4, <1>5, <1>6 DEF TypeOK
<1>8. Ahead
  BY <1>1, <1>4 DEF Ahead
<1> QED BY <1>1, <1>2, <1>7, <1>8 DEF IInv, StrayIsOdd, WalkComplete, LinkMeansTheSame

LEMMA TakeType ==
    ASSUME TypeOK, NEW tags, NEW next, Take(tags, next),
           Range(tags) \subseteq Tags, next \subseteq Queries,
           UNCHANGED <<kind, again, published, changes>>,
           restarted' \in BOOLEAN, dropped' \in BOOLEAN, strayed' \in BOOLEAN,
           misled' \in BOOLEAN
    PROVE  TypeOK'
<1>1. listed' \subseteq Tags /\ always' \subseteq Tags
  BY DEF Take, TypeOK
<1>2. query' \in Queries /\ state' \in {"asking", "done", "failed"}
  BY DEF Take, TypeOK
<1>3. repeated' \in BOOLEAN
  <2> HIDE DEF TypeOK
  <2> QED BY DEF Take
<1>4. {repeated, restarted, dropped, strayed, misled}' \subseteq BOOLEAN
  BY <1>3
<1> QED BY <1>1, <1>2, <1>4 DEF TypeOK

\* What taking a page does.
LEMMA TakeFacts ==
    ASSUME NEW tags, NEW next, Take(tags, next), Once(tags)
    PROVE  /\ listed' = listed \cup Range(tags) /\ always' = always \cap published
           /\ repeated' => repeated \/ \E t \in Range(tags) : t \in listed
           /\ next = {} => state' = "done" /\ query' = query
           /\ next # {} => state' = state /\ query' \in next
<1>1. listed' = listed \cup Range(tags) /\ always' = always \cap published
  BY DEF Take
<1>2. /\ next = {} => state' = "done" /\ query' = query
      /\ next # {} => state' = state /\ query' \in next
  BY DEF Take, NoLink
<1>3. ~\E i, j \in DOMAIN tags : i # j /\ tags[i] = tags[j]
  BY DEF Once
<1>4. repeated' => repeated \/ \E t \in Range(tags) : t \in listed
  BY <1>3 DEF Take
<1> QED BY <1>1, <1>2, <1>4

\* One page of the classic proxy.
LEMMA ClassicInv == ASSUME IInv, ClassicPage PROVE IInv'
<1> DEFINE P == published
           d == Descending(P)
           l == query.last
           n == query.n
           R == {t \in P : l \in P => t < l}
           page == Page(AfterLast(d, l), n)
           X == Range(page.tags)
<1>1. TypeOK /\ Ahead /\ StrayIsOdd /\ WalkComplete /\ LinkMeansTheSame
  BY DEF IInv
<1>2. /\ P \subseteq Int /\ IsFiniteSet(P) /\ NoVersion \notin P /\ None \notin P
      /\ l \in Tags \cup {None} /\ (n \in Nat \/ n = None)
      /\ restarted \in BOOLEAN /\ dropped \in BOOLEAN /\ strayed \in BOOLEAN /\ misled \in BOOLEAN
      /\ n \in PageSizes \cup {PageCap, None}
  BY <1>1, TypeFacts
<1>3. Falls(d, P)
  BY <1>2, DescendingRule
<1>4. d \in Seq(P) /\ Range(d) = P
  BY <1>3 DEF Falls
<1>5. list_versions(Entries) = d
  <2>1. Entries \in Extended(d, P)
    BY <1>1, <1>4, EntriesRule DEF TypeOK
  <2> QED BY <1>2, <1>3, <2>1, VersionsRule
<1>6. CutBelow(page, n, R)
  <2>1. Falls(AfterLast(d, l), R)
    BY <1>2, <1>3, RestRule
  <2>2. R \subseteq Int
    BY <1>2
  <2> HIDE DEF R
  <2> QED BY <1>2, <2>1, <2>2, FallsCut
<1>7. /\ kind = "classic" /\ state = "asking" /\ Take(page.tags, page.next)
      /\ restarted' = (restarted \/ (l # None /\ l \notin P))
      /\ UNCHANGED <<kind, again, published, changes, dropped, strayed, misled>>
  BY <1>4, <1>5 DEF ClassicPage
<1> HIDE DEF page, d
<1>8. /\ Once(page.tags) /\ X \subseteq R
      /\ page.next = {} => n = 0 \/ X = R
      /\ page.next # {} =>
            n \in Nat /\ \E m \in R : page.next = {[n |-> n, last |-> m]} /\ X = {t \in R : t >= m}
  BY <1>6 DEF CutBelow
<1>9. /\ listed' = listed \cup X /\ always' = always \cap P
      /\ repeated' => repeated \/ \E t \in X : t \in listed
      /\ page.next = {} => state' = "done" /\ query' = query
      /\ page.next # {} => state' = "asking" /\ query' \in page.next
  BY <1>7, <1>8, TakeFacts
<1> HIDE DEF X
<1>10. P \subseteq Tags /\ Tags \subseteq Int /\ None \notin Tags /\ R \subseteq P
       /\ listed \subseteq Tags /\ always \subseteq Tags
  BY <1>1, TagsAssumption DEF TypeOK
<1>11. page.next \subseteq Queries
  <2>1. CASE page.next = {}
    BY <2>1
  <2>2. CASE page.next # {}
    <3>1. PICK m \in R : page.next = {[n |-> n, last |-> m]}
      BY <1>8, <2>2
    <3>2. m \in Tags
      BY <1>10
    <3>3. [n |-> n, last |-> m] \in Queries
      BY <1>2, <3>2 DEF Queries
    <3> QED BY <3>1, <3>3
  <2> QED BY <2>1, <2>2
<1>12. TypeOK'
  <2>1. Range(page.tags) \subseteq Tags
    BY <1>8, <1>10 DEF X
  <2>2. restarted' \in BOOLEAN
    BY <1>7
  <2>3. dropped' \in BOOLEAN /\ strayed' \in BOOLEAN /\ misled' \in BOOLEAN
    BY <1>2, <1>7
  <2> QED BY <1>1, <1>7, <1>11, <2>1, <2>2, <2>3, TakeType
<1>13. /\ l = None /\ ~strayed => listed = {}
       /\ l # None /\ ~strayed => Above(listed, always, l)
       /\ l # None /\ ~strayed => restarted \/ \A t \in listed : t >= l
  BY <1>1, <1>7 DEF Ahead
<1>14. restarted' <=> restarted \/ (l # None /\ l \notin P)
  BY <1>7
<1>15. ASSUME NEW t \in always', ~strayed, t \notin R PROVE t \in listed
  <2>1. t \in always /\ t \in P /\ t \in Int
    BY <1>9, <1>10, <1>15
  <2>2. l \in P /\ ~(t < l)
    BY <1>15, <2>1
  <2>3. l \in Int /\ l # None
    BY <1>2, <2>2
  <2>4. t >= l
    BY <2>1, <2>2, <2>3
  <2> QED BY <1>13, <1>15, <2>1, <2>3, <2>4 DEF Above
<1>16. ASSUME ~restarted', ~strayed, NEW t \in listed PROVE l \in P /\ t >= l
  BY <1>13, <1>14, <1>16
<1>17. WalkComplete'
  <2>1. ASSUME (state = "done" /\ query.n # 0 /\ ~dropped)' PROVE (always \subseteq listed)'
    <3>1. page.next = {} /\ query' = query /\ ~dropped
      BY <1>7, <1>9, <2>1
    <3>2. ~strayed
      BY <1>1, <3>1 DEF StrayIsOdd
    <3>3. X = R
      BY <1>8, <2>1, <3>1
    <3> QED BY <1>9, <1>15, <3>2, <3>3
  <2>2. ASSUME repeated' PROVE (restarted \/ strayed)'
    <3>1. CASE repeated
      BY <1>1, <1>7, <1>14, <3>1 DEF WalkComplete
    <3>2. CASE ~repeated
      <4> SUFFICES ASSUME ~restarted', ~strayed PROVE FALSE
        BY <1>7
      <4>1. PICK t \in X : t \in listed
        BY <1>9, <2>2, <3>2
      <4>2. t \in R /\ t \in Int
        BY <1>2, <1>8, <4>1
      <4>3. l \in P /\ t >= l
        BY <1>16, <4>1
      <4>4. t < l /\ l \in Int
        BY <1>2, <4>2, <4>3
      <4> QED BY <4>2, <4>3, <4>4
    <3> QED BY <3>1, <3>2
  <2> QED BY <2>1, <2>2 DEF WalkComplete
<1>18. Ahead'
  <2> SUFFICES ASSUME state' = "asking", ~strayed PROVE Ahead'
    BY <1>7 DEF Ahead
  <2>1. page.next # {}
    BY <1>9
  <2>2. PICK m \in R : page.next = {[n |-> n, last |-> m]} /\ X = {t \in R : t >= m}
    BY <1>8, <2>1
  <2>3. query' = [n |-> n, last |-> m]
    BY <1>9, <2>1, <2>2
  <2>4. query'.last = m
    BY <2>3
  <2>5. m # None /\ m \in Int
    BY <1>2, <1>10
  <2>6. Above(listed', always', m)
    <3> SUFFICES ASSUME NEW t \in always', t >= m PROVE t \in listed'
      BY DEF Above
    <3>1. CASE t \in R
      BY <1>9, <2>2, <3>1
    <3>2. CASE t \notin R
      BY <1>9, <1>15, <3>2
    <3> QED BY <3>1, <3>2
  <2>7. restarted' \/ \A t \in listed' : t >= m
    <3> SUFFICES ASSUME ~restarted', NEW t \in listed' PROVE t >= m
      OBVIOUS
    <3>1. CASE t \in X
      BY <2>2, <3>1
    <3>2. CASE t \in listed
      <4>1. l \in P /\ t >= l
        BY <1>16, <3>2
      <4>2. m < l /\ l \in Int /\ t \in Int
        BY <1>2, <1>10, <3>2, <4>1
      <4> QED BY <2>5, <4>1, <4>2
    <3> QED BY <1>9, <3>1, <3>2
  <2>8. kind' = "classic"
    BY <1>7
  <2> QED BY <2>4, <2>5, <2>6, <2>7, <2>8 DEF Ahead
<1>19. StrayIsOdd' /\ LinkMeansTheSame'
  BY <1>1, <1>7 DEF StrayIsOdd, LinkMeansTheSame
<1> QED BY <1>12, <1>17, <1>18, <1>19 DEF IInv

\* One page of a registry: how many tags it is cut after, and what is on it.
EffectiveN(q) == IF q.n = None \/ q.n > PageCap THEN PageCap ELSE q.n

Remaining(q) == {t \in published : q.last = None \/ t > q.last}

LEMMA UpstreamRule ==
    ASSUME TypeOK
    PROVE  /\ EffectiveN(query) \in PageSizes \cup {PageCap} /\ EffectiveN(query) \in Nat
           /\ query.n # 0 => EffectiveN(query) # 0
           /\ CutAbove(UpstreamPage(query), EffectiveN(query), Remaining(query))
<1>1. /\ published \subseteq Int /\ IsFiniteSet(published)
      /\ query.n \in PageSizes \cup {PageCap, None} /\ (query.n \in Nat \/ query.n = None)
  BY TypeFacts
<1>2. EffectiveN(query) \in PageSizes \cup {PageCap} /\ EffectiveN(query) \in Nat
  BY <1>1, PagesAssumption DEF EffectiveN
<1>3. query.n # 0 => EffectiveN(query) # 0
  BY <1>1, PagesAssumption DEF EffectiveN
<1>4. Remaining(query) \subseteq Int /\ IsFiniteSet(Remaining(query))
  <2>1. Remaining(query) \subseteq published
    BY DEF Remaining
  <2> QED BY <1>1, <2>1, FS_Subset
<1>5. Climbs(Ascending(Remaining(query)), Remaining(query))
  BY <1>4, AscendingRule
<1>6. UpstreamPage(query) = Page(Ascending(Remaining(query)), EffectiveN(query))
  BY DEF UpstreamPage, Remaining, EffectiveN
<1>7. CutAbove(Page(Ascending(Remaining(query)), EffectiveN(query)), EffectiveN(query),
               Remaining(query))
  BY <1>2, <1>4, <1>5, ClimbsCut
<1> QED BY <1>2, <1>3, <1>6, <1>7

\* What the invariant says of a tag on the next page and of one left out of it.
LEMMA BehindTheWalk ==
    ASSUME IInv, kind = "oci", state = "asking", ~strayed
    PROVE  /\ \A t \in always \cap published : t \in Remaining(query) \/ t \in listed
           /\ \A t \in listed : t \notin Remaining(query)
           /\ \A t \in listed : \A m \in Remaining(query) : t <= m
<1> DEFINE l == query.last
<1>1. TypeOK /\ Ahead
  BY DEF IInv
<1>2. /\ published \subseteq Int /\ l \in Tags \cup {None} /\ Tags \subseteq Int /\ None \notin Tags
      /\ listed \subseteq Tags
  BY <1>1, TypeFacts, TagsAssumption DEF TypeOK
<1>3. CASE l = None
  <2>1. listed = {}
    BY <1>1, <1>3 DEF Ahead
  <2> QED BY <1>3, <2>1 DEF Remaining
<1>4. CASE l # None
  <2>1. Below(listed, always, l) /\ \A t \in listed : t <= l
    BY <1>1, <1>4 DEF Ahead
  <2>2. l \in Int
    BY <1>2, <1>4
  <2>3. \A t \in published : t \in Remaining(query) <=> t > l
    BY <1>4 DEF Remaining
  <2>4. Remaining(query) \subseteq published
    BY DEF Remaining
  <2> HIDE DEF l
  <2>5. \A t \in always \cap published : t \in Remaining(query) \/ t \in listed
    <3> SUFFICES ASSUME NEW t \in always \cap published, t \notin Remaining(query)
                 PROVE  t \in listed
      OBVIOUS
    <3>1. t \in Int /\ ~(t > l)
      BY <1>2, <2>3
    <3>2. t <= l
      BY <2>2, <3>1
    <3> QED BY <2>1, <3>2 DEF Below
  <2>6. ASSUME NEW t \in listed PROVE t \notin Remaining(query)
    <3>1. t \in Int /\ t <= l
      BY <1>2, <2>1
    <3> QED BY <2>2, <2>3, <2>4, <3>1
  <2>7. ASSUME NEW t \in listed, NEW m \in Remaining(query) PROVE t <= m
    <3>1. t \in Int /\ t <= l
      BY <1>2, <2>1
    <3>2. m \in Int /\ m > l
      BY <1>2, <2>3, <2>4
    <3> QED BY <2>2, <3>1, <3>2
  <2> QED BY <2>5, <2>6, <2>7
<1> QED BY <1>3, <1>4

\* The page with what was given so far.
LEMMA OciRepeats ==
    ASSUME IInv, kind = "oci", state = "asking", NEW X, X \subseteq Remaining(query),
           repeated' => repeated \/ \E t \in X : t \in listed,
           restarted' = restarted, strayed => strayed'
    PROVE  repeated' => restarted' \/ strayed'
<1> SUFFICES ASSUME repeated', ~strayed' PROVE restarted'
  OBVIOUS
<1>1. ~strayed
  OBVIOUS
<1>2. ~\E t \in X : t \in listed
  BY <1>1, BehindTheWalk
<1>3. repeated
  BY <1>2
<1> QED BY <1>1, <1>3 DEF IInv, WalkComplete

LEMMA OciInv == ASSUME IInv, OciPage PROVE IInv'
<1> DEFINE page == UpstreamPage(query)
           R == Remaining(query)
           N == EffectiveN(query)
           X == Range(page.tags)
<1>1. TypeOK /\ Ahead /\ StrayIsOdd /\ WalkComplete /\ LinkMeansTheSame
  BY DEF IInv
<1>2. /\ restarted \in BOOLEAN /\ dropped \in BOOLEAN /\ strayed \in BOOLEAN /\ misled \in BOOLEAN
      /\ published \subseteq Tags /\ Tags \subseteq Int /\ None \notin Tags
  BY <1>1, TypeFacts, TagsAssumption DEF TypeOK
<1>3. /\ N \in PageSizes \cup {PageCap} /\ N \in Nat /\ (query.n # 0 => N # 0)
      /\ CutAbove(page, N, R)
  BY <1>1, UpstreamRule
<1>4. /\ kind = "oci" /\ state = "asking"
      /\ UNCHANGED <<kind, again, published, changes, restarted>>
      /\ \/ page.next = {} /\ Take(page.tags, {}) /\ UNCHANGED <<dropped, strayed, misled>>
         \/ \E q \in page.next : \E fields \in Headers(q) : Follow(page.tags, q, fields)
  BY DEF OciPage, NoLink
<1> HIDE DEF page, N
<1>5. /\ Once(page.tags) /\ X \subseteq R
      /\ page.next = {} => N = 0 \/ X = R
      /\ page.next # {} =>
            \E m \in R : page.next = {[n |-> N, last |-> m]} /\ X = {t \in R : t <= m}
  BY <1>3 DEF CutAbove
<1>6. R \subseteq published
  BY DEF Remaining
<1> HIDE DEF R
<1>7. Range(page.tags) \subseteq Tags
  BY <1>2, <1>5, <1>6
<1>8. CASE page.next = {} /\ Take(page.tags, {}) /\ UNCHANGED <<dropped, strayed, misled>>
  <2>1. /\ listed' = listed \cup X /\ always' = always \cap published
        /\ repeated' => repeated \/ \E t \in X : t \in listed
        /\ state' = "done" /\ query' = query
    BY <1>5, <1>8, TakeFacts
  <2>2. TypeOK'
    <3>1. {} \subseteq Queries
      OBVIOUS
    <3> QED BY <1>1, <1>2, <1>4, <1>7, <1>8, <3>1, TakeType
  <2>3. Ahead' /\ StrayIsOdd' /\ LinkMeansTheSame'
    BY <1>1, <1>8, <2>1 DEF Ahead, StrayIsOdd, LinkMeansTheSame
  <2>4. WalkComplete'
    <3>1. ASSUME (state = "done" /\ query.n # 0 /\ ~dropped)' PROVE (always \subseteq listed)'
      <4>1. ~strayed /\ X = R
        BY <1>1, <1>3, <1>5, <1>8, <2>1, <3>1 DEF StrayIsOdd
      <4>2. \A t \in always \cap published : t \in R \/ t \in listed
        BY <1>4, <4>1, BehindTheWalk DEF R
      <4> QED BY <2>1, <4>1, <4>2
    <3>2. repeated' => restarted' \/ strayed'
      BY <1>4, <1>5, <1>8, <2>1, OciRepeats DEF R
    <3> QED BY <3>1, <3>2 DEF WalkComplete
  <2> QED BY <2>2, <2>3, <2>4 DEF IInv
<1>9. ASSUME NEW q \in page.next, NEW fields \in Headers(q), Follow(page.tags, q, fields)
      PROVE  IInv'
  <2> DEFINE next == rewrite_tag_links(fields)
  <2>1. PICK m \in R : q = [n |-> N, last |-> m] /\ X = {t \in R : t <= m}
    BY <1>5, <1>9
  <2>2. m \in Tags /\ m # None /\ m \in Int /\ q.last = m
    BY <1>2, <1>6, <2>1
  <2>3. q \in Queries
    BY <1>3, <2>1, <2>2 DEF Queries
  <2>4. IsHeader(fields)
    BY <2>3, HeadersAssumption DEF IsHeader
  <2>5. \A r \in next : r \in Queries /\ next = {r} /\ DirectNext(fields) = {upstream_url(r)}
    BY <2>4, LinkRule
  <2>6. Plain(fields, q) => next = {q}
    BY <2>4, PlainRule
  <2>7. /\ Take(page.tags, next)
        /\ dropped' = (dropped \/ ~Plain(fields, q))
        /\ strayed' = (strayed \/ ~(next \subseteq {q}))
        /\ misled' = (misled \/ \E r \in next : DirectNext(fields) # {upstream_url(r)})
    BY <1>9 DEF Follow
  <2> HIDE DEF next
  <2>8. /\ listed' = listed \cup X /\ always' = always \cap published
        /\ repeated' => repeated \/ \E t \in X : t \in listed
        /\ next = {} => state' = "done" /\ query' = query
        /\ next # {} => state' = state /\ query' \in next
    BY <1>5, <2>7, TakeFacts
  <2>9. ~(\E r \in next : DirectNext(fields) # {upstream_url(r)})
    BY <2>5
  <2>10. LinkMeansTheSame'
    BY <1>1, <2>7, <2>9 DEF LinkMeansTheSame
  <2>11. TypeOK'
    <3>1. next \subseteq Queries
      BY <2>5
    <3>2. dropped' \in BOOLEAN /\ strayed' \in BOOLEAN /\ misled' \in BOOLEAN
      BY <2>7
    <3>3. restarted' \in BOOLEAN
      BY <1>2, <1>4
    <3> QED BY <1>1, <1>4, <1>7, <2>7, <3>1, <3>2, <3>3, TakeType
  <2>12. StrayIsOdd'
    <3>1. ~(next \subseteq {q}) => ~Plain(fields, q)
      BY <2>6
    <3> QED BY <1>1, <2>7, <3>1 DEF StrayIsOdd
  <2>13. WalkComplete'
    <3>1. ASSUME (state = "done" /\ query.n # 0 /\ ~dropped)' PROVE FALSE
      <4>1. Plain(fields, q)
        BY <2>7, <3>1
      <4>2. state' = state
        BY <2>6, <2>8, <4>1
      <4> QED BY <1>4, <3>1, <4>2
    <3>2. repeated' => restarted' \/ strayed'
      <4>1. strayed => strayed'
        BY <2>7
      <4> QED BY <1>4, <1>5, <2>8, <4>1, OciRepeats DEF R
    <3> QED BY <3>1, <3>2 DEF WalkComplete
  <2>14. Ahead'
    <3> SUFFICES ASSUME state' = "asking", ~strayed' PROVE Ahead'
      BY DEF Ahead
    <3>1. ~strayed /\ next \subseteq {q}
      BY <2>7
    <3>2. next # {}
      BY <1>4, <2>8
    <3>3. query' = q /\ query'.last = m
      BY <2>2, <2>8, <3>1, <3>2
    <3>4. /\ \A t \in always \cap published : t \in R \/ t \in listed
          /\ \A t \in listed : \A r \in R : t <= r
      BY <1>4, <3>1, BehindTheWalk DEF R
    <3>5. Below(listed', always', m)
      BY <2>1, <2>8, <3>4 DEF Below
    <3>6. \A t \in listed' : t <= m
      BY <2>1, <2>8, <3>4
    <3>7. kind' = "oci"
      BY <1>4
    <3> QED BY <2>2, <3>3, <3>5, <3>6, <3>7 DEF Ahead
  <2> QED BY <2>10, <2>11, <2>12, <2>13, <2>14 DEF IInv
<1> QED BY <1>4, <1>8, <1>9

\* The walk ends without a page.
LEMMA FailInv ==
    ASSUME IInv, state' = "failed",
           UNCHANGED <<kind, again, query, listed, repeated, always, restarted, dropped, strayed,
                       misled, published, changes>>
    PROVE  IInv'
  BY DEF IInv, TypeOK, Ahead, StrayIsOdd, WalkComplete, LinkMeansTheSame

LEMMA ChangeInv == ASSUME IInv, NEW t \in Tags, Change(t) PROVE IInv'
<1>1. UNCHANGED walk /\ changes < MaxChanges /\ changes' = changes + 1
      /\ published' = IF t \in published THEN published \ {t} ELSE published \cup {t}
  BY DEF Change
<1>2. published' \subseteq Tags /\ changes' \in 0 .. MaxChanges
  <2>1. published \subseteq Tags /\ changes \in 0 .. MaxChanges
    BY DEF IInv, TypeOK
  <2>2. published' \subseteq Tags
    BY <1>1, <2>1
  <2> QED BY <1>1, <2>1, <2>2, PagesAssumption
<1> QED BY <1>1, <1>2 DEF walk, IInv, TypeOK, Ahead, StrayIsOdd, WalkComplete, LinkMeansTheSame,
           Above, Below

LEMMA NextInv == IInv /\ [Next]_vars => IInv'
<1> SUFFICES ASSUME IInv, [Next]_vars PROVE IInv'
  OBVIOUS
<1>1. CASE UNCHANGED vars
  BY <1>1 DEF vars, walk, IInv, TypeOK, Ahead, StrayIsOdd, WalkComplete, LinkMeansTheSame,
     Above, Below
<1>2. CASE ClassicPage
  BY <1>2, ClassicInv
<1>3. CASE ChartUnknown
  BY <1>3, FailInv DEF ChartUnknown
<1>4. CASE OciPage
  BY <1>4, OciInv
<1>5. CASE PageFails
  BY <1>5, FailInv DEF PageFails
<1>6. CASE \E t \in Tags : Change(t)
  BY <1>6, ChangeInv
<1>7. CASE Done
  BY <1>1, <1>7 DEF Done
<1> QED BY <1>1, <1>2, <1>3, <1>4, <1>5, <1>6, <1>7 DEF Next

LEMMA Invariance == Spec => []IInv
  BY InitInv, NextInv, PTL DEF Spec

\* Every variable of the walk keeps its type: only tags are listed, never an
\* entry without a version, and the client asks only queries it can ask.
THEOREM TypeCorrect == Spec => []TypeOK
<1>1. IInv => TypeOK BY DEF IInv
<1> QED BY <1>1, Invariance, PTL

\* However the repository changes between the pages, a walk that ends was given
\* every tag that stayed, unless the proxy may have dropped a link, and no tag
\* twice, unless a page started over or the registry's link led elsewhere.
THEOREM WalksAreComplete == Spec => []WalkComplete
<1>1. IInv => WalkComplete BY DEF IInv
<1> QED BY <1>1, Invariance, PTL

\* Whatever Link header the registry sends, the link the client is given leads
\* where the registry's leads.
THEOREM LinksMeanTheSame == Spec => []LinkMeansTheSame
<1>1. IInv => LinkMeansTheSame BY DEF IInv
<1> QED BY <1>1, Invariance, PTL

\* While the client goes on and was not sent elsewhere, it has everything that
\* stayed on its side of the tag it continues after, and nothing beyond it
\* unless a page started over.
THEOREM WalkKeepsItsPlace == Spec => []Ahead
<1>1. IInv => Ahead BY DEF IInv
<1> QED BY <1>1, Invariance, PTL
=============================================================================
