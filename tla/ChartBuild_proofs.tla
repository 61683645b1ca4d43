-------------------------- MODULE ChartBuild_proofs --------------------------
(* Proofs about ChartBuild, for archives of every length and every entry: how  *)
(* its operators compute, and that what is unpacked, packed and unpacked again *)
(* is what the archive says.                                                   *)
EXTENDS ChartBuild, WellFoundedInduction, TLAPS

-----------------------------------------------------------------------------
(* Induction over an interval, for sets instead of predicates.               *)

\* A set with 0 and with the successor of each of its members holds Nat.
LEMMA NatInduct ==
    ASSUME NEW S, 0 \in S, \A n \in Nat : n \in S => n + 1 \in S
    PROVE  Nat \subseteq S
<1> DEFINE T == Nat \ S
           R == {ss \in Nat \X Nat : ss[1] < ss[2]}
<1> SUFFICES ASSUME T # {} PROVE FALSE
  OBVIOUS
<1>1. IsWellFoundedOn(R, Nat)
  BY NatLessThanWellFounded DEF OpToRel
<1>2. PICK x \in T : \A y \in T : ~(<<y, x>> \in R)
  <2>1. T \subseteq Nat
    OBVIOUS
  <2> HIDE DEF T, R
  <2> QED BY <1>1, <2>1, WFMin
<1>3. x \in Nat /\ x # 0
  OBVIOUS
<1>4. x - 1 \in Nat
  BY <1>3
<1>5. <<x - 1, x>> \in R
  BY <1>3, <1>4
<1>6. x - 1 \in S
  BY <1>2, <1>4, <1>5
<1>7. x \in S
  BY <1>4, <1>6
<1> QED BY <1>7

LEMMA UpTo ==
    ASSUME NEW N \in Nat, NEW S, 0 \in S, \A n \in 0 .. N - 1 : n \in S => n + 1 \in S
    PROVE  0 .. N \subseteq S
<1> DEFINE T == {n \in Nat : n <= N => n \in S}
<1>1. 0 \in T
  OBVIOUS
<1>2. ASSUME NEW n \in Nat, n \in T PROVE n + 1 \in T
  BY <1>2
<1>3. Nat \subseteq T
  <2> HIDE DEF T
  <2> QED BY <1>1, <1>2, NatInduct
<1> QED BY <1>3

\* A function whose values stay in a set.
LEMMA Stays ==
    ASSUME NEW N \in Nat, NEW X, NEW g, g[0] \in X,
           \A i \in 1 .. N : g[i - 1] \in X => g[i] \in X
    PROVE  \A n \in 0 .. N : g[n] \in X
<1> DEFINE S == {n \in 0 .. N : g[n] \in X}
<1>1. 0 \in S
  OBVIOUS
<1>2. ASSUME NEW n \in 0 .. N - 1, n \in S PROVE n + 1 \in S
  <2>1. n + 1 \in 1 .. N /\ (n + 1) - 1 = n
    OBVIOUS
  <2> QED BY <1>2, <2>1
<1>3. 0 .. N \subseteq S
  <2> HIDE DEF S
  <2> QED BY <1>1, <1>2, UpTo
<1> QED BY <1>3

\* A function on 0 .. N with values in X that begins with base and goes on by
\* a step.
IsStep(step, X, N) == N \in Nat /\ step \in [X \X (1 .. N) -> X]

IsFold(f, X, base, N, step) ==
    /\ f \in [0 .. N -> X]
    /\ f[0] = base
    /\ \A i \in 1 .. N : f[i] = step[<<f[i - 1], i>>]

LEMMA FoldExists ==
    ASSUME NEW X, NEW base \in X, NEW N, NEW step, IsStep(step, X, N)
    PROVE  \E f : IsFold(f, X, base, N, step)
<1> USE DEF IsStep
<1> DEFINE Good(f, n) == f[0] = base /\ \A i \in 1 .. n : f[i] = step[<<f[i - 1], i>>]
           S == {n \in 0 .. N : \E f \in [0 .. n -> X] : Good(f, n)}
<1>1. 0 \in S
  <2> DEFINE f == [i \in 0 .. 0 |-> base]
  <2>1. f \in [0 .. 0 -> X] /\ Good(f, 0)
    OBVIOUS
  <2>2. \E h \in [0 .. 0 -> X] : Good(h, 0)
    <3> HIDE DEF f
    <3> QED BY <2>1
  <2> QED BY <2>2
<1>2. ASSUME NEW n \in 0 .. N - 1, n \in S PROVE n + 1 \in S
  <2>1. PICK f \in [0 .. n -> X] : Good(f, n)
    BY <1>2
  <2> DEFINE next == step[<<f[n], n + 1>>]
             g == [i \in 0 .. n + 1 |-> IF i = n + 1 THEN next ELSE f[i]]
  <2>2. next \in X
    <3>1. f[n] \in X /\ n + 1 \in 1 .. N
      OBVIOUS
    <3> QED BY <3>1
  <2>3. g \in [0 .. n + 1 -> X]
    <3>1. ASSUME NEW i \in 0 .. n + 1 PROVE (IF i = n + 1 THEN next ELSE f[i]) \in X
      <4> HIDE DEF next
      <4>1. i # n + 1 => i \in 0 .. n
        OBVIOUS
      <4> QED BY <2>2, <4>1
    <3> HIDE DEF next
    <3> QED BY <3>1
  <2>4. Good(g, n + 1)
    <3>1. g[0] = base
      BY <2>1
    <3>2. ASSUME NEW i \in 1 .. n + 1 PROVE g[i] = step[<<g[i - 1], i>>]
      <4>1. CASE i = n + 1
        <5>1. i - 1 = n /\ g[i - 1] = f[n] /\ g[i] = next
          BY <4>1
        <5> HIDE DEF g
        <5>2. step[<<g[i - 1], i>>] = next
          BY <4>1, <5>1
        <5> QED BY <5>1, <5>2
      <4>2. CASE i # n + 1
        <5>1. i \in 1 .. n /\ i \in 0 .. n /\ i - 1 \in 0 .. n
          BY <4>2
        <5>2. g[i] = f[i] /\ g[i - 1] = f[i - 1]
          BY <4>2, <5>1
        <5>3. f[i] = step[<<f[i - 1], i>>]
          BY <2>1, <5>1
        <5> QED BY <5>2, <5>3
      <4> QED BY <4>1, <4>2
    <3> QED BY <3>1, <3>2
  <2>5. \E h \in [0 .. n + 1 -> X] : Good(h, n + 1)
    <3> HIDE DEF g
    <3> QED BY <2>3, <2>4
  <2> QED BY <2>5
<1>3. 0 .. N \subseteq S
  <2> HIDE DEF S
  <2> QED BY <1>1, <1>2, UpTo
<1>4. N \in S
  BY <1>3
<1>5. \E f \in [0 .. N -> X] : Good(f, N)
  BY <1>4
<1> QED BY <1>5 DEF IsFold

-----------------------------------------------------------------------------
(* How the operators of ChartBuild that work through a sequence unfold.      *)

LEMMA BytesUnfold ==
    ASSUME NEW a, Len(a) \in Nat, \A i \in 1 .. Len(a) : Declared(a, i) \in Int
    PROVE  /\ Bytes(a) \in [0 .. Len(a) -> Int]
           /\ Bytes(a)[0] = 0
           /\ \A i \in 1 .. Len(a) : Bytes(a)[i] = Bytes(a)[i - 1] + Declared(a, i)
<1> DEFINE N == Len(a)
           X == Int
           step == [p \in X \X (1 .. N) |-> p[1] + Declared(a, p[2])]
           Rec(f) == [n \in 0 .. N |-> IF n = 0 THEN 0 ELSE f[n - 1] + Declared(a, n)]
<1>1. N \in Nat /\ 0 \in X
  BY DEF N, X
<1>2. ASSUME NEW x \in X, NEW i \in 1 .. N PROVE x + Declared(a, i) \in X
  BY DEF N, X
<1> HIDE DEF X, N
<1>3. IsStep(step, X, N)
  BY <1>1, <1>2 DEF IsStep
<1>4. ASSUME NEW x \in X, NEW i \in 1 .. N PROVE step[<<x, i>>] = x + Declared(a, i)
  OBVIOUS
<1>5. PICK f : IsFold(f, X, 0, N, step)
  <2> HIDE DEF step
  <2> QED BY <1>1, <1>3, FoldExists
<1> HIDE DEF step
<1>6. /\ f \in [0 .. N -> X] /\ f[0] = 0
      /\ \A i \in 1 .. N : f[i] = f[i - 1] + Declared(a, i)
  <2> SUFFICES ASSUME NEW i \in 1 .. N PROVE f[i] = f[i - 1] + Declared(a, i)
    BY <1>5 DEF IsFold
  <2>1. i - 1 \in 0 .. N
    BY <1>1
  <2>2. f[i - 1] \in X
    BY <1>5, <2>1 DEF IsFold
  <2> QED BY <1>4, <1>5, <2>2 DEF IsFold
<1>7. f = Rec(f)
  BY <1>1, <1>6
<1>8. Bytes(a) = Rec(Bytes(a))
  BY <1>7 DEF Bytes, N
<1>9. Bytes(a)[0] = 0
  BY <1>1, <1>8
<1>10. \A i \in 1 .. N : Bytes(a)[i] = Bytes(a)[i - 1] + Declared(a, i)
  BY <1>1, <1>8
<1>11. \A n \in 0 .. N : Bytes(a)[n] \in X
  <2>1. Bytes(a)[0] \in X
    BY <1>1, <1>9
  <2>2. \A i \in 1 .. N : Bytes(a)[i - 1] \in X => Bytes(a)[i] \in X
    BY <1>2, <1>10
  <2> QED BY <1>1, <2>1, <2>2, Stays, Zenon
<1>12. Bytes(a) \in [0 .. N -> X]
  BY <1>8, <1>11
<1> QED BY <1>9, <1>10, <1>12 DEF N, X

NoPax == [ok |-> TRUE, pax_path |-> None, pax_size |-> None]

Acc(V) == [ok : BOOLEAN, pax_path : V, pax_size : V]

LEMMA PaxUnfold ==
    ASSUME NEW records, Len(records) \in Nat, NEW V, None \in V,
           \A i \in 1 .. Len(records) : records[i].value \in V
    PROVE  /\ PaxAfter(records) \in [0 .. Len(records) -> Acc(V)]
           /\ PaxAfter(records)[0] = NoPax
           /\ \A i \in 1 .. Len(records) : PaxAfter(records)[i] = apply_pax_record(PaxAfter(records)[i - 1], records[i])
<1> DEFINE N == Len(records)
           X == Acc(V)
           step == [p \in X \X (1 .. N) |-> apply_pax_record(p[1], records[p[2]])]
           Rec(f) == [n \in 0 .. N |-> IF n = 0 THEN NoPax ELSE apply_pax_record(f[n - 1], records[n])]
<1>1. N \in Nat /\ NoPax \in X
  BY DEF NoPax, Acc
<1>2. ASSUME NEW x \in X, NEW i \in 1 .. N PROVE apply_pax_record(x, records[i]) \in X
  BY DEF apply_pax_record, Acc
<1> HIDE DEF X, N
<1>3. IsStep(step, X, N)
  BY <1>1, <1>2 DEF IsStep
<1>4. ASSUME NEW x \in X, NEW i \in 1 .. N PROVE step[<<x, i>>] = apply_pax_record(x, records[i])
  OBVIOUS
<1>5. PICK f : IsFold(f, X, NoPax, N, step)
  <2> HIDE DEF step
  <2> QED BY <1>1, <1>3, FoldExists
<1> HIDE DEF step
<1>6. /\ f \in [0 .. N -> X] /\ f[0] = NoPax
      /\ \A i \in 1 .. N : f[i] = apply_pax_record(f[i - 1], records[i])
  <2> SUFFICES ASSUME NEW i \in 1 .. N PROVE f[i] = apply_pax_record(f[i - 1], records[i])
    BY <1>5 DEF IsFold
  <2>1. i - 1 \in 0 .. N
    BY <1>1
  <2>2. f[i - 1] \in X
    BY <1>5, <2>1 DEF IsFold
  <2> QED BY <1>4, <1>5, <2>2 DEF IsFold
<1>7. f = Rec(f)
  BY <1>1, <1>6
<1>8. PaxAfter(records) = Rec(PaxAfter(records))
  BY <1>7 DEF PaxAfter, NoPax, N
<1>9. PaxAfter(records)[0] = NoPax
  BY <1>1, <1>8
<1>10. \A i \in 1 .. N : PaxAfter(records)[i] = apply_pax_record(PaxAfter(records)[i - 1], records[i])
  BY <1>1, <1>8
<1>11. \A n \in 0 .. N : PaxAfter(records)[n] \in X
  <2>1. PaxAfter(records)[0] \in X
    BY <1>1, <1>9
  <2>2. \A i \in 1 .. N : PaxAfter(records)[i - 1] \in X => PaxAfter(records)[i] \in X
    BY <1>2, <1>10
  <2> QED BY <1>1, <2>1, <2>2, Stays, Zenon
<1>12. PaxAfter(records) \in [0 .. N -> X]
  BY <1>8, <1>11
<1> QED BY <1>9, <1>10, <1>12 DEF N, X

LEMMA PackedUnfold ==
    ASSUME NEW fs, Len(fs) \in Nat, \A i \in 1 .. Len(fs) : FileEntries(fs[i]) \in Seq(TarEntries)
    PROVE  /\ Packed(fs) \in [0 .. Len(fs) -> Seq(TarEntries)]
           /\ Packed(fs)[0] = <<>>
           /\ \A i \in 1 .. Len(fs) : Packed(fs)[i] = Packed(fs)[i - 1] \o FileEntries(fs[i])
<1> DEFINE N == Len(fs)
           X == Seq(TarEntries)
           step == [p \in X \X (1 .. N) |-> p[1] \o FileEntries(fs[p[2]])]
           Rec(f) == [n \in 0 .. N |-> IF n = 0 THEN <<>> ELSE f[n - 1] \o FileEntries(fs[n])]
<1>1. N \in Nat /\ <<>> \in X
  BY DEF N, X
<1>2. ASSUME NEW x \in X, NEW i \in 1 .. N PROVE x \o FileEntries(fs[i]) \in X
  BY DEF N, X
<1> HIDE DEF X, N
<1>3. IsStep(step, X, N)
  BY <1>1, <1>2 DEF IsStep
<1>4. ASSUME NEW x \in X, NEW i \in 1 .. N PROVE step[<<x, i>>] = x \o FileEntries(fs[i])
  OBVIOUS
<1>5. PICK f : IsFold(f, X, <<>>, N, step)
  <2> HIDE DEF step
  <2> QED BY <1>1, <1>3, FoldExists
<1> HIDE DEF step
<1>6. /\ f \in [0 .. N -> X] /\ f[0] = <<>>
      /\ \A i \in 1 .. N : f[i] = f[i - 1] \o FileEntries(fs[i])
  <2> SUFFICES ASSUME NEW i \in 1 .. N PROVE f[i] = f[i - 1] \o FileEntries(fs[i])
    BY <1>5 DEF IsFold
  <2>1. i - 1 \in 0 .. N
    BY <1>1
  <2>2. f[i - 1] \in X
    BY <1>5, <2>1 DEF IsFold
  <2> QED BY <1>4, <1>5, <2>2 DEF IsFold
<1>7. f = Rec(f)
  <2>1. ASSUME NEW n \in 0 .. N
        PROVE  f[n] = IF n = 0 THEN <<>> ELSE f[n - 1] \o FileEntries(fs[n])
    <3>1. n # 0 => n \in 1 .. N
      BY <1>1
    <3> QED BY <1>6, <3>1, Zenon
  <2>2. f = [n \in 0 .. N |-> f[n]]
    BY <1>6
  <2> QED BY <2>1, <2>2, Zenon
<1>8. Packed(fs) = Rec(Packed(fs))
  BY <1>7 DEF Packed, N
<1>9. Packed(fs)[0] = <<>>
  BY <1>1, <1>8
<1>10. \A i \in 1 .. N : Packed(fs)[i] = Packed(fs)[i - 1] \o FileEntries(fs[i])
  BY <1>1, <1>8
<1>11. \A n \in 0 .. N : Packed(fs)[n] \in X
  <2>1. Packed(fs)[0] \in X
    BY <1>1, <1>9
  <2>2. \A i \in 1 .. N : Packed(fs)[i - 1] \in X => Packed(fs)[i] \in X
    BY <1>2, <1>10
  <2> QED BY <1>1, <2>1, <2>2, Stays, Zenon
<1>12. Packed(fs) \in [0 .. N -> X]
  BY <1>8, <1>11
<1> QED BY <1>9, <1>10, <1>12 DEF N, X

LEMMA MembersUnfold ==
    ASSUME NEW a, Len(a) \in Nat, NEW F,
           \A i \in 1 .. Len(a) : a[i].type = "regular" => Member(a, i) \in F
    PROVE  /\ Members(a) \in [0 .. Len(a) -> Seq(F)]
           /\ Members(a)[0] = <<>>
           /\ \A i \in 1 .. Len(a) : Members(a)[i] = WithMember(Members(a)[i - 1], a, i)
<1> DEFINE N == Len(a)
           X == Seq(F)
           step == [p \in X \X (1 .. N) |-> WithMember(p[1], a, p[2])]
           Rec(f) == [n \in 0 .. N |-> IF n = 0 THEN <<>> ELSE WithMember(f[n - 1], a, n)]
<1>1. N \in Nat /\ <<>> \in X
  BY DEF N, X
<1>2. ASSUME NEW x \in X, NEW i \in 1 .. N PROVE WithMember(x, a, i) \in X
  BY DEF N, X, WithMember
<1> HIDE DEF X, N
<1>3. IsStep(step, X, N)
  BY <1>1, <1>2 DEF IsStep
<1>4. ASSUME NEW x \in X, NEW i \in 1 .. N PROVE step[<<x, i>>] = WithMember(x, a, i)
  OBVIOUS
<1>5. PICK f : IsFold(f, X, <<>>, N, step)
  <2> HIDE DEF step
  <2> QED BY <1>1, <1>3, FoldExists
<1> HIDE DEF step
<1>6. /\ f \in [0 .. N -> X] /\ f[0] = <<>>
      /\ \A i \in 1 .. N : f[i] = WithMember(f[i - 1], a, i)
  <2> SUFFICES ASSUME NEW i \in 1 .. N PROVE f[i] = WithMember(f[i - 1], a, i)
    BY <1>5 DEF IsFold
  <2>1. i - 1 \in 0 .. N
    BY <1>1
  <2>2. f[i - 1] \in X
    BY <1>5, <2>1 DEF IsFold
  <2> QED BY <1>4, <1>5, <2>2 DEF IsFold
<1>7. f = Rec(f)
  BY <1>1, <1>6
<1>8. Members(a) = Rec(Members(a))
  BY <1>7 DEF Members, N
<1>9. Members(a)[0] = <<>>
  BY <1>1, <1>8
<1>10. \A i \in 1 .. N : Members(a)[i] = WithMember(Members(a)[i - 1], a, i)
  BY <1>1, <1>8
<1>11. \A n \in 0 .. N : Members(a)[n] \in X
  <2>1. Members(a)[0] \in X
    BY <1>1, <1>9
  <2>2. \A i \in 1 .. N : Members(a)[i - 1] \in X => Members(a)[i] \in X
    BY <1>2, <1>10
  <2> QED BY <1>1, <2>1, <2>2, Stays, Zenon
<1>12. Members(a) \in [0 .. N -> X]
  BY <1>8, <1>11
<1> QED BY <1>9, <1>10, <1>12 DEF N, X

-----------------------------------------------------------------------------
(* What apply_pax_records comes to.                                          *)

LEMMA MaxIsTop ==
    ASSUME NEW S, NEW n \in S, \A y \in S : y \in Int /\ y <= n
    PROVE  Max(S) = n
<1>1. \A y \in S : n >= y
  OBVIOUS
<1>2. \E x \in S : \A y \in S : x >= y
  BY <1>1
<1>3. Max(S) \in S /\ \A y \in S : Max(S) >= y
  BY <1>2 DEF Max
<1> QED BY <1>1, <1>3

LEMMA PaxRecordType ==
    ASSUME NEW r \in PaxRecords
    PROVE  /\ r.key = "size" => r.value \in Int
           /\ r.key # "size" => r.value \in Names
           /\ r.value \in Int \cup Names
BY DEF PaxRecords

\* If the records are accepted, each key has the last of the values that the
\* records give it.
LEMMA PaxMeaning ==
    ASSUME NEW records \in Seq(PaxRecords), apply_pax_records(records).ok
    PROVE  /\ apply_pax_records(records).pax_path = Latest(records, "path")
           /\ apply_pax_records(records).pax_size = Latest(records, "size")
<1> DEFINE N == Len(records)
           V == {None} \cup Int \cup Names
           acc == PaxAfter(records)
           To(n, key) == {r \in Given(records, key) : r <= n}
           Upto(n, key) == IF To(n, key) = {} THEN None ELSE records[Max(To(n, key))].value
           S == {n \in 0 .. N : acc[n].ok => /\ acc[n].pax_path = Upto(n, "path")
                                             /\ acc[n].pax_size = Upto(n, "size")}
<1>1. N \in Nat /\ DOMAIN records = 1 .. N
  OBVIOUS
<1>2. \A i \in 1 .. N : records[i] \in PaxRecords
  OBVIOUS
<1>3. \A i \in 1 .. N : records[i].value \in V
  BY <1>2, PaxRecordType
<1>4. /\ acc \in [0 .. N -> Acc(V)]
      /\ acc[0] = NoPax
      /\ \A i \in 1 .. N : acc[i] = apply_pax_record(acc[i - 1], records[i])
  <2> HIDE DEF V
  <2>1. None \in V
    BY DEF V
  <2> QED BY <1>1, <1>3, <2>1, PaxUnfold
<1>5. \A key : Given(records, key) \subseteq 1 .. N
  BY <1>1 DEF Given
<1> HIDE DEF acc, N
<1>6. 0 \in S
  <2>1. \A key : To(0, key) = {}
    BY <1>1, <1>5
  <2> QED BY <1>1, <1>4, <2>1 DEF NoPax
<1>7. ASSUME NEW n \in 0 .. N - 1, n \in S PROVE n + 1 \in S
  <2> DEFINE r == records[n + 1]
  <2>1. n + 1 \in 1 .. N /\ (n + 1) - 1 = n /\ n \in 0 .. N /\ n \in Nat
    BY <1>1
  <2>2. acc[n + 1] = apply_pax_record(acc[n], r)
    BY <1>4, <2>1
  <2>3. acc[n] \in Acc(V)
    BY <1>4, <2>1
  <2>4. ASSUME NEW key, n + 1 \notin Given(records, key) PROVE Upto(n + 1, key) = Upto(n, key)
    <3>1. To(n + 1, key) = To(n, key)
      BY <1>5, <2>1, <2>4
    <3> HIDE DEF To
    <3> QED BY <3>1
  <2>5. ASSUME NEW key, n + 1 \in Given(records, key) PROVE Upto(n + 1, key) = r.value
    <3>1. n + 1 \in To(n + 1, key) /\ \A y \in To(n + 1, key) : y \in Int /\ y <= n + 1
      BY <1>5, <2>1, <2>5
    <3>2. Max(To(n + 1, key)) = n + 1
      <4> HIDE DEF To
      <4> QED BY <3>1, MaxIsTop
    <3> HIDE DEF To
    <3> QED BY <3>1, <3>2
  <2> HIDE DEF Upto
  <2>6. ASSUME acc[n + 1].ok
        PROVE  acc[n + 1].pax_path = Upto(n + 1, "path") /\ acc[n + 1].pax_size = Upto(n + 1, "size")
    <3>1. /\ acc[n].ok
          /\ acc[n].pax_path = Upto(n, "path") /\ acc[n].pax_size = Upto(n, "size")
      BY <1>7, <2>2, <2>3, <2>6 DEF apply_pax_record, Acc
    <3>2. CASE r.key = "path" /\ r.value # <<>>
      <4>1. n + 1 \in Given(records, "path") /\ n + 1 \notin Given(records, "size")
        BY <1>1, <2>1, <3>2 DEF Given
      <4>2. acc[n + 1] = [acc[n] EXCEPT !.pax_path = r.value]
        BY <2>2, <2>3, <2>6, <3>1, <3>2 DEF apply_pax_record, Acc
      <4> QED BY <2>3, <2>4, <2>5, <3>1, <4>1, <4>2 DEF Acc
    <3>3. CASE r.key = "size"
      <4>1. n + 1 \notin Given(records, "path") /\ n + 1 \in Given(records, "size")
        BY <1>1, <2>1, <3>3 DEF Given
      <4>2. acc[n + 1] = [acc[n] EXCEPT !.pax_size = r.value]
        BY <2>2, <2>3, <2>6, <3>1, <3>3 DEF apply_pax_record, Acc
      <4> QED BY <2>3, <2>4, <2>5, <3>1, <4>1, <4>2 DEF Acc
    <3>4. CASE ~(r.key = "path" /\ r.value # <<>>) /\ r.key # "size"
      <4>1. n + 1 \notin Given(records, "path") /\ n + 1 \notin Given(records, "size")
        BY <3>4 DEF Given
      <4>2. acc[n + 1] = acc[n]
        BY <2>2, <2>3, <2>6, <3>1, <3>4 DEF apply_pax_record, Acc
      <4> QED BY <2>4, <3>1, <4>1, <4>2
    <3> QED BY <3>2, <3>3, <3>4
  <2> QED BY <2>1, <2>6
<1>8. 0 .. N \subseteq S
  <2> HIDE DEF S
  <2> QED BY <1>1, <1>6, <1>7, UpTo
<1>9. N \in S
  <2>1. N \in 0 .. N
    BY <1>1
  <2> HIDE DEF S
  <2> QED BY <1>8, <2>1
<1>10. acc[N] = apply_pax_records(records)
  BY DEF apply_pax_records, acc, N
<1>11. \A key : To(N, key) = Given(records, key)
  BY <1>1, <1>5
<1>12. \A key : Upto(N, key) = Latest(records, key)
  <2> HIDE DEF To
  <2> QED BY <1>11 DEF Latest
<1> HIDE DEF Upto
<1> QED BY <1>9, <1>10, <1>12

-----------------------------------------------------------------------------
(* The types of what an archive says.                                        *)

Files == [name : Names, content : Contents, size : Nat]

LEMMA NatLeast ==
    ASSUME NEW S \in SUBSET Nat, S # {}
    PROVE  \E x \in S : \A y \in S : x <= y
<1> DEFINE R == {ss \in Nat \X Nat : ss[1] < ss[2]}
<1>1. IsWellFoundedOn(R, Nat)
  BY NatLessThanWellFounded DEF OpToRel
<1>2. PICK x \in S : \A y \in S : ~(<<y, x>> \in R)
  <2> HIDE DEF R
  <2> QED BY <1>1, WFMin
<1>3. ASSUME NEW y \in S PROVE x <= y
  <2>1. x \in Nat /\ y \in Nat
    OBVIOUS
  <2>2. ~(y < x)
    BY <1>2, <2>1
  <2> QED BY <2>1, <2>2
<1> QED BY <1>3

LEMMA MaxExists ==
    ASSUME NEW N \in Nat, NEW S \in SUBSET (1 .. N), S # {}
    PROVE  Max(S) \in S
<1> DEFINE T == {N - x : x \in S}
<1>1. T \in SUBSET Nat /\ T # {}
  <2>1. ASSUME NEW x \in S PROVE N - x \in Nat
    OBVIOUS
  <2>2. T \subseteq Nat
    BY <2>1
  <2> QED BY <2>2
<1>2. PICK t \in T : \A y \in T : t <= y
  <2> HIDE DEF T
  <2> QED BY <1>1, NatLeast
<1>3. PICK x \in S : t = N - x
  OBVIOUS
<1>4. ASSUME NEW y \in S PROVE x >= y
  <2>1. N - y \in T
    OBVIOUS
  <2>2. N - x <= N - y
    BY <1>2, <1>3, <2>1
  <2>3. x \in Int /\ y \in Int
    OBVIOUS
  <2> QED BY <2>2, <2>3
<1> QED BY <1>4 DEF Max

LEMMA LatestType ==
    ASSUME NEW records \in Seq(PaxRecords)
    PROVE  /\ Latest(records, "path") \in Names \cup {None}
           /\ Latest(records, "size") \in Int \cup {None}
<1>1. ASSUME NEW key, Given(records, key) # {}
      PROVE  \E r \in DOMAIN records : /\ Latest(records, key) = records[r].value
                                       /\ records[r].key = key
  <2>1. Given(records, key) \in SUBSET (1 .. Len(records)) /\ Len(records) \in Nat
    BY DEF Given
  <2>2. Max(Given(records, key)) \in Given(records, key)
    BY <1>1, <2>1, MaxExists
  <2> QED BY <1>1, <2>2 DEF Latest, Given
<1>2. \A r \in DOMAIN records : records[r] \in PaxRecords
  OBVIOUS
<1> QED BY <1>1, <1>2, PaxRecordType DEF Latest

LEMMA EntryType ==
    ASSUME NEW a \in Seq(TarEntries), NEW i \in 1 .. Len(a)
    PROVE  /\ a[i] \in TarEntries
           /\ a[i].size \in Nat /\ a[i].name \in Names /\ a[i].long \in Names
           /\ a[i].records \in Seq(PaxRecords) /\ a[i].content \in Contents
<1>1. a[i] \in TarEntries
  OBVIOUS
<1> QED BY <1>1 DEF TarEntries

LEMMA AnyOfMember == ASSUME NEW S, S # {} PROVE AnyOf(S) \in S
BY DEF AnyOf

LEMMA HeadersType ==
    ASSUME NEW a \in Seq(TarEntries), NEW i \in 1 .. Len(a) + 1, NEW type
    PROVE  Headers(a, i, type) \subseteq 1 .. Len(a)
BY DEF Headers, Described

LEMMA PaxValueType ==
    ASSUME NEW a \in Seq(TarEntries), NEW i \in 1 .. Len(a) + 1
    PROVE  /\ PaxValue(a, i, "path") \in Names \cup {None}
           /\ PaxValue(a, i, "size") \in Int \cup {None}
<1>1. CASE Headers(a, i, "x") = {}
  BY <1>1 DEF PaxValue
<1>2. CASE Headers(a, i, "x") # {}
  <2> DEFINE j == AnyOf(Headers(a, i, "x"))
  <2>1. j \in 1 .. Len(a)
    BY <1>2, HeadersType, AnyOfMember
  <2>2. a[j].records \in Seq(PaxRecords)
    <3> HIDE DEF j
    <3> QED BY <2>1, EntryType
  <2>3. \A key : PaxValue(a, i, key) = Latest(a[j].records, key)
    BY <1>2 DEF PaxValue
  <2> HIDE DEF j
  <2> QED BY <2>2, <2>3, LatestType
<1> QED BY <1>1, <1>2

LEMMA DeclaredType ==
    ASSUME NEW a \in Seq(TarEntries), NEW i \in 1 .. Len(a)
    PROVE  Declared(a, i) \in Int
BY PaxValueType, EntryType DEF Declared

LEMMA MemberType ==
    ASSUME NEW a \in Seq(TarEntries), NEW i \in 1 .. Len(a)
    PROVE  Member(a, i) \in Files
<1>1. TrueName(a, i) \in Names
  <2>1. CASE PaxValue(a, i, "path") # None
    BY <2>1, PaxValueType DEF TrueName
  <2>2. CASE PaxValue(a, i, "path") = None /\ Headers(a, i, "L") # {}
    <3> DEFINE j == AnyOf(Headers(a, i, "L"))
    <3>1. j \in 1 .. Len(a)
      BY <2>2, HeadersType, AnyOfMember
    <3>2. TrueName(a, i) = a[j].long
      BY <2>2 DEF TrueName
    <3> HIDE DEF j
    <3> QED BY <3>1, <3>2, EntryType
  <2>3. CASE PaxValue(a, i, "path") = None /\ Headers(a, i, "L") = {}
    BY <2>3, EntryType DEF TrueName
  <2> QED BY <2>1, <2>2, <2>3
<1> QED BY <1>1, EntryType DEF Member, Files

-----------------------------------------------------------------------------
(* What is said of the first entries of an archive when it has been read on. *)

LEMMA BytesOf ==
    ASSUME NEW a \in Seq(TarEntries)
    PROVE  /\ Bytes(a) \in [0 .. Len(a) -> Int]
           /\ Bytes(a)[0] = 0
           /\ \A i \in 1 .. Len(a) : Bytes(a)[i] = Bytes(a)[i - 1] + Declared(a, i)
<1>1. Len(a) \in Nat /\ \A i \in 1 .. Len(a) : Declared(a, i) \in Int
  BY DeclaredType
<1> QED BY <1>1, BytesUnfold

LEMMA MembersOf ==
    ASSUME NEW a \in Seq(TarEntries)
    PROVE  /\ Members(a) \in [0 .. Len(a) -> Seq(Files)]
           /\ Members(a)[0] = <<>>
           /\ \A i \in 1 .. Len(a) : Members(a)[i] = WithMember(Members(a)[i - 1], a, i)
<1>1. Len(a) \in Nat /\ \A i \in 1 .. Len(a) : a[i].type = "regular" => Member(a, i) \in Files
  BY MemberType
<1> QED BY <1>1, MembersUnfold

\* b begins with a.
Begins(a, b) ==
    /\ a \in Seq(TarEntries) /\ b \in Seq(TarEntries)
    /\ Len(a) <= Len(b)
    /\ \A i \in 1 .. Len(a) : b[i] = a[i]

LEMMA HeadersPrefix ==
    ASSUME NEW a, NEW b, Begins(a, b), NEW i \in 1 .. Len(a) + 1, NEW type
    PROVE  Headers(b, i, type) = Headers(a, i, type)
BY DEF Begins, Headers, Described

\* The entry that stands for the metadata of a type.
LEMMA HeaderPrefix ==
    ASSUME NEW a, NEW b, Begins(a, b), NEW i \in 1 .. Len(a) + 1, NEW type,
           Headers(a, i, type) # {}
    PROVE  b[AnyOf(Headers(b, i, type))] = a[AnyOf(Headers(a, i, type))]
<1> DEFINE j == AnyOf(Headers(a, i, type))
<1>1. j \in 1 .. Len(a)
  BY HeadersType, AnyOfMember DEF Begins
<1>2. Headers(b, i, type) = Headers(a, i, type)
  BY HeadersPrefix
<1>3. b[j] = a[j]
  <2> HIDE DEF j
  <2> QED BY <1>1 DEF Begins
<1> QED BY <1>2, <1>3

LEMMA PaxValuePrefix ==
    ASSUME NEW a, NEW b, Begins(a, b), NEW i \in 1 .. Len(a) + 1, NEW key
    PROVE  PaxValue(b, i, key) = PaxValue(a, i, key)
<1>1. Headers(b, i, "x") = Headers(a, i, "x")
  BY HeadersPrefix
<1>2. CASE Headers(a, i, "x") = {}
  BY <1>1, <1>2 DEF PaxValue
<1>3. CASE Headers(a, i, "x") # {}
  <2>1. b[AnyOf(Headers(b, i, "x"))] = a[AnyOf(Headers(a, i, "x"))]
    BY <1>3, HeaderPrefix
  <2> QED BY <1>1, <1>3, <2>1 DEF PaxValue
<1> QED BY <1>2, <1>3

LEMMA SaidPrefix ==
    ASSUME NEW a, NEW b, Begins(a, b), NEW i \in 1 .. Len(a)
    PROVE  /\ TrueName(b, i) = TrueName(a, i)
           /\ Declared(b, i) = Declared(a, i)
           /\ Member(b, i) = Member(a, i)
<1>1. b[i] = a[i] /\ i \in 1 .. Len(a) + 1
  BY DEF Begins
<1>2. TrueName(b, i) = TrueName(a, i)
  <2>1. PaxValue(b, i, "path") = PaxValue(a, i, "path") /\ Headers(b, i, "L") = Headers(a, i, "L")
    BY <1>1, PaxValuePrefix, HeadersPrefix
  <2>2. CASE Headers(a, i, "L") = {}
    BY <1>1, <2>1, <2>2 DEF TrueName
  <2>3. CASE Headers(a, i, "L") # {}
    <3>1. b[AnyOf(Headers(b, i, "L"))] = a[AnyOf(Headers(a, i, "L"))]
      BY <1>1, <2>3, HeaderPrefix
    <3> QED BY <2>1, <2>3, <3>1 DEF TrueName
  <2> QED BY <2>2, <2>3
<1>3. Declared(b, i) = Declared(a, i)
  <2>1. PaxValue(b, i, "size") = PaxValue(a, i, "size")
    BY <1>1, PaxValuePrefix
  <2> QED BY <1>1, <2>1 DEF Declared
<1> QED BY <1>1, <1>2, <1>3 DEF Member

LEMMA BytesPrefix ==
    ASSUME NEW a, NEW b, Begins(a, b)
    PROVE  \A n \in 0 .. Len(a) : Bytes(b)[n] = Bytes(a)[n]
<1> DEFINE S == {n \in 0 .. Len(a) : Bytes(b)[n] = Bytes(a)[n]}
<1>1. a \in Seq(TarEntries) /\ b \in Seq(TarEntries) /\ Len(a) <= Len(b)
  BY DEF Begins
<1>2. 0 \in S
  BY <1>1, BytesOf
<1>3. ASSUME NEW n \in 0 .. Len(a) - 1, n \in S PROVE n + 1 \in S
  <2>1. n + 1 \in 1 .. Len(a) /\ n + 1 \in 1 .. Len(b) /\ (n + 1) - 1 = n /\ n + 1 \in 0 .. Len(a)
    BY <1>1
  <2>2. Bytes(b)[n + 1] = Bytes(b)[n] + Declared(b, n + 1)
    BY <1>1, <2>1, BytesOf
  <2>3. Bytes(a)[n + 1] = Bytes(a)[n] + Declared(a, n + 1)
    BY <1>1, <2>1, BytesOf
  <2> QED BY <1>3, <2>1, <2>2, <2>3, SaidPrefix
<1>4. 0 .. Len(a) \subseteq S
  <2>1. Len(a) \in Nat
    BY <1>1
  <2> HIDE DEF S
  <2> QED BY <1>2, <1>3, <2>1, UpTo
<1> QED BY <1>4

LEMMA MembersPrefix ==
    ASSUME NEW a, NEW b, Begins(a, b)
    PROVE  \A n \in 0 .. Len(a) : Members(b)[n] = Members(a)[n]
<1> DEFINE S == {n \in 0 .. Len(a) : Members(b)[n] = Members(a)[n]}
<1>1. a \in Seq(TarEntries) /\ b \in Seq(TarEntries) /\ Len(a) <= Len(b)
  BY DEF Begins
<1>2. 0 \in S
  BY <1>1, MembersOf
<1>3. ASSUME NEW n \in 0 .. Len(a) - 1, n \in S PROVE n + 1 \in S
  <2>1. n + 1 \in 1 .. Len(a) /\ n + 1 \in 1 .. Len(b) /\ (n + 1) - 1 = n /\ n + 1 \in 0 .. Len(a)
    BY <1>1
  <2>2. Members(b)[n + 1] = WithMember(Members(b)[n], b, n + 1)
    BY <1>1, <2>1, MembersOf
  <2>3. Members(a)[n + 1] = WithMember(Members(a)[n], a, n + 1)
    BY <1>1, <2>1, MembersOf
  <2>4. b[n + 1] = a[n + 1]
    BY <2>1 DEF Begins
  <2>5. Members(b)[n] = Members(a)[n]
    BY <1>3
  <2>6. Members(b)[n + 1] = Members(a)[n + 1]
    BY <2>1, <2>2, <2>3, <2>4, <2>5, SaidPrefix, Zenon DEF WithMember
  <2> QED BY <2>1, <2>6
<1>4. 0 .. Len(a) \subseteq S
  <2>1. Len(a) \in Nat
    BY <1>1
  <2> HIDE DEF S
  <2> QED BY <1>2, <1>3, <2>1, UpTo
<1> QED BY <1>4

-----------------------------------------------------------------------------
(* The metadata that waits for the entry at i.                               *)

LongAt(a, i) ==
    IF Headers(a, i, "L") = {} THEN None ELSE a[AnyOf(Headers(a, i, "L"))].long

Seen(a, i) == Headers(a, i, "x") # {}

PendingAt(a, i) ==
    [long_name |-> LongAt(a, i), pax_seen |-> Seen(a, i),
     pax_path |-> PaxValue(a, i, "path"), pax_size |-> PaxValue(a, i, "size")]

LEMMA PendingPrefix ==
    ASSUME NEW a, NEW b, Begins(a, b), NEW i \in 1 .. Len(a) + 1
    PROVE  PendingAt(b, i) = PendingAt(a, i)
<1>1. /\ Headers(b, i, "x") = Headers(a, i, "x") /\ Headers(b, i, "L") = Headers(a, i, "L")
      /\ PaxValue(b, i, "path") = PaxValue(a, i, "path")
      /\ PaxValue(b, i, "size") = PaxValue(a, i, "size")
  BY HeadersPrefix, PaxValuePrefix
<1>2. LongAt(b, i) = LongAt(a, i)
  <2>1. CASE Headers(a, i, "L") = {}
    BY <1>1, <2>1 DEF LongAt
  <2>2. CASE Headers(a, i, "L") # {}
    <3>1. b[AnyOf(Headers(b, i, "L"))] = a[AnyOf(Headers(a, i, "L"))]
      BY <2>2, HeaderPrefix
    <3> QED BY <1>1, <2>2, <3>1 DEF LongAt
  <2> QED BY <2>1, <2>2
<1>3. Seen(b, i) = Seen(a, i)
  BY <1>1 DEF Seen
<1> QED BY <1>1, <1>2, <1>3 DEF PendingAt

\* No long name waits exactly if there is no L entry, whose name is never None.
LEMMA LongNone ==
    ASSUME NEW a \in Seq(TarEntries), NEW i \in 1 .. Len(a) + 1
    PROVE  LongAt(a, i) = None <=> Headers(a, i, "L") = {}
<1>1. ASSUME Headers(a, i, "L") # {} PROVE LongAt(a, i) # None
  <2> DEFINE j == AnyOf(Headers(a, i, "L"))
  <2>1. j \in 1 .. Len(a) /\ LongAt(a, i) = a[j].long
    BY <1>1, HeadersType, AnyOfMember DEF LongAt
  <2> HIDE DEF j
  <2> QED BY <2>1, EntryType, EntriesAssumption
<1> QED BY <1>1 DEF LongAt

LEMMA HeadersStep ==
    ASSUME NEW a \in Seq(TarEntries), NEW i \in 1 .. Len(a), NEW type
    PROVE  Headers(a, i + 1, type) =
             IF a[i].type \notin Metadata THEN {}
             ELSE IF a[i].type = type THEN Headers(a, i, type) \cup {i} ELSE Headers(a, i, type)
<1>1. CASE a[i].type \notin Metadata
  <2>1. ASSUME NEW j \in 1 .. (i + 1) - 1 PROVE i \in j .. (i + 1) - 1
    OBVIOUS
  <2>2. Described(a, i + 1) = {}
    BY <1>1, <2>1 DEF Described
  <2> QED BY <1>1, <2>2 DEF Headers
<1>2. CASE a[i].type \in Metadata
  <2>1. Described(a, i + 1) = Described(a, i) \cup {i}
    <3>1. ASSUME NEW j \in Described(a, i) PROVE j \in Described(a, i + 1)
      BY <1>2, <3>1 DEF Described
    <3>2. i \in Described(a, i + 1)
      BY <1>2 DEF Described
    <3>3. ASSUME NEW j \in Described(a, i + 1), j # i PROVE j \in Described(a, i)
      BY <3>3 DEF Described
    <3> QED BY <3>1, <3>2, <3>3
  <2>2. i \notin Described(a, i)
    BY DEF Described
  <2> QED BY <1>2, <2>1, <2>2 DEF Headers
<1> QED BY <1>1, <1>2

\* A member takes the metadata.
LEMMA PendingTaken ==
    ASSUME NEW a \in Seq(TarEntries), NEW i \in 1 .. Len(a), a[i].type \notin Metadata
    PROVE  PendingAt(a, i + 1) = NoPending
<1>1. Headers(a, i + 1, "x") = {} /\ Headers(a, i + 1, "L") = {}
  BY HeadersStep
<1> QED BY <1>1 DEF PendingAt, LongAt, Seen, PaxValue, NoPending

\* An entry of another type leaves a long name and a pax header in place.
LEMMA PendingKept ==
    ASSUME NEW a \in Seq(TarEntries), NEW i \in 1 .. Len(a), a[i].type \in Metadata
    PROVE  /\ a[i].type # "L" => LongAt(a, i + 1) = LongAt(a, i)
           /\ a[i].type # "x" => /\ Seen(a, i + 1) = Seen(a, i)
                                 /\ \A key : PaxValue(a, i + 1, key) = PaxValue(a, i, key)
<1>1. a[i].type # "L" => Headers(a, i + 1, "L") = Headers(a, i, "L")
  BY HeadersStep
<1>2. a[i].type # "x" => Headers(a, i + 1, "x") = Headers(a, i, "x")
  BY HeadersStep
<1>3. ASSUME a[i].type # "L" PROVE LongAt(a, i + 1) = LongAt(a, i)
  BY <1>1, <1>3 DEF LongAt
<1>4. ASSUME a[i].type # "x", NEW key PROVE PaxValue(a, i + 1, key) = PaxValue(a, i, key)
  BY <1>2, <1>4 DEF PaxValue
<1>5. ASSUME a[i].type # "x" PROVE Seen(a, i + 1) = Seen(a, i)
  BY <1>2, <1>5 DEF Seen
<1> QED BY <1>3, <1>4, <1>5

LEMMA PendingLong ==
    ASSUME NEW a \in Seq(TarEntries), NEW i \in 1 .. Len(a), a[i].type = "L",
           LongAt(a, i) = None
    PROVE  PendingAt(a, i + 1) = [PendingAt(a, i) EXCEPT !.long_name = a[i].long]
<1>1. i \in 1 .. Len(a) + 1
  OBVIOUS
<1>2. Headers(a, i, "L") = {}
  BY <1>1, LongNone
<1>3. Headers(a, i + 1, "L") = {i}
  BY <1>2, HeadersStep DEF Metadata
<1>4. LongAt(a, i + 1) = a[i].long
  BY <1>3, AnyOfMember DEF LongAt
<1>5. /\ Seen(a, i + 1) = Seen(a, i)
      /\ PaxValue(a, i + 1, "path") = PaxValue(a, i, "path")
      /\ PaxValue(a, i + 1, "size") = PaxValue(a, i, "size")
  BY PendingKept DEF Metadata
<1> QED BY <1>4, <1>5 DEF PendingAt

LEMMA PendingPax ==
    ASSUME NEW a \in Seq(TarEntries), NEW i \in 1 .. Len(a), a[i].type = "x",
           Headers(a, i, "x") = {}, apply_pax_records(a[i].records).ok
    PROVE  PendingAt(a, i + 1) =
             [long_name |-> LongAt(a, i), pax_seen |-> TRUE,
              pax_path |-> apply_pax_records(a[i].records).pax_path,
              pax_size |-> apply_pax_records(a[i].records).pax_size]
<1>1. Headers(a, i + 1, "x") = {i}
  BY HeadersStep DEF Metadata
<1>2. \A key : PaxValue(a, i + 1, key) = Latest(a[i].records, key)
  BY <1>1, AnyOfMember DEF PaxValue
<1>3. a[i].records \in Seq(PaxRecords)
  BY EntryType
<1>4. /\ PaxValue(a, i + 1, "path") = apply_pax_records(a[i].records).pax_path
      /\ PaxValue(a, i + 1, "size") = apply_pax_records(a[i].records).pax_size
  BY <1>2, <1>3, PaxMeaning
<1>5. LongAt(a, i + 1) = LongAt(a, i)
  BY PendingKept DEF Metadata
<1>6. Seen(a, i + 1) = TRUE
  BY <1>1 DEF Seen
<1> QED BY <1>4, <1>5, <1>6, Zenon DEF PendingAt

LEMMA PendingOther ==
    ASSUME NEW a \in Seq(TarEntries), NEW i \in 1 .. Len(a), a[i].type \in Metadata,
           a[i].type \notin {"L", "x"}
    PROVE  PendingAt(a, i + 1) = PendingAt(a, i)
BY PendingKept DEF PendingAt

\* The name that is found for a member.
LEMMA NameIsTrue ==
    ASSUME NEW a \in Seq(TarEntries), NEW i \in 1 .. Len(a)
    PROVE  NameOf(a[i], PendingAt(a, i)) = TrueName(a, i)
<1>1. i \in 1 .. Len(a) + 1
  OBVIOUS
<1>2. LongAt(a, i) = None <=> Headers(a, i, "L") = {}
  BY <1>1, LongNone
<1> QED BY <1>2 DEF NameOf, PendingAt, TrueName, LongAt

-----------------------------------------------------------------------------
(* The inductive invariant: after pos entries, what the reader holds is what *)
(* the archive says of them.                                                 *)

Shape == archive \in Seq(TarEntries) /\ pos \in 0 .. Len(archive)

Snapshot(a) ==
    /\ count = pos
    /\ expanded = Bytes(a)[pos]
    /\ pending = PendingAt(a, pos + 1)
    /\ files = Members(a)[pos]

Position ==
    /\ (Unpacking /\ ~closed) => pos = Len(archive)
    /\ pc \in {"rewrite", "config"} => pos = Len(archive) /\ closed

Within ==
    /\ pos <= MaxFiles /\ expanded <= MaxExpanded
    /\ \A i \in DOMAIN files : files[i].size <= MaxFile

\* The entry at i goes beyond a limit.
Beyond(a, i) ==
    \/ i > MaxFiles
    \/ Bytes(a)[i] > MaxExpanded
    \/ Declared(a, i) > MaxFile

Refusal ==
    /\ pc # "done" => result = "none"
    /\ result = "too_large" => pos < Len(archive) /\ Beyond(archive, pos + 1)

ReadInv == Shape /\ Snapshot(archive) /\ Position /\ Within /\ Refusal

LEMMA Extended ==
    ASSUME Shape, Snapshot(archive), NEW e \in TarEntries, NEW b, b = Append(archive, e)
    PROVE  /\ b \in Seq(TarEntries) /\ Len(b) = Len(archive) + 1 /\ b[Len(b)] = e
           /\ pos \in 0 .. Len(b) /\ Snapshot(b)
<1>1. /\ b \in Seq(TarEntries) /\ Len(b) = Len(archive) + 1 /\ b[Len(b)] = e
      /\ pos \in 0 .. Len(b)
  BY DEF Shape
<1>2. Begins(archive, b)
  BY <1>1 DEF Shape, Begins
<1>3. pos \in 0 .. Len(archive) /\ pos + 1 \in 1 .. Len(archive) + 1
  BY DEF Shape
<1>4. Snapshot(b)
  BY <1>2, <1>3, BytesPrefix, MembersPrefix, PendingPrefix DEF Snapshot
<1> QED BY <1>1, <1>4

LEMMA SizeIsDeclared ==
    ASSUME NEW a, Snapshot(a)
    PROVE  EntrySize(a[pos + 1]) = Declared(a, pos + 1)
BY DEF Snapshot, EntrySize, Declared, PendingAt

\* One entry that is accepted.
LEMMA ReadStep ==
    ASSUME NEW a \in Seq(TarEntries), pos \in 0 .. Len(a) - 1, Snapshot(a), Within,
           ~OverLimit(a[pos + 1]), ~Malformed(a[pos + 1]), Charge(a[pos + 1]),
           TakeMetadata(a[pos + 1]) \/ TakeMember(a[pos + 1])
    PROVE  /\ pos' = pos + 1 /\ pos' \in 0 .. Len(a) /\ count' = pos'
           /\ expanded' = Bytes(a)[pos']
           /\ pending' = PendingAt(a, pos' + 1)
           /\ files' = Members(a)[pos']
           /\ Within'
<1> DEFINE i == pos + 1
<1>1. /\ i \in 1 .. Len(a) /\ i - 1 = pos /\ pos' = i /\ pos' \in 0 .. Len(a) /\ count' = pos'
  BY DEF Charge, Snapshot
<1>2. EntrySize(a[i]) = Declared(a, i)
  BY SizeIsDeclared
<1>3. expanded' = Bytes(a)[pos']
  BY <1>1, <1>2, BytesOf DEF Charge, Snapshot
<1>4. Members(a)[i] = WithMember(files, a, i) /\ files \in Seq(Files)
  <2>1. pos \in 0 .. Len(a) /\ files = Members(a)[pos]
    BY DEF Snapshot
  <2>2. Members(a) \in [0 .. Len(a) -> Seq(Files)]
    BY MembersOf
  <2>3. Members(a)[i] = WithMember(Members(a)[i - 1], a, i)
    BY <1>1, MembersOf
  <2> HIDE DEF i
  <2> QED BY <1>1, <2>1, <2>2, <2>3
<1>5. pending = PendingAt(a, i)
  BY DEF Snapshot
<1>6. pos' <= MaxFiles /\ expanded' <= MaxExpanded /\ EntrySize(a[i]) <= MaxFile
  <2>1. EntrySize(a[i]) \in Int /\ expanded \in Int
    <3>1. Bytes(a) \in [0 .. Len(a) -> Int] /\ pos \in 0 .. Len(a) /\ expanded = Bytes(a)[pos]
      BY BytesOf DEF Snapshot
    <3>2. Declared(a, i) \in Int
      BY <1>1, DeclaredType
    <3> QED BY <1>2, <3>1, <3>2
  <2> HIDE DEF i
  <2>2. ~(count + 1 > MaxFiles) /\ ~(EntrySize(a[i]) > MaxFile) /\ ~(expanded + EntrySize(a[i]) > MaxExpanded)
    BY DEF OverLimit, i
  <2> QED BY <1>1, <2>1, <2>2, LimitsAreNat DEF Charge, Snapshot, i
<1>7. CASE TakeMetadata(a[i])
  <2>1. a[i].type \in Metadata /\ files' = files
    BY <1>7 DEF TakeMetadata
  <2>2. Members(a)[i] = files
    BY <1>4, <2>1 DEF WithMember, Metadata
  <2>3. pending' = PendingAt(a, i + 1)
    <3>1. CASE a[i].type = "L"
      <4>1. LongAt(a, i) = None
        BY <1>5, <3>1 DEF Malformed, PendingAt
      <4>2. pending' = [pending EXCEPT !.long_name = a[i].long]
        BY <1>7, <3>1 DEF TakeMetadata
      <4> QED BY <1>1, <1>5, <3>1, <4>1, <4>2, PendingLong
    <3>2. CASE a[i].type = "x"
      <4>1. Headers(a, i, "x") = {} /\ apply_pax_records(a[i].records).ok
        BY <1>5, <3>2 DEF Malformed, PendingAt, Seen
      <4>2. pending' = [long_name |-> pending.long_name, pax_seen |-> TRUE,
                        pax_path |-> apply_pax_records(a[i].records).pax_path,
                        pax_size |-> apply_pax_records(a[i].records).pax_size]
        BY <1>7, <3>2, Zenon DEF TakeMetadata
      <4>3. pending.long_name = LongAt(a, i)
        BY <1>5 DEF PendingAt
      <4> QED BY <1>1, <3>2, <4>1, <4>2, <4>3, PendingPax, Zenon
    <3>3. CASE a[i].type \notin {"L", "x"}
      <4>1. pending' = pending
        BY <1>7, <3>3 DEF TakeMetadata
      <4> QED BY <1>1, <1>5, <2>1, <3>3, <4>1, PendingOther
    <3> QED BY <3>1, <3>2, <3>3
  <2>4. Within'
    BY <1>6, <2>1 DEF Within
  <2> QED BY <1>1, <1>3, <2>1, <2>2, <2>3, <2>4
<1>8. CASE TakeMember(a[i])
  <2>1. a[i].type \notin Metadata /\ pending' = PendingAt(a, i + 1)
    BY <1>1, <1>8, PendingTaken DEF TakeMember
  <2>2. CASE a[i].type = "regular"
    <3>1. EntrySize(a[i]) = a[i].size
      BY <2>2 DEF Malformed
    <3>2. files' = Append(files, Member(a, i))
      <4>1. NameOf(a[i], pending) = TrueName(a, i)
        BY <1>1, <1>5, NameIsTrue
      <4> QED BY <1>8, <2>2, <3>1, <4>1 DEF TakeMember, Member
    <3>3. Members(a)[i] = files'
      BY <1>4, <2>2, <3>2 DEF WithMember
    <3>4. \A k \in DOMAIN files' : files'[k].size <= MaxFile
      <4>1. Member(a, i) \in Files /\ Member(a, i).size = a[i].size
        BY <1>1, MemberType DEF Member
      <4> QED BY <1>4, <1>6, <3>1, <3>2, <4>1 DEF Within
    <3> QED BY <1>1, <1>3, <1>6, <2>1, <3>3, <3>4 DEF Within
  <2>3. CASE a[i].type # "regular"
    <3>1. files' = files
      BY <1>8, <2>3 DEF TakeMember
    <3>2. Members(a)[i] = files
      BY <1>4, <2>3 DEF WithMember
    <3> QED BY <1>1, <1>3, <1>6, <2>1, <3>1, <3>2 DEF Within
  <2> QED BY <2>2, <2>3
<1> QED BY <1>7, <1>8

-----------------------------------------------------------------------------
(* What is packed is an archive.                                             *)

LEMMA FileType ==
    ASSUME NEW fs \in Seq(Files), NEW i \in DOMAIN fs
    PROVE  /\ fs[i] \in Files
           /\ fs[i].name \in Names /\ fs[i].size \in Nat /\ fs[i].content \in Contents
           /\ fs[i].content.deps \in Seq(STRING)
<1>1. fs[i] \in Files
  OBVIOUS
<1>2. fs[i].name \in Names /\ fs[i].size \in Nat /\ fs[i].content \in Contents
  BY <1>1 DEF Files
<1> QED BY <1>1, <1>2 DEF Contents

LEMMA WithDepsType ==
    ASSUME NEW f \in Files, NEW size \in Nat
    PROVE  WithDeps(f, size) \in Files
<1>1. f.name \in Names /\ f.content \in Contents
  BY DEF Files
<1>2. f.content.deps \in Seq(STRING) /\ f.content.yaml \in {"mapping", "scalar", "none"}
  BY <1>1 DEF Contents
<1>3. RewrittenDeps(f.content.deps) \in Seq(STRING)
  <2> DEFINE deps == f.content.deps
  <2>1. ASSUME NEW i \in 1 .. Len(deps) PROVE Rewritten(deps[i]) \in STRING
    BY <1>2, EntriesAssumption DEF Rewritten
  <2>2. Len(deps) \in Nat /\ DOMAIN deps = 1 .. Len(deps)
    BY <1>2
  <2> HIDE DEF deps
  <2>3. [i \in 1 .. Len(deps) |-> Rewritten(deps[i])] \in [1 .. Len(deps) -> STRING]
    BY <2>1
  <2>4. [i \in 1 .. Len(deps) |-> Rewritten(deps[i])] \in Seq(STRING)
    BY <2>2, <2>3
  <2> QED BY <2>2, <2>4 DEF RewrittenDeps, deps
<1>4. [yaml |-> f.content.yaml, deps |-> RewrittenDeps(f.content.deps)] \in Contents
  BY <1>2, <1>3 DEF Contents
<1> QED BY <1>1, <1>4 DEF WithDeps, Files

LEMMA RewriteFilesType ==
    ASSUME NEW fs \in Seq(Files), NEW size \in Nat, NEW lockSize \in Nat
    PROVE  /\ RewriteFiles(fs, size, lockSize) \in Seq(Files)
           /\ Len(RewriteFiles(fs, size, lockSize)) = Len(fs)
<1> DEFINE R(i) == IF i = Root(fs, "Chart.yaml") THEN WithDeps(fs[i], size)
                   ELSE IF i = Root(fs, "Chart.lock") /\ Rewritable(fs[i]) THEN WithDeps(fs[i], lockSize)
                   ELSE fs[i]
<1>1. DOMAIN fs = 1 .. Len(fs) /\ Len(fs) \in Nat
  OBVIOUS
<1>2. ASSUME NEW i \in 1 .. Len(fs) PROVE R(i) \in Files
  BY <1>1, FileType, WithDepsType
<1>3. RewriteFiles(fs, size, lockSize) = [i \in 1 .. Len(fs) |-> R(i)]
  BY <1>1 DEF RewriteFiles
<1> HIDE DEF R
<1>4. [i \in 1 .. Len(fs) |-> R(i)] \in [1 .. Len(fs) -> Files]
  BY <1>2
<1> QED BY <1>1, <1>3, <1>4

LEMMA FileEntriesType ==
    ASSUME NEW f \in Files
    PROVE  /\ FileEntries(f) \in Seq(TarEntries)
           /\ \A i \in DOMAIN FileEntries(f) : FileEntries(f)[i] \in TarEntries
<1>1. f.name \in Names /\ f.size \in Nat /\ f.content \in Contents
  BY DEF Files
<1>2. <<>> \in Names /\ <<>> \in Seq(PaxRecords) /\ <<>> \in Seq(STRING)
  BY DEF Names
<1>3. ASSUME NEW name \in Names PROVE RegularEntry(f, name) \in TarEntries
  BY <1>1, <1>2 DEF RegularEntry, TarEntries
<1>4. LongNameEntry(f) \in TarEntries
  <2>1. [yaml |-> "none", deps |-> <<>>] \in Contents
    BY <1>2 DEF Contents
  <2> QED BY <1>1, <1>2, <2>1 DEF LongNameEntry, TarEntries, Metadata
<1>5. CASE f.name \in LongNames
  <2>1. f.name # <<>> /\ f.name \in Seq(STRING)
    BY <1>5, EntriesAssumption DEF Names
  <2>2. <<Head(f.name)>> \in Names
    BY <2>1 DEF Names
  <2> QED BY <1>3, <1>4, <1>5, <2>2 DEF FileEntries
<1>6. CASE f.name \notin LongNames
  BY <1>1, <1>3, <1>6 DEF FileEntries
<1> QED BY <1>5, <1>6

LEMMA PackedOf ==
    ASSUME NEW fs \in Seq(Files)
    PROVE  /\ Packed(fs) \in [0 .. Len(fs) -> Seq(TarEntries)]
           /\ Packed(fs)[0] = <<>>
           /\ \A i \in 1 .. Len(fs) : Packed(fs)[i] = Packed(fs)[i - 1] \o FileEntries(fs[i])
<1>1. Len(fs) \in Nat /\ \A i \in 1 .. Len(fs) : FileEntries(fs[i]) \in Seq(TarEntries)
  BY FileEntriesType
<1> QED BY <1>1, PackedUnfold

LEMMA PackType == ASSUME NEW fs \in Seq(Files) PROVE pack_tgz(fs) \in Seq(TarEntries)
<1>1. Len(fs) \in 0 .. Len(fs)
  OBVIOUS
<1> QED BY <1>1, PackedOf DEF pack_tgz

-----------------------------------------------------------------------------
(* Every step keeps ReadInv.                                                 *)

LEMMA ArchiveType == ASSUME Shape, Snapshot(archive) PROVE files \in Seq(Files)
<1>1. Members(archive) \in [0 .. Len(archive) -> Seq(Files)]
  BY MembersOf DEF Shape
<1> QED BY <1>1 DEF Shape, Snapshot

\* A step that only ends the build.
LEMMA FailKeeps ==
    ASSUME ReadInv, NEW how, how # "too_large", Fail(how), UNCHANGED archive
    PROVE  ReadInv'
<1> USE DEF ReadInv, Fail, reader
<1>1. Shape' /\ Within'
  BY DEF Shape, Within
<1>2. Snapshot(archive)'
  BY DEF Snapshot
<1>3. Position' /\ Refusal'
  BY DEF Position, Unpacking, Refusal
<1> QED BY <1>1, <1>2, <1>3

\* The entry after pos of an archive whose first pos entries have been read.
LEMMA ReadKeeps ==
    ASSUME NEW a \in Seq(TarEntries), pos \in 0 .. Len(a) - 1, Snapshot(a), Within,
           Unpacking, result = "none", ~closed => pos + 1 = Len(a), Read(a[pos + 1]), archive' = a
    PROVE  ReadInv'
<1> DEFINE e == a[pos + 1]
<1>1. CASE OverLimit(e) /\ Fail("too_large")
  <2>1. Shape' /\ Within'
    BY <1>1 DEF Shape, Within, Fail, reader
  <2>2. Snapshot(archive)'
    BY <1>1 DEF Snapshot, Fail, reader
  <2>3. Position'
    BY <1>1 DEF Position, Unpacking, Fail
  <2>4. Beyond(a, pos + 1)
    <3>1. pos + 1 \in 1 .. Len(a) /\ (pos + 1) - 1 = pos
      OBVIOUS
    <3>2. Bytes(a)[pos + 1] = expanded + EntrySize(e) /\ EntrySize(e) = Declared(a, pos + 1) /\ count = pos
      BY <3>1, SizeIsDeclared, BytesOf DEF Snapshot
    <3> QED BY <1>1, <3>2 DEF OverLimit, Beyond
  <2>5. Refusal'
    <3>1. pos' = pos /\ pos < Len(a) /\ pc' = "done"
      BY <1>1 DEF Fail, reader
    <3>2. Beyond(archive, pos + 1)'
      BY <2>4, <3>1 DEF Beyond
    <3> QED BY <3>1, <3>2 DEF Refusal
  <2> QED BY <2>1, <2>2, <2>3, <2>5 DEF ReadInv
<1>2. CASE Fail("invalid")
  <2>1. Shape' /\ Within'
    BY <1>2 DEF Shape, Within, Fail, reader
  <2>2. Snapshot(archive)'
    BY <1>2 DEF Snapshot, Fail, reader
  <2>3. Position' /\ Refusal'
    BY <1>2 DEF Position, Unpacking, Refusal, Fail
  <2> QED BY <2>1, <2>2, <2>3 DEF ReadInv
<1>3. CASE /\ ~OverLimit(e) /\ ~Malformed(e)
           /\ Charge(e)
           /\ TakeMetadata(e) \/ TakeMember(e)
           /\ UNCHANGED <<proxy_host, closed, pc, original, modified, result, config>>
  <2>1. /\ pos' = pos + 1 /\ pos' \in 0 .. Len(a) /\ count' = pos'
        /\ expanded' = Bytes(a)[pos']
        /\ pending' = PendingAt(a, pos' + 1)
        /\ files' = Members(a)[pos']
        /\ Within'
    BY <1>3, ReadStep
  <2>2. Snapshot(archive)'
    BY <2>1 DEF Snapshot
  <2>3. Shape' /\ Position' /\ Refusal'
    BY <1>3, <2>1 DEF Shape, Position, Unpacking, Refusal
  <2> QED BY <2>1, <2>2, <2>3 DEF ReadInv
<1> QED BY <1>1, <1>2, <1>3 DEF Read

LEMMA ReadNewInv == ASSUME ReadInv, ReadNew PROVE ReadInv'
<1>1. PICK e \in Entries : archive' = Append(archive, e) /\ Read(e)
  BY DEF ReadNew
<1>2. e \in TarEntries
  BY EntriesAssumption
<1> DEFINE a == archive'
<1>3. pos = Len(archive) /\ Unpacking /\ result = "none" /\ ~closed
  BY DEF ReadInv, ReadNew, Position, Refusal, Unpacking
<1>4. /\ a \in Seq(TarEntries) /\ Len(a) = Len(archive) + 1 /\ a[Len(a)] = e /\ Snapshot(a)
  BY <1>1, <1>2, Extended DEF ReadInv
<1>5. pos + 1 = Len(a) /\ pos \in 0 .. Len(a) - 1
  BY <1>3, <1>4 DEF ReadInv, Shape
<1>6. Read(a[pos + 1])
  BY <1>1, <1>4, <1>5
<1>7. Within
  BY DEF ReadInv
<1> QED BY <1>3, <1>4, <1>5, <1>6, <1>7, ReadKeeps

LEMMA ReadAgainInv == ASSUME ReadInv, ReadAgain PROVE ReadInv'
<1>1. /\ archive \in Seq(TarEntries) /\ pos \in 0 .. Len(archive) - 1 /\ Snapshot(archive) /\ Within
      /\ Unpacking /\ result = "none" /\ closed /\ Read(archive[pos + 1]) /\ archive' = archive
  BY DEF ReadInv, ReadAgain, Shape, Refusal, Unpacking
<1> QED BY <1>1, ReadKeeps

LEMMA EndOfArchiveInv == ASSUME ReadInv, EndOfArchive PROVE ReadInv'
<1>1. CASE Fail("invalid")
  BY <1>1, FailKeeps DEF EndOfArchive
<1>2. CASE ~Fail("invalid")
  <2>1. /\ pos = Len(archive) /\ pc' \in {"rewrite", "config"} /\ pc # "done" /\ closed'
        /\ UNCHANGED <<archive, reader, result>>
    BY <1>2 DEF EndOfArchive, Unpacking
  <2>2. Shape' /\ Within'
    BY <2>1 DEF ReadInv, Shape, Within, reader
  <2>3. Snapshot(archive)'
    BY <2>1 DEF ReadInv, Snapshot, reader
  <2>4. Position' /\ Refusal'
    BY <2>1 DEF ReadInv, Position, Refusal, Unpacking, reader
  <2> QED BY <2>2, <2>3, <2>4 DEF ReadInv
<1> QED BY <1>1, <1>2

\* The beginning of an archive.
LEMMA SnapshotAtStart ==
    ASSUME NEW a \in Seq(TarEntries)
    PROVE  Bytes(a)[0] = 0 /\ PendingAt(a, 1) = NoPending /\ Members(a)[0] = <<>>
<1>1. \A type : Headers(a, 1, type) = {}
  BY DEF Headers, Described
<1>2. PendingAt(a, 1) = NoPending
  BY <1>1 DEF PendingAt, LongAt, Seen, PaxValue, NoPending
<1> QED BY <1>2, BytesOf, MembersOf

LEMMA RewindKeeps ==
    ASSUME NEW a \in Seq(TarEntries), archive' = a, Rewind, closed, result = "none"
    PROVE  ReadInv'
<1>1. /\ pos' = 0 /\ count' = 0 /\ expanded' = 0 /\ pending' = NoPending /\ files' = <<>>
      /\ pc' = "configuring" /\ closed' = closed /\ result' = "none"
  BY DEF Rewind
<1>2. Snapshot(archive)'
  <2>1. pending' = PendingAt(a, 0 + 1)
    BY <1>1, SnapshotAtStart
  <2> QED BY <1>1, <2>1, SnapshotAtStart DEF Snapshot
<1>3. Shape' /\ Within'
  BY <1>1, LimitsAreNat DEF Shape, Within
<1>4. Position' /\ Refusal'
  BY <1>1 DEF Position, Refusal, Unpacking
<1> QED BY <1>2, <1>3, <1>4 DEF ReadInv

LEMMA UnmodifiedInv == ASSUME ReadInv, Unmodified PROVE ReadInv'
<1>1. archive \in Seq(TarEntries) /\ archive' = archive /\ Rewind /\ closed /\ result = "none"
  BY DEF ReadInv, Shape, Position, Refusal, Unmodified
<1> QED BY <1>1, RewindKeeps

LEMMA PackedAgain ==
    ASSUME ReadInv, RewriteAndPack, ~Fail("invalid")
    PROVE  /\ Rewind /\ closed /\ result = "none" /\ modified'
           /\ \E size, lockSize \in Encodings : archive' = pack_tgz(RewriteFiles(files, size, lockSize))
           /\ archive' \in Seq(TarEntries)
<1>1. Rewind /\ closed /\ result = "none" /\ modified'
  BY DEF ReadInv, Position, Refusal, RewriteAndPack
<1>2. PICK size \in Encodings, lockSize \in Encodings :
          archive' = pack_tgz(RewriteFiles(files, size, lockSize))
  BY DEF RewriteAndPack
<1>3. files \in Seq(Files) /\ size \in Nat /\ lockSize \in Nat
  BY ArchiveType, EntriesAssumption DEF ReadInv
<1>4. archive' \in Seq(TarEntries)
  BY <1>2, <1>3, RewriteFilesType, PackType
<1> QED BY <1>1, <1>2, <1>4

LEMMA RewriteAndPackInv == ASSUME ReadInv, RewriteAndPack PROVE ReadInv'
<1>1. CASE Fail("invalid")
  <2>1. archive' = archive
    BY <1>1 DEF RewriteAndPack, Fail, Rewind
  <2> QED BY <1>1, <2>1, FailKeeps
<1>2. CASE ~Fail("invalid")
  BY <1>2, PackedAgain, RewindKeeps
<1> QED BY <1>1, <1>2

LEMMA ConfigureInv == ASSUME ReadInv, Configure PROVE ReadInv'
<1>1. CASE Fail("invalid")
  BY <1>1, FailKeeps DEF Configure
<1>2. CASE ~Fail("invalid")
  <2>1. pc' = "done" /\ result' = "built" /\ UNCHANGED <<archive, closed, reader>>
    BY <1>2 DEF Configure
  <2>2. Shape' /\ Within'
    BY <2>1 DEF ReadInv, Shape, Within, reader
  <2>3. Snapshot(archive)'
    BY <2>1 DEF ReadInv, Snapshot, reader
  <2>4. Position' /\ Refusal'
    BY <2>1 DEF Position, Refusal, Unpacking
  <2> QED BY <2>2, <2>3, <2>4 DEF ReadInv
<1> QED BY <1>1, <1>2

LEMMA StutterInv == ASSUME ReadInv, UNCHANGED vars PROVE ReadInv'
<1> USE DEF ReadInv, vars, reader
<1>1. Shape' /\ Within' /\ Position'
  BY DEF Shape, Within, Position, Unpacking
<1>2. Snapshot(archive)'
  BY DEF Snapshot
<1>3. Refusal'
  BY DEF Refusal, Beyond
<1> QED BY <1>1, <1>2, <1>3

LEMMA InitRead == Init => ReadInv
<1> SUFFICES ASSUME Init PROVE ReadInv
  OBVIOUS
<1>1. archive = <<>> /\ archive \in Seq(TarEntries) /\ Len(archive) = 0
  BY DEF Init
<1>2. Snapshot(archive)
  <2>1. Bytes(archive)[0] = 0 /\ PendingAt(archive, 1) = NoPending /\ Members(archive)[0] = <<>>
    <3>1. archive \in Seq(TarEntries)
      BY <1>1
    <3> QED BY <3>1, SnapshotAtStart
  <2>2. pos = 0 /\ count = 0 /\ expanded = 0 /\ pending = NoPending /\ files = <<>> /\ pos + 1 = 1
    BY DEF Init
  <2> QED BY <2>1, <2>2, Zenon DEF Snapshot
<1>3. Shape /\ Within
  BY <1>1, LimitsAreNat DEF Init, Shape, Within
<1>4. Position /\ Refusal
  BY <1>1 DEF Init, Position, Refusal, Unpacking
<1> QED BY <1>2, <1>3, <1>4 DEF ReadInv

LEMMA NextRead == ReadInv /\ [Next]_vars => ReadInv'
<1> SUFFICES ASSUME ReadInv, [Next]_vars PROVE ReadInv'
  OBVIOUS
<1>1. CASE ReadNew       BY <1>1, ReadNewInv
<1>2. CASE ReadAgain     BY <1>2, ReadAgainInv
<1>3. CASE ReadFails
  <2>1. Fail("invalid") /\ UNCHANGED archive
    BY <1>3 DEF ReadFails
  <2> QED BY <2>1, FailKeeps
<1>4. CASE EndOfArchive  BY <1>4, EndOfArchiveInv
<1>5. CASE Unmodified    BY <1>5, UnmodifiedInv
<1>6. CASE RewriteAndPack BY <1>6, RewriteAndPackInv
<1>7. CASE Configure     BY <1>7, ConfigureInv
<1>8. CASE Done \/ UNCHANGED vars
  BY <1>8, StutterInv DEF Done
<1> QED BY <1>1, <1>2, <1>3, <1>4, <1>5, <1>6, <1>7, <1>8 DEF Next

LEMMA ReadInvariance == Spec => []ReadInv
BY InitRead, NextRead, PTL DEF Spec

-----------------------------------------------------------------------------
\* unpack_tgz_with_limits: of every archive, however long and with whatever
\* metadata, the files are the regular members under their true names.
THEOREM NamesAreResolved == Spec => []NamesResolved
<1>1. ReadInv => NamesResolved
  BY DEF ReadInv, Position, Snapshot, NamesResolved
<1> QED BY <1>1, ReadInvariance, PTL

\* ArchiveLimits: the limits hold at every moment for every archive and every
\* value of the limits, and only what goes beyond one is too large.
THEOREM LimitsAreExact == Spec => []LimitsExact
<1>1. ReadInv => LimitsExact
  BY DEF ReadInv, Snapshot, Within, Refusal, Beyond, LimitsExact
<1> QED BY <1>1, ReadInvariance, PTL

-----------------------------------------------------------------------------
(* Unpacking what was packed gives the files back.                           *)

\* No metadata waits at the end of a.
Settled(a) == \A type : Headers(a, Len(a) + 1, type) = {}

\* A regular entry after whose metadata the member is f.
LEMMA PackOne ==
    ASSUME NEW a \in Seq(TarEntries), NEW b \in Seq(TarEntries), Begins(a, b),
           NEW f \in Files, NEW i \in 1 .. Len(b), i = Len(b),
           Members(b)[i - 1] = Members(a)[Len(a)],
           b[i].type = "regular", b[i].content = f.content, b[i].size = f.size,
           TrueName(b, i) = f.name
    PROVE  Members(b)[Len(b)] = Append(Members(a)[Len(a)], f) /\ Settled(b)
<1>1. Member(b, i) = f
  BY DEF Member, Files
<1>2. Members(b)[i] = WithMember(Members(b)[i - 1], b, i)
  BY MembersOf
<1>3. Members(b)[Len(b)] = Append(Members(a)[Len(a)], f)
  BY <1>1, <1>2 DEF WithMember
<1>4. Settled(b)
  BY HeadersStep DEF Settled, Metadata
<1> QED BY <1>3, <1>4

LEMMA PackStep ==
    ASSUME NEW a \in Seq(TarEntries), Settled(a), NEW f \in Files
    PROVE  LET b == a \o FileEntries(f)
           IN  /\ b \in Seq(TarEntries) /\ Settled(b)
               /\ Members(b)[Len(b)] = Append(Members(a)[Len(a)], f)
<1> DEFINE b == a \o FileEntries(f)
           m == Len(a)
<1>1. b \in Seq(TarEntries) /\ m \in Nat
  BY FileEntriesType
<1>2. CASE f.name \notin LongNames
  <2>1. FileEntries(f) = <<RegularEntry(f, f.name)>>
    BY <1>2 DEF FileEntries
  <2>2. Len(b) = m + 1 /\ b[m + 1] = RegularEntry(f, f.name) /\ \A i \in 1 .. m : b[i] = a[i]
    BY <2>1
  <2> HIDE DEF b
  <2>3. Begins(a, b)
    BY <1>1, <2>2 DEF Begins
  <2>4. /\ b[m + 1].type = "regular" /\ b[m + 1].content = f.content /\ b[m + 1].size = f.size
        /\ b[m + 1].name = f.name
    BY <2>2 DEF RegularEntry
  <2>5. m + 1 \in 1 .. Len(b) /\ (m + 1) - 1 = m /\ m + 1 \in 1 .. Len(a) + 1 /\ m \in 0 .. Len(a)
    BY <1>1, <2>2
  <2>6. \A type : Headers(b, m + 1, type) = {}
    BY <2>3, <2>5, HeadersPrefix DEF Settled
  <2>7. TrueName(b, m + 1) = f.name
    BY <2>4, <2>6 DEF TrueName, PaxValue
  <2>8. Members(b)[m] = Members(a)[m]
    BY <2>3, <2>5, MembersPrefix
  <2>9. Members(b)[Len(b)] = Append(Members(a)[Len(a)], f) /\ Settled(b)
    BY <1>1, <2>2, <2>3, <2>4, <2>5, <2>7, <2>8, PackOne
  <2> QED BY <1>1, <2>9 DEF b
<1>3. CASE f.name \in LongNames
  <2> DEFINE L == LongNameEntry(f)
             R == RegularEntry(f, <<Head(f.name)>>)
  <2>1. FileEntries(f) = <<L, R>>
    BY <1>3 DEF FileEntries
  <2> HIDE DEF L, R
  <2>2. Len(b) = m + 2 /\ b[m + 1] = L /\ b[m + 2] = R /\ \A i \in 1 .. m : b[i] = a[i]
    BY <2>1
  <2> HIDE DEF b
  <2>3. Begins(a, b)
    BY <1>1, <2>2 DEF Begins
  <2>4. /\ b[m + 2].type = "regular" /\ b[m + 2].content = f.content /\ b[m + 2].size = f.size
        /\ b[m + 1].type = "L" /\ b[m + 1].long = f.name
    BY <2>2 DEF RegularEntry, LongNameEntry, L, R
  <2>5. /\ m + 1 \in 1 .. Len(b) /\ (m + 1) - 1 = m /\ m + 1 \in 1 .. Len(a) + 1 /\ m \in 0 .. Len(a)
        /\ m + 2 \in 1 .. Len(b) /\ (m + 2) - 1 = m + 1 /\ (m + 1) + 1 = m + 2
    BY <1>1, <2>2
  <2>6. \A type : Headers(b, m + 1, type) = {}
    BY <2>3, <2>5, HeadersPrefix DEF Settled
  <2>7. Headers(b, m + 2, "L") = {m + 1} /\ Headers(b, m + 2, "x") = {}
    <3>1. \A type : Headers(b, (m + 1) + 1, type) =
             IF b[m + 1].type \notin Metadata THEN {}
             ELSE IF b[m + 1].type = type THEN Headers(b, m + 1, type) \cup {m + 1} ELSE Headers(b, m + 1, type)
      BY <1>1, <2>5, HeadersStep
    <3> QED BY <2>4, <2>5, <2>6, <3>1 DEF Metadata
  <2>8. TrueName(b, m + 2) = f.name
    <3>1. AnyOf(Headers(b, m + 2, "L")) = m + 1
      BY <2>7, AnyOfMember
    <3> QED BY <2>4, <2>7, <3>1 DEF TrueName, PaxValue
  <2>9. Members(b)[m + 1] = Members(a)[m]
    <3>1. Members(b)[m] = Members(a)[m]
      BY <2>3, <2>5, MembersPrefix
    <3>2. Members(b)[m + 1] = WithMember(Members(b)[m], b, m + 1)
      BY <1>1, <2>5, MembersOf
    <3> QED BY <2>4, <3>1, <3>2 DEF WithMember
  <2>10. Members(b)[Len(b)] = Append(Members(a)[Len(a)], f) /\ Settled(b)
    BY <1>1, <2>2, <2>3, <2>4, <2>5, <2>8, <2>9, PackOne
  <2> QED BY <1>1, <2>10 DEF b
<1> QED BY <1>2, <1>3

LEMMA PackUnpack ==
    ASSUME NEW fs \in Seq(Files)
    PROVE  Members(pack_tgz(fs))[Len(pack_tgz(fs))] = fs
<1> DEFINE N == Len(fs)
           P(n) == Packed(fs)[n]
           S == {n \in 0 .. N : Settled(P(n)) /\ Members(P(n))[Len(P(n))] = SubSeq(fs, 1, n)}
<1>1. N \in Nat /\ \A n \in 0 .. N : P(n) \in Seq(TarEntries)
  <2>1. Packed(fs) \in [0 .. N -> Seq(TarEntries)]
    BY PackedOf
  <2> QED BY <2>1
<1>2. 0 \in S
  <2>1. P(0) = <<>> /\ P(0) \in Seq(TarEntries) /\ Len(P(0)) = 0
    <3>1. Packed(fs)[0] = <<>>
      BY PackedOf
    <3> QED BY <3>1
  <2>2. Settled(P(0))
    BY <2>1 DEF Settled, Headers, Described
  <2>3. Members(P(0))[0] = <<>>
    BY <2>1, MembersOf
  <2>4. SubSeq(fs, 1, 0) = <<>>
    OBVIOUS
  <2> QED BY <1>1, <2>1, <2>2, <2>3, <2>4
<1>3. ASSUME NEW n \in 0 .. N - 1, n \in S PROVE n + 1 \in S
  <2>1. n \in 0 .. N /\ n + 1 \in 0 .. N /\ n + 1 \in 1 .. N /\ (n + 1) - 1 = n
    BY <1>1
  <2>2. P(n + 1) = P(n) \o FileEntries(fs[n + 1])
    BY <2>1, PackedOf
  <2>3. P(n) \in Seq(TarEntries) /\ Settled(P(n)) /\ fs[n + 1] \in Files
    BY <1>1, <1>3, <2>1
  <2>4. /\ Settled(P(n + 1))
        /\ Members(P(n + 1))[Len(P(n + 1))] = Append(Members(P(n))[Len(P(n))], fs[n + 1])
    <3> HIDE DEF P
    <3> QED BY <2>2, <2>3, PackStep
  <2>5. Append(SubSeq(fs, 1, n), fs[n + 1]) = SubSeq(fs, 1, n + 1)
    BY <2>1
  <2> QED BY <1>3, <2>1, <2>4, <2>5
<1>4. 0 .. N \subseteq S
  <2> HIDE DEF S, N
  <2> QED BY <1>1, <1>2, <1>3, UpTo
<1>5. N \in S
  <2>1. N \in 0 .. N
    BY <1>1
  <2> HIDE DEF S
  <2> QED BY <1>4, <2>1
<1>6. SubSeq(fs, 1, N) = fs
  OBVIOUS
<1> QED BY <1>5, <1>6 DEF pack_tgz

-----------------------------------------------------------------------------
(* The layer.                                                                *)

RootFiles(fs, basename) == {i \in 1 .. Len(fs) : is_root_chart_file(fs[i].name, basename)}

LEMMA RootIs ==
    ASSUME NEW fs, NEW basename
    PROVE  Root(fs, basename) =
             IF RootFiles(fs, basename) # {} THEN Min(RootFiles(fs, basename)) ELSE 0
BY DEF Root, SelectInSeq, RootFiles

LEMMA RootIn ==
    ASSUME NEW fs \in Seq(Files), NEW basename, Root(fs, basename) # 0
    PROVE  Root(fs, basename) \in DOMAIN fs
<1> DEFINE S == RootFiles(fs, basename)
<1>1. S \in SUBSET Nat /\ S \subseteq DOMAIN fs
  BY DEF RootFiles
<1>2. S # {} /\ Root(fs, basename) = Min(S)
  BY RootIs
<1> HIDE DEF S
<1>3. \E x \in S : \A y \in S : x <= y
  BY <1>1, <1>2, NatLeast
<1>4. Min(S) \in S
  BY <1>3 DEF Min
<1> QED BY <1>1, <1>2, <1>4

\* Rewriting leaves names and places alone.
LEMMA RootSame ==
    ASSUME NEW fs \in Seq(Files), NEW size \in Nat, NEW lockSize \in Nat, NEW basename
    PROVE  Root(RewriteFiles(fs, size, lockSize), basename) = Root(fs, basename)
<1> DEFINE gs == RewriteFiles(fs, size, lockSize)
<1>1. Len(gs) = Len(fs) /\ DOMAIN fs = 1 .. Len(fs)
  BY RewriteFilesType
<1>2. ASSUME NEW i \in DOMAIN fs PROVE gs[i].name = fs[i].name
  BY DEF RewriteFiles, WithDeps
<1> HIDE DEF gs
<1>3. RootFiles(gs, basename) = RootFiles(fs, basename)
  BY <1>1, <1>2 DEF RootFiles
<1> QED BY <1>3, RootIs DEF gs

LayerInv ==
    /\ pc \in {"rewriting", "configuring", "rewrite", "config", "done"}
    /\ original \in Seq(Files)
    /\ modified => closed
    /\ pc \in {"rewriting", "rewrite"} => ~modified
    /\ pc = "rewriting" => ~closed
    /\ (closed /\ ~modified) => original = Members(archive)[Len(archive)]
    /\ modified => /\ Modifies(original)
                   /\ \E size, lockSize \in Encodings :
                          archive = pack_tgz(RewriteFiles(original, size, lockSize))
    /\ (proxy_host /\ (pc \in {"configuring", "config"} \/ result = "built"))
         => closed /\ (modified \/ ~Modifies(original))
    /\ result = "built" =>
         LET chart == Root(files, "Chart.yaml")
         IN  /\ pc = "done" /\ pos = Len(archive) /\ closed
             /\ chart # 0 /\ files[chart].content.yaml = "mapping"
             /\ config = files[chart].content.deps

LEMMA InitLayer == Init => LayerInv
<1> SUFFICES ASSUME Init PROVE LayerInv
  OBVIOUS
<1>1. <<>> \in Seq(Files)
  OBVIOUS
<1> QED BY <1>1 DEF Init, LayerInv

\* A step that reads on or ends the build without a layer.
LEMMA LayerKept ==
    ASSUME LayerInv, UNCHANGED <<proxy_host, closed, original, modified, config>>,
           closed => UNCHANGED archive,
           pc # "done", result = "none",
           \/ pc' = pc /\ result' = "none"
           \/ pc' = "done" /\ result' # "built"
    PROVE  LayerInv'
BY DEF LayerInv

LEMMA ReadLayer ==
    ASSUME LayerInv, ReadInv, Unpacking, NEW e, Read(e), closed => UNCHANGED archive
    PROVE  LayerInv'
<1>1. pc # "done" /\ result = "none"
  BY DEF Unpacking, ReadInv, Refusal
<1>2. CASE Fail("too_large")
  BY <1>1, <1>2, LayerKept DEF Fail
<1>3. CASE Fail("invalid")
  BY <1>1, <1>3, LayerKept DEF Fail
<1>4. CASE UNCHANGED <<proxy_host, closed, pc, original, modified, result, config>>
  BY <1>1, <1>4, LayerKept
<1> QED BY <1>2, <1>3, <1>4 DEF Read

LEMMA FailLayer ==
    ASSUME LayerInv, ReadInv, pc # "done", Fail("invalid"), UNCHANGED archive
    PROVE  LayerInv'
<1>1. result = "none"
  BY DEF ReadInv, Refusal
<1> QED BY <1>1, LayerKept DEF Fail

LEMMA EndOfArchiveLayer == ASSUME LayerInv, ReadInv, EndOfArchive PROVE LayerInv'
<1>1. pc # "done" /\ result = "none" /\ UNCHANGED archive /\ pos = Len(archive)
  BY DEF EndOfArchive, Unpacking, ReadInv, Refusal
<1>2. CASE Fail("invalid")
  BY <1>1, <1>2, FailLayer
<1>3. CASE ~Fail("invalid")
  <2>1. /\ closed' = TRUE /\ pc' = IF pc = "rewriting" THEN "rewrite" ELSE "config"
        /\ original' = IF ~closed THEN files ELSE original
        /\ UNCHANGED <<proxy_host, reader, modified, result, config>>
    BY <1>3 DEF EndOfArchive
  <2>2. files \in Seq(Files) /\ files = Members(archive)[Len(archive)]
    BY <1>1, ArchiveType DEF ReadInv, Snapshot
  <2>3. CASE ~closed
    <3>1. ~modified /\ original' = files /\ (pc = "configuring" => ~proxy_host)
      BY <2>1, <2>3 DEF LayerInv
    <3>2. pc \in {"rewriting", "configuring"}
      BY DEF EndOfArchive, Unpacking
    <3> QED BY <1>1, <2>1, <2>2, <3>1, <3>2 DEF LayerInv
  <2>4. CASE closed
    <3>1. pc = "configuring" /\ original' = original /\ pc' = "config"
      BY <2>1, <2>4 DEF LayerInv, EndOfArchive, Unpacking
    <3> QED BY <1>1, <2>1, <2>4, <3>1 DEF LayerInv
  <2> QED BY <2>3, <2>4
<1> QED BY <1>2, <1>3

LEMMA UnmodifiedLayer == ASSUME LayerInv, ReadInv, Unmodified PROVE LayerInv'
<1>1. /\ pc = "rewrite" /\ closed /\ result = "none" /\ ~modified /\ pos = Len(archive)
      /\ ~Modifies(files)
  BY DEF Unmodified, LayerInv, ReadInv, Position, Refusal
<1>2. files = original
  BY <1>1 DEF LayerInv, ReadInv, Snapshot
<1>3. /\ pc' = "configuring"
      /\ UNCHANGED <<proxy_host, closed, original, result, config, archive, modified>>
  BY DEF Unmodified, Rewind
<1> QED BY <1>1, <1>2, <1>3 DEF LayerInv

LEMMA RewriteAndPackLayer == ASSUME LayerInv, ReadInv, RewriteAndPack PROVE LayerInv'
<1>1. pc = "rewrite" /\ Modifies(files) /\ ~modified /\ closed /\ pos = Len(archive)
  BY DEF RewriteAndPack, LayerInv, ReadInv, Position
<1>2. files = original
  BY <1>1 DEF LayerInv, ReadInv, Snapshot
<1>3. CASE Fail("invalid")
  <2>1. archive' = archive
    BY <1>3 DEF RewriteAndPack, Fail, Rewind
  <2> QED BY <1>1, <1>3, <2>1, FailLayer
<1>4. CASE ~Fail("invalid")
  <2>1. /\ Rewind /\ result = "none" /\ modified'
        /\ \E size, lockSize \in Encodings : archive' = pack_tgz(RewriteFiles(files, size, lockSize))
    BY <1>4, PackedAgain
  <2>2. pc' = "configuring" /\ UNCHANGED <<proxy_host, closed, original, result, config>>
    BY <2>1 DEF Rewind
  <2>3. Modifies(original') /\ \E size, lockSize \in Encodings :
            archive' = pack_tgz(RewriteFiles(original', size, lockSize))
    BY <1>1, <1>2, <2>1, <2>2
  <2> QED BY <1>1, <2>1, <2>2, <2>3 DEF LayerInv
<1> QED BY <1>3, <1>4

LEMMA ConfigureLayer == ASSUME LayerInv, ReadInv, Configure PROVE LayerInv'
<1>1. pc = "config" /\ result = "none" /\ UNCHANGED archive /\ pos = Len(archive) /\ closed
  BY DEF Configure, ReadInv, Position, Refusal
<1>2. CASE Fail("invalid")
  BY <1>1, <1>2, FailLayer
<1>3. CASE ~Fail("invalid")
  <2>1. /\ Root(files, "Chart.yaml") # 0
        /\ files[Root(files, "Chart.yaml")].content.yaml = "mapping"
        /\ pc' = "done" /\ result' = "built"
        /\ config' = files[Root(files, "Chart.yaml")].content.deps
        /\ UNCHANGED <<proxy_host, closed, reader, original, modified>>
    BY <1>3 DEF Configure
  <2> QED BY <1>1, <2>1 DEF LayerInv, reader
<1> QED BY <1>2, <1>3

LEMMA NextLayer == LayerInv /\ ReadInv /\ [Next]_vars => LayerInv'
<1> SUFFICES ASSUME LayerInv, ReadInv, [Next]_vars PROVE LayerInv'
  OBVIOUS
<1>1. CASE ReadNew
  <2>1. ~closed /\ Unpacking /\ \E e : Read(e)
    BY <1>1 DEF ReadNew
  <2> QED BY <2>1, ReadLayer
<1>2. CASE ReadAgain
  <2>1. Unpacking /\ UNCHANGED archive /\ Read(archive[pos + 1])
    BY <1>2 DEF ReadAgain
  <2> QED BY <2>1, ReadLayer
<1>3. CASE ReadFails
  BY <1>3, FailLayer DEF ReadFails, Unpacking
<1>4. CASE EndOfArchive   BY <1>4, EndOfArchiveLayer
<1>5. CASE Unmodified     BY <1>5, UnmodifiedLayer
<1>6. CASE RewriteAndPack BY <1>6, RewriteAndPackLayer
<1>7. CASE Configure      BY <1>7, ConfigureLayer
<1>8. CASE Done \/ UNCHANGED vars
  BY <1>8 DEF Done, vars, reader, LayerInv
<1> QED BY <1>1, <1>2, <1>3, <1>4, <1>5, <1>6, <1>7, <1>8 DEF Next

LEMMA LayerInvariance == Spec => [](ReadInv /\ LayerInv)
BY InitLayer, NextLayer, ReadInvariance, PTL DEF Spec

\* A file without a URL to rewrite stays as it is.
LEMMA NothingToRewrite ==
    ASSUME NEW f \in Files, f.content.yaml = "mapping", ~Rewritable(f)
    PROVE  RewrittenDeps(f.content.deps) = f.content.deps
<1>1. f.content.deps \in Seq(STRING)
  BY DEF Files, Contents
<1>2. ASSUME NEW i \in DOMAIN f.content.deps PROVE Rewritten(f.content.deps[i]) = f.content.deps[i]
  BY <1>1 DEF Rewritten, Rewritable, ToSet
<1> QED BY <1>1, <1>2 DEF RewrittenDeps

LEMMA UnmodifiedBuilt ==
    ASSUME LayerInv, ReadInv, result = "built", proxy_host, ~modified
    PROVE  LayerIsRewritten
<1> DEFINE chart == Root(original, "Chart.yaml")
<1>1. files = original /\ original \in Seq(Files) /\ ~Modifies(original)
  BY DEF LayerInv, ReadInv, Snapshot
<1>2. /\ chart # 0 /\ original[chart].content.yaml = "mapping"
      /\ config = original[chart].content.deps
  BY <1>1 DEF LayerInv
<1>3. chart \in DOMAIN original /\ ~Rewritable(original[chart])
  BY <1>1, <1>2, RootIn DEF Modifies
<1>4. RewrittenDeps(original[chart].content.deps) = original[chart].content.deps
  BY <1>1, <1>2, <1>3, FileType, NothingToRewrite
<1> QED BY <1>1, <1>2, <1>3, <1>4 DEF LayerIsRewritten

LEMMA ModifiedBuilt ==
    ASSUME LayerInv, ReadInv, result = "built", proxy_host, modified
    PROVE  LayerIsRewritten
<1> DEFINE chart == Root(original, "Chart.yaml")
           lock == Root(original, "Chart.lock")
<1>1. PICK size \in Encodings, lockSize \in Encodings :
          archive = pack_tgz(RewriteFiles(original, size, lockSize))
  BY DEF LayerInv
<1>2. original \in Seq(Files) /\ size \in Nat /\ lockSize \in Nat /\ Modifies(original)
  BY EntriesAssumption DEF LayerInv
<1> DEFINE fs == RewriteFiles(original, size, lockSize)
<1>3. files = fs
  <2>1. fs \in Seq(Files)
    BY <1>2, RewriteFilesType
  <2>2. files = Members(archive)[Len(archive)]
    BY DEF LayerInv, ReadInv, Snapshot
  <2> HIDE DEF fs
  <2> QED BY <1>1, <2>1, <2>2, PackUnpack DEF fs
<1>4. Root(files, "Chart.yaml") = chart
  BY <1>2, <1>3, RootSame
<1>5. /\ chart # 0 /\ chart \in DOMAIN original /\ Rewritable(original[chart])
      /\ config = files[chart].content.deps
  BY <1>2, <1>4, RootIn DEF LayerInv, Modifies
<1>6. Len(files) = Len(original) /\ DOMAIN files = DOMAIN original
  BY <1>2, <1>3, RewriteFilesType DEF RewriteFiles
<1>7. ASSUME NEW i \in DOMAIN original
      PROVE  /\ files[i].name = original[i].name
             /\ files[i].content.yaml = original[i].content.yaml
             /\ files[i].content.deps =
                  IF i \in {chart, lock} /\ original[i].content.yaml = "mapping"
                  THEN RewrittenDeps(original[i].content.deps) ELSE original[i].content.deps
  <2>1. files[i] = IF i = chart THEN WithDeps(original[i], size)
                   ELSE IF i = lock /\ Rewritable(original[i]) THEN WithDeps(original[i], lockSize)
                   ELSE original[i]
    BY <1>3 DEF RewriteFiles
  <2>2. i = chart => original[i].content.yaml = "mapping"
    BY <1>5 DEF Rewritable
  <2>3. Rewritable(original[i]) => original[i].content.yaml = "mapping"
    BY DEF Rewritable
  <2>4. (original[i].content.yaml = "mapping" /\ ~Rewritable(original[i]))
          => RewrittenDeps(original[i].content.deps) = original[i].content.deps
    BY <1>2, FileType, NothingToRewrite
  <2> HIDE DEF chart, lock
  <2> QED BY <2>1, <2>2, <2>3, <2>4 DEF WithDeps
<1>8. config = RewrittenDeps(original[chart].content.deps)
  BY <1>5, <1>7 DEF Rewritable
<1> HIDE DEF fs
<1> QED BY <1>5, <1>6, <1>7, <1>8 DEF LayerIsRewritten

\* rewrite_chart_dependencies_with_limits and the build around it: for every
\* archive and every set of URLs to rewrite, the layer that is unpacked has the
\* files of the download, with the dependencies of the root files rewritten.
THEOREM LayersAreRewritten == Spec => []LayerIsRewritten
<1>1. ReadInv /\ LayerInv => LayerIsRewritten
  <2> SUFFICES ASSUME ReadInv, LayerInv PROVE LayerIsRewritten
    OBVIOUS
  <2>1. CASE result = "built" /\ proxy_host
    BY <2>1, UnmodifiedBuilt, ModifiedBuilt
  <2>2. CASE ~(result = "built" /\ proxy_host)
    BY <2>2 DEF LayerIsRewritten
  <2> QED BY <2>1, <2>2
<1> QED BY <1>1, LayerInvariance, PTL
=============================================================================
