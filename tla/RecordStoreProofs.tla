------------------------- MODULE RecordStoreProofs ---------------------------
(***************************************************************************)
(* Proofs about RecordStore, for any threads, keys, values, lists of       *)
(* fields and lengths of scans: what the rows and the composite keys of    *)
(* the engines hold, that records are delivered with all their fields, and *)
(* that every binding is an atomic store but for the steps that writes     *)
(* overtook; LMDB and the merging bindings are one without exception.      *)
(***************************************************************************)
EXTENDS RecordStore, SumProofs, SequenceTheorems

-----------------------------------------------------------------------------
(* Numbers and keys in order.                                              *)

\* A set of natural numbers has a least member.
LEMMA LeastNumber ==
  ASSUME NEW S \in SUBSET Nat, S # {}
  PROVE  \E n \in S : \A m \in S : n <= m
<1>1. PICK n \in S : TRUE
  OBVIOUS
<1> DEFINE D == {0 .. m : m \in S \cap (0 .. n)}
<1>2. IsFiniteSet(0 .. n)
  BY FS_Interval
<1>3. D \in SUBSET SUBSET (0 .. n) /\ (0 .. n) \in D
  OBVIOUS
<1>4. PICK s \in D : \A t \in D : t \subseteq s => t = s
  <2> DEFINE I == 0 .. n
  <2>1. IsFiniteSet(I) /\ D \in SUBSET SUBSET I /\ D # {}
    BY <1>2, <1>3
  <2> HIDE DEF D, I
  <2>2. QED
    BY <2>1, MinimalSubset
<1>5. PICK m \in S \cap (0 .. n) : s = 0 .. m
  OBVIOUS
<1>6. ASSUME NEW i \in S PROVE m <= i
  <2>1. SUFFICES ASSUME i < m PROVE FALSE
    BY <1>5
  <2>2. (0 .. i) \in D /\ (0 .. i) \subseteq s
    BY <1>5, <2>1
  <2>3. 0 .. i = s
    BY <1>4, <2>2
  <2>4. QED
    BY <1>5, <2>1, <2>3
<1>7. QED
  BY <1>5, <1>6

ByteStrings == Seq(Nat)

\* Less is a strict total order of the byte strings.
LEMMA LessIrreflexive ==
  ASSUME NEW a \in ByteStrings
  PROVE  ~ Less(a, a)
BY DEF Less, ByteStrings

LEMMA LessTransitive ==
  ASSUME NEW a \in ByteStrings, NEW b \in ByteStrings, NEW c \in ByteStrings,
         Less(a, b), Less(b, c)
  PROVE  Less(a, c)
<1>1. PICK i \in 1 .. Len(b) :
        /\ i > Len(a) \/ a[i] < b[i]
        /\ \A j \in 1 .. i - 1 : j <= Len(a) /\ a[j] = b[j]
  BY DEF Less
<1>2. PICK k \in 1 .. Len(c) :
        /\ k > Len(b) \/ b[k] < c[k]
        /\ \A j \in 1 .. k - 1 : j <= Len(b) /\ b[j] = c[j]
  BY DEF Less
<1>3. CASE i < k
  <2>1. i \in 1 .. Len(c) /\ b[i] = c[i]
    BY <1>2, <1>3 DEF ByteStrings
  <2>2. i > Len(a) \/ a[i] < c[i]
    BY <1>1, <2>1
  <2>3. \A j \in 1 .. i - 1 : j <= Len(a) /\ a[j] = c[j]
    BY <1>1, <1>2, <1>3
  <2>4. QED
    BY <2>1, <2>2, <2>3 DEF Less
<1>4. CASE i = k
  <2>1. i > Len(a) \/ a[i] < c[i]
    BY <1>1, <1>2, <1>4 DEF ByteStrings
  <2>2. \A j \in 1 .. i - 1 : j <= Len(a) /\ a[j] = c[j]
    BY <1>1, <1>2, <1>4
  <2>3. QED
    BY <1>2, <1>4, <2>1, <2>2 DEF Less
<1>5. CASE k < i
  <2>1. k <= Len(a) /\ a[k] = b[k] /\ b[k] < c[k]
    BY <1>1, <1>2, <1>5 DEF ByteStrings
  <2>2. \A j \in 1 .. k - 1 : j <= Len(a) /\ a[j] = c[j]
    BY <1>1, <1>2, <1>5
  <2>3. QED
    BY <1>2, <2>1, <2>2 DEF Less
<1>6. QED
  BY <1>3, <1>4, <1>5 DEF ByteStrings

LEMMA LessTotal ==
  ASSUME NEW a \in ByteStrings, NEW b \in ByteStrings, a # b
  PROVE  Less(a, b) \/ Less(b, a)
<1> DEFINE D == {i \in Nat \ {0} : i > Len(a) \/ i > Len(b) \/ a[i] # b[i]}
<1>1. Len(a) \in Nat /\ Len(b) \in Nat
  BY DEF ByteStrings
<1>2. Len(a) + 1 \in D
  BY <1>1
<1>3. PICK i \in D : \A j \in D : i <= j
  <2>1. D \in SUBSET Nat
    OBVIOUS
  <2> HIDE DEF D
  <2>2. QED
    BY <1>2, <2>1, LeastNumber
<1>4. \A j \in 1 .. i - 1 : j <= Len(a) /\ j <= Len(b) /\ a[j] = b[j]
  BY <1>1, <1>3
<1>5. CASE i > Len(a) /\ i > Len(b)
  <2>1. Len(a) = Len(b)
    <3>1. ~ (Len(a) < Len(b)) /\ ~ (Len(b) < Len(a))
      BY <1>1, <1>4, <1>5
    <3>2. QED
      BY <1>1, <3>1
  <2>2. \A j \in 1 .. Len(a) : a[j] = b[j]
    BY <1>1, <1>4, <1>5
  <2>3. QED
    BY <2>1, <2>2, SeqEqual DEF ByteStrings
<1>6. CASE i <= Len(b) /\ i > Len(a)
  BY <1>4, <1>6 DEF Less
<1>7. CASE i <= Len(a) /\ i > Len(b)
  BY <1>4, <1>7 DEF Less
<1>8. CASE i <= Len(a) /\ i <= Len(b)
  <2>1. a[i] < b[i] \/ b[i] < a[i]
    BY <1>8 DEF ByteStrings
  <2>2. QED
    BY <1>4, <1>8, <2>1 DEF Less
<1>9. QED
  BY <1>1, <1>5, <1>6, <1>7, <1>8

\* The members of S below a; their number is the place of a in Sorted(S).
Below(S, a) == {b \in S : Less(b, a)}
Rank(S, a) == Cardinality(Below(S, a))

LEMMA RankType ==
  ASSUME NEW S \in SUBSET ByteStrings, IsFiniteSet(S), NEW a \in S
  PROVE  /\ IsFiniteSet(Below(S, a))
         /\ Cardinality(S) \in Nat \ {0}
         /\ Rank(S, a) \in 0 .. Cardinality(S) - 1
<1>1. a \notin Below(S, a)
  BY LessIrreflexive DEF Below
<1>2. Below(S, a) \in SUBSET S
  BY DEF Below
<1>3. /\ IsFiniteSet(Below(S, a))
      /\ Rank(S, a) <= Cardinality(S)
      /\ Cardinality(S) = Rank(S, a) => S = Below(S, a)
  BY <1>2, FS_Subset DEF Rank
<1>4. Cardinality(S) \in Nat /\ Rank(S, a) \in Nat
  BY <1>3, FS_CardinalityType DEF Rank
<1>5. QED
  BY <1>1, <1>3, <1>4

LEMMA RankMonotone ==
  ASSUME NEW S \in SUBSET ByteStrings, IsFiniteSet(S),
         NEW a \in S, NEW b \in S, Less(a, b)
  PROVE  Rank(S, a) < Rank(S, b)
<1>1. Below(S, a) \in SUBSET Below(S, b)
  <2>1. ASSUME NEW c \in S, Less(c, a) PROVE Less(c, b)
    <3>1. c \in ByteStrings /\ a \in ByteStrings /\ b \in ByteStrings
      OBVIOUS
    <3>2. QED
      BY <2>1, <3>1, LessTransitive
  <2>2. QED
    BY <2>1 DEF Below
<1>2. a \in Below(S, b) /\ a \notin Below(S, a)
  BY LessIrreflexive DEF Below
<1>3. /\ IsFiniteSet(Below(S, b))
      /\ Rank(S, a) \in Nat /\ Rank(S, b) \in Nat
  BY RankType
<1>4. Rank(S, a) <= Rank(S, b) /\ Rank(S, a) # Rank(S, b)
  BY <1>1, <1>2, <1>3, FS_Subset DEF Rank
<1>5. QED
  BY <1>3, <1>4

LEMMA RankInjective ==
  ASSUME NEW S \in SUBSET ByteStrings, IsFiniteSet(S),
         NEW a \in S, NEW b \in S, Rank(S, a) = Rank(S, b)
  PROVE  a = b
<1>1. SUFFICES ASSUME a # b PROVE FALSE
  OBVIOUS
<1>2. a \in ByteStrings /\ b \in ByteStrings
  OBVIOUS
<1>3. Less(a, b) \/ Less(b, a)
  BY <1>1, <1>2, LessTotal
<1>4. Rank(S, a) < Rank(S, b) \/ Rank(S, b) < Rank(S, a)
  BY <1>3, RankMonotone
<1>5. Rank(S, a) \in Nat
  BY RankType
<1>6. QED
  BY <1>4, <1>5

\* Each place is somebody's.
LEMMA RankSurjective ==
  ASSUME NEW S \in SUBSET ByteStrings, IsFiniteSet(S),
         NEW i \in 0 .. Cardinality(S) - 1
  PROVE  \E a \in S : Rank(S, a) = i
<1> DEFINE n == Cardinality(S)
           T == 0 .. n - 1
           f == [a \in S |-> Rank(S, a)]
<1>1. n \in Nat
  BY FS_CardinalityType
<1>2. IsFiniteSet(T) /\ Cardinality(T) = n
  BY <1>1, FS_Interval
<1>3. f \in Injection(S, T)
  <2>1. f \in [S -> T]
    BY RankType
  <2>2. \A a, b \in S : f[a] = f[b] => a = b
    BY RankInjective
  <2>3. QED
    BY <2>1, <2>2 DEF Injection, IsInjective
<1> HIDE DEF f, T
<1>4. f \in Surjection(S, T)
  BY <1>2, <1>3, FS_Injection DEF n
<1>5. i \in T
  BY DEF T
<1>6. \E a \in S : f[a] = i
  BY <1>4, <1>5 DEF Surjection
<1>7. QED
  BY <1>6 DEF f

\* Sorted(S) lists the members of S in order, each of them once.
LEMMA SortedLists ==
  ASSUME NEW S \in SUBSET ByteStrings, IsFiniteSet(S)
  PROVE  /\ Cardinality(S) \in Nat
         /\ Sorted(S) \in [1 .. Cardinality(S) -> S]
         /\ Sorted(S) \in Seq(S)
         /\ Len(Sorted(S)) = Cardinality(S)
         /\ \A i \in 1 .. Cardinality(S) : Rank(S, Sorted(S)[i]) = i - 1
         /\ \A a \in S : \E i \in 1 .. Cardinality(S) : Sorted(S)[i] = a
<1> DEFINE n == Cardinality(S)
<1>1. n \in Nat
  BY FS_CardinalityType
<1>2. ASSUME NEW i \in 1 .. n
      PROVE  Sorted(S)[i] \in S /\ Rank(S, Sorted(S)[i]) = i - 1
  <2>1. \E a \in S : Rank(S, a) = i - 1
    <3>1. i - 1 \in 0 .. n - 1
      BY <1>1
    <3>2. QED
      BY <3>1, RankSurjective
  <2>2. Sorted(S)[i] = CHOOSE a \in S : Rank(S, a) = i - 1
    BY DEF Sorted, Rank, Below
  <2>3. QED
    BY <2>1, <2>2
<1>3. Sorted(S) \in [1 .. n -> S]
  BY <1>2 DEF Sorted
<1>4. ASSUME NEW a \in S PROVE \E i \in 1 .. n : Sorted(S)[i] = a
  <2>1. Rank(S, a) + 1 \in 1 .. n
    BY <1>1, RankType
  <2>2. Rank(S, Sorted(S)[Rank(S, a) + 1]) = Rank(S, a)
    BY <1>2, <2>1, RankType
  <2>3. QED
    BY <1>2, <2>1, <2>2, RankInjective
<1> HIDE DEF n
<1>5. Sorted(S) \in Seq(S) /\ Len(Sorted(S)) = n
  BY <1>1, <1>3
<1>6. QED
  BY <1>1, <1>2, <1>3, <1>4, <1>5 DEF n

LEMMA SortedIncreasing ==
  ASSUME NEW S \in SUBSET ByteStrings, IsFiniteSet(S),
         NEW i \in 1 .. Cardinality(S), NEW j \in 1 .. Cardinality(S), i < j
  PROVE  Less(Sorted(S)[i], Sorted(S)[j])
<1> DEFINE a == Sorted(S)[i]
           b == Sorted(S)[j]
<1>1. a \in S /\ b \in S /\ Rank(S, a) = i - 1 /\ Rank(S, b) = j - 1
  BY SortedLists
<1>2. Cardinality(S) \in Nat
  BY FS_CardinalityType
<1> HIDE DEF a, b
<1>3. a # b
  BY <1>1, <1>2
<1>4. ~ Less(b, a)
  <2>1. Less(b, a) => Rank(S, b) < Rank(S, a)
    BY <1>1, RankMonotone
  <2>2. QED
    BY <1>1, <1>2, <2>1
<1>5. a \in ByteStrings /\ b \in ByteStrings
  BY <1>1
<1>6. QED
  BY <1>3, <1>4, <1>5, LessTotal DEF a, b

\* There is only one such list.
LEMMA SortedUnique ==
  ASSUME NEW S \in SUBSET ByteStrings, NEW n \in Nat, NEW s \in [1 .. n -> S],
         \A i, j \in 1 .. n : i < j => Less(s[i], s[j]),
         \A a \in S : \E i \in 1 .. n : s[i] = a
  PROVE  IsFiniteSet(S) /\ Cardinality(S) = n /\ Sorted(S) = s
<1>1. \A i, j \in 1 .. n : Less(s[i], s[j]) => i < j
  <2> SUFFICES ASSUME NEW i \in 1 .. n, NEW j \in 1 .. n, Less(s[i], s[j]), ~ (i < j)
               PROVE  FALSE
    OBVIOUS
  <2>1. s[i] \in ByteStrings /\ s[j] \in ByteStrings
    OBVIOUS
  <2>2. i = j \/ Less(s[j], s[i])
    OBVIOUS
  <2>3. Less(s[i], s[i])
    BY <2>1, <2>2, LessTransitive
  <2>4. QED
    BY <2>1, <2>3, LessIrreflexive
<1>2. \A i, j \in 1 .. n : s[i] = s[j] => i = j
  <2> SUFFICES ASSUME NEW i \in 1 .. n, NEW j \in 1 .. n, s[i] = s[j], i < j
               PROVE  FALSE
    OBVIOUS
  <2>1. Less(s[i], s[i]) /\ s[i] \in ByteStrings
    OBVIOUS
  <2>2. QED
    BY <2>1, LessIrreflexive
<1>3. IsFiniteSet(S) /\ Cardinality(S) = n
  <2> DEFINE I == 1 .. n
  <2>1. IsFiniteSet(I) /\ Cardinality(I) = n
    BY FS_Interval
  <2>2. s \in Bijection(I, S)
    BY <1>2 DEF Bijection, Injection, IsInjective, Surjection
  <2> HIDE DEF I
  <2>3. ExistsBijection(I, S)
    BY <2>2 DEF ExistsBijection
  <2>4. QED
    BY <2>1, <2>3, FS_Bijection
<1>4. ASSUME NEW i \in 1 .. n PROVE Rank(S, s[i]) = i - 1
  <2> DEFINE I == 1 .. i - 1
             B == Below(S, s[i])
             f == [j \in I |-> s[j]]
  <2>1. IsFiniteSet(I) /\ Cardinality(I) = i - 1
    BY FS_Interval
  <2>2. \A j \in I : s[j] \in B
    BY DEF Below
  <2>3. \A b \in B : \E j \in I : s[j] = b
    BY <1>1 DEF Below
  <2>4. f \in Bijection(I, B)
    BY <1>2, <2>2, <2>3 DEF Bijection, Injection, IsInjective, Surjection
  <2> HIDE DEF I, B, f
  <2>5. ExistsBijection(I, B)
    BY <2>4 DEF ExistsBijection
  <2>6. Cardinality(B) = i - 1
    BY <2>1, <2>5, FS_Bijection
  <2>7. QED
    BY <2>6 DEF Rank, B
<1>5. ASSUME NEW i \in 1 .. n PROVE Sorted(S)[i] = s[i]
  <2>1. Sorted(S)[i] \in S /\ Rank(S, Sorted(S)[i]) = i - 1
    BY <1>3, SortedLists
  <2>2. QED
    BY <1>3, <1>4, <2>1, RankInjective
<1>6. Sorted(S) \in [1 .. n -> S]
  BY <1>3, SortedLists
<1>7. QED
  BY <1>3, <1>5, <1>6

\* What an iterator finds from k on.
LEMMA FromLists ==
  ASSUME NEW S \in SUBSET ByteStrings, IsFiniteSet(S), NEW k \in ByteStrings
  PROVE  /\ From(S, k) \in Seq(S)
         /\ \A i \in 1 .. Len(From(S, k)) : ~ Less(From(S, k)[i], k)
         /\ \A a \in S : ~ Less(a, k) => \E i \in 1 .. Len(From(S, k)) : From(S, k)[i] = a
         /\ \A i, j \in 1 .. Len(From(S, k)) :
              i < j => Less(From(S, k)[i], From(S, k)[j])
<1> DEFINE T == {a \in S : ~ Less(a, k)}
           n == Cardinality(T)
<1>1. T \in SUBSET S /\ T \in SUBSET ByteStrings
  OBVIOUS
<1>2. IsFiniteSet(T)
  BY <1>1, FS_Subset
<1>3. \A a \in T : a \in S /\ ~ Less(a, k)
  OBVIOUS
<1>4. From(S, k) = Sorted(T)
  BY DEF From
<1>5. \A a \in S : ~ Less(a, k) => a \in T
  OBVIOUS
<1> HIDE DEF T
<1>6. /\ n \in Nat
      /\ Sorted(T) \in [1 .. n -> T]
      /\ Sorted(T) \in Seq(T)
      /\ Len(Sorted(T)) = n
      /\ \A a \in T : \E i \in 1 .. n : Sorted(T)[i] = a
  BY <1>1, <1>2, SortedLists
<1>7. \A i, j \in 1 .. n : i < j => Less(Sorted(T)[i], Sorted(T)[j])
  BY <1>1, <1>2, SortedIncreasing
<1> HIDE DEF n
<1>8. Sorted(T) \in Seq(S)
  BY <1>1, <1>6, SeqMonotonic
<1>9. QED
  BY <1>3, <1>4, <1>5, <1>6, <1>7, <1>8

\* Seek(k) finds k itself first, if it is there.
LEMMA FromFirst ==
  ASSUME NEW S \in SUBSET ByteStrings, IsFiniteSet(S), NEW k \in S
  PROVE  Len(From(S, k)) > 0 /\ From(S, k)[1] = k
<1> DEFINE p == From(S, k)
<1>1. k \in ByteStrings
  OBVIOUS
<1>2. ~ Less(k, k)
  BY <1>1, LessIrreflexive
<1>3. p \in Seq(S) /\ \A i \in 1 .. Len(p) : ~ Less(p[i], k)
  BY <1>1, FromLists
<1>4. PICK i \in 1 .. Len(p) : p[i] = k
  BY <1>1, <1>2, FromLists
<1>5. 1 < i => Less(p[1], p[i])
  BY <1>1, <1>3, FromLists
<1>6. i = 1
  BY <1>3, <1>4, <1>5
<1>7. QED
  BY <1>3, <1>4, <1>6

\* Behind the m-th key of a walk comes the rest of the walk.
LEMMA FromNext ==
  ASSUME NEW S \in SUBSET ByteStrings, IsFiniteSet(S), NEW k \in ByteStrings,
         NEW m \in 1 .. Len(From(S, k))
  PROVE  LET p == From(S, k)
         IN  From({a \in S : a # p[m]}, p[m]) = SubSeq(p, m + 1, Len(p))
<1> DEFINE p == From(S, k)
           n == Len(p)
           c == p[m]
           T == {a \in S : a # c /\ ~ Less(a, c)}
           s == [i \in 1 .. n - m |-> p[i + m]]
<1>1. /\ p \in Seq(S)
      /\ \A i \in 1 .. n : ~ Less(p[i], k)
      /\ \A a \in S : ~ Less(a, k) => \E i \in 1 .. n : p[i] = a
      /\ \A i, j \in 1 .. n : i < j => Less(p[i], p[j])
  BY FromLists
<1> HIDE DEF p
<1>2. n \in Nat /\ m \in 1 .. n /\ c \in S
  BY <1>1 DEF p
<1>3. \A i \in 1 .. n : p[i] \in S /\ p[i] \in ByteStrings
  BY <1>1, <1>2
<1> HIDE DEF n
<1>4. \A i \in 1 .. n - m : s[i] \in T
  <2> SUFFICES ASSUME NEW i \in 1 .. n - m PROVE s[i] \in T
    OBVIOUS
  <2>1. i + m \in 1 .. n /\ m < i + m /\ m \in 1 .. n
    BY <1>2
  <2>2. Less(c, p[i + m])
    BY <1>1, <2>1
  <2>3. p[i + m] # c /\ ~ Less(p[i + m], c)
    BY <1>3, <2>1, <2>2, LessIrreflexive, LessTransitive
  <2>4. QED
    BY <1>3, <2>1, <2>3
<1>5. \A i, j \in 1 .. n - m : i < j => Less(s[i], s[j])
  <2> SUFFICES ASSUME NEW i \in 1 .. n - m, NEW j \in 1 .. n - m, i < j
               PROVE  Less(s[i], s[j])
    OBVIOUS
  <2>1. i + m \in 1 .. n /\ j + m \in 1 .. n /\ i + m < j + m
    BY <1>2
  <2>2. QED
    BY <1>1, <2>1
<1>6. \A a \in T : \E i \in 1 .. n - m : s[i] = a
  <2> SUFFICES ASSUME NEW a \in T PROVE \E i \in 1 .. n - m : s[i] = a
    OBVIOUS
  <2>1. a \in ByteStrings /\ c \in ByteStrings /\ a # c /\ ~ Less(a, c)
    BY <1>2
  <2>2. Less(c, a)
    BY <2>1, LessTotal
  <2>3. ~ Less(a, k)
    <3>1. Less(a, k) => Less(c, k)
      BY <2>1, <2>2, LessTransitive
    <3>2. QED
      BY <1>1, <1>2, <3>1
  <2>4. PICK i \in 1 .. n : p[i] = a
    BY <1>1, <2>3
  <2>5. m < i
    <3>1. i < m => Less(a, c)
      BY <1>1, <1>2, <2>4
    <3>2. QED
      BY <1>2, <2>1, <2>4, <3>1
  <2>6. i - m \in 1 .. n - m /\ s[i - m] = a
    BY <1>2, <2>4, <2>5
  <2>7. QED
    BY <2>6
<1>7. T \in SUBSET ByteStrings /\ s \in [1 .. n - m -> T] /\ n - m \in Nat
  BY <1>2, <1>4
<1>8. Sorted(T) = s
  <2> DEFINE r == n - m
             u == s
  <2>1. r \in Nat /\ u \in [1 .. r -> T]
    BY <1>7
  <2>2. /\ \A i, j \in 1 .. r : i < j => Less(u[i], u[j])
        /\ \A a \in T : \E i \in 1 .. r : u[i] = a
    BY <1>5, <1>6
  <2>3. T \in SUBSET ByteStrings
    BY <1>7
  <2> HIDE DEF r, u, T, s
  <2>4. Sorted(T) = u
    BY <2>1, <2>2, <2>3, SortedUnique
  <2>5. QED
    BY <2>4 DEF u
<1>9. SubSeq(p, m + 1, n) = s
  BY <1>1, <1>2 DEF n
<1>10. From({a \in S : a # c}, c) = Sorted(T)
  <2>1. {a \in {b \in S : b # c} : ~ Less(a, c)} = T
    OBVIOUS
  <2>2. QED
    BY <2>1 DEF From
<1>11. QED
  BY <1>8, <1>9, <1>10 DEF n, p

-----------------------------------------------------------------------------
(* Rows.                                                                   *)

\* Two functions that agree at 0, and at i if they agree before i, agree up to
\* n: how a walk is compared with what it should give.
StepAlike(g, h, n) ==
  /\ g[0] = h[0]
  /\ \A i \in 1 .. n : g[i - 1] = h[i - 1] => g[i] = h[i]

Agree(g, h, n) == \A i \in 0 .. n : g[i] = h[i]

LEMMA SameWalk ==
  ASSUME NEW n \in Nat, NEW g, NEW h, StepAlike(g, h, n)
  PROVE  Agree(g, h, n)
<1> USE DEF StepAlike, Agree
<1> DEFINE D == {i \in 0 .. n : g[i] # h[i]}
<1>1. SUFFICES ASSUME D # {} PROVE FALSE
  OBVIOUS
<1>2. PICK i \in D : \A j \in D : i <= j
  <2>1. D \in SUBSET Nat
    OBVIOUS
  <2> HIDE DEF D
  <2>2. QED
    BY <1>1, <2>1, LeastNumber
<1>3. i \in 1 .. n /\ g[i - 1] = h[i - 1]
  BY <1>2
<1>4. QED
  BY <1>2, <1>3

\* Reading what was written: DeserializeRow undoes SerializeRow.
THEOREM RoundTrip ==
  ASSUME NEW N, NEW V, NEW row \in Seq([name : N, value : V])
  PROVE  DeserializeRow(SerializeRow(row)) = row
<1> DEFINE n == Len(row)
           data == SerializeRow(row)
<1>1. n \in Nat
  OBVIOUS
<1>2. Len(data) = 2 * n
  BY <1>1 DEF SerializeRow
<1>3. ASSUME NEW i \in 1 .. n
      PROVE  data[2 * i - 1] = row[i].name /\ data[2 * i] = row[i].value
  <2>1. /\ 2 * i - 1 \in 1 .. 2 * n /\ 2 * i \in 1 .. 2 * n
        /\ (2 * i - 1) % 2 = 1 /\ (2 * i) % 2 = 0
        /\ ((2 * i - 1) + 1) \div 2 = i /\ (2 * i + 1) \div 2 = i
    BY <1>1
  <2>2. QED
    BY <2>1 DEF SerializeRow
<1>4. (2 * n) \div 2 = n
  BY <1>1
<1> HIDE DEF data
<1>5. ASSUME NEW i \in 1 .. n
      PROVE  [name |-> data[2 * i - 1], value |-> data[2 * i]] = row[i]
  <2>1. row[i] \in [name : N, value : V]
    BY ElementOfSeq
  <2>2. row[i] = [name |-> row[i].name, value |-> row[i].value]
    BY <2>1
  <2>3. QED
    BY <1>3, <2>2
<1>6. row = [i \in 1 .. n |-> row[i]]
  OBVIOUS
<1> HIDE DEF n
<1>7. [i \in 1 .. n |-> [name |-> data[2 * i - 1], value |-> data[2 * i]]]
        = [i \in 1 .. n |-> row[i]]
  BY <1>5
<1>8. QED
  BY <1>2, <1>4, <1>6, <1>7 DEF DeserializeRow, data

NamedValues == [name : FieldNames, value : Values]

LEMMA NamedValue ==
  ASSUME NEW f \in FieldNames, NEW v \in Values, NEW field,
         field = [name |-> f, value |-> v]
  PROVE  field \in NamedValues /\ field.name = f /\ field.value = v
BY DEF NamedValues

\* The first fields of a record, in their order
IsPrefix(row) ==
  /\ row \in Seq(NamedValues)
  /\ Len(row) <= FieldCount
  /\ \A i \in 1 .. Len(row) : row[i].name = i - 1

\* A whole record
IsRow(row) == IsPrefix(row) /\ Len(row) = FieldCount

\* One step of Filter: got holds what was taken before the i-th field.
Taking(row, fields, got, i) ==
  IF /\ Len(got) < Len(fields)
     /\ fields[Len(got) + 1] = row[i].name
  THEN Append(got, row[i]) ELSE got

\* What a walk gives is known if it is known step by step.
LEMMA FilterWalk ==
  ASSUME NEW row, NEW fields, NEW n \in Nat, Len(row) = n, NEW h, h[0] = <<>>,
         \A i \in 1 .. n : h[i] = Taking(row, fields, h[i - 1], i)
  PROVE  Filter(row, fields) = h[n]
<1> DEFINE F(g) == [i \in 0 .. n |->
                      IF i = 0 THEN <<>>
                      ELSE IF /\ Len(g[i - 1]) < Len(fields)
                              /\ fields[Len(g[i - 1]) + 1] = row[i].name
                           THEN Append(g[i - 1], row[i]) ELSE g[i - 1]]
           k == [i \in 0 .. n |-> h[i]]
           got == CHOOSE g : g = F(g)
<1>1. \A g : F(g) = [i \in 0 .. n |->
                       IF i = 0 THEN <<>> ELSE Taking(row, fields, g[i - 1], i)]
  BY DEF Taking
<1> HIDE DEF F
<1>2. k = F(k)
  <2>1. \A i \in 0 .. n : i # 0 => i \in 1 .. n /\ k[i - 1] = h[i - 1]
    OBVIOUS
  <2>2. \A i \in 0 .. n :
          h[i] = IF i = 0 THEN <<>> ELSE Taking(row, fields, k[i - 1], i)
    BY <2>1
  <2> HIDE DEF k
  <2>3. k = [i \in 0 .. n |->
               IF i = 0 THEN <<>> ELSE Taking(row, fields, k[i - 1], i)]
    BY <2>2 DEF k
  <2>4. QED
    BY <1>1, <2>3
<1>3. got = F(got)
  BY <1>2
<1> HIDE DEF k, got
<1>4. got[0] = h[0]
  BY <1>1, <1>3
<1>5. \A i \in 1 .. n : got[i] = Taking(row, fields, got[i - 1], i)
  <2> SUFFICES ASSUME NEW i \in 1 .. n
               PROVE  got[i] = Taking(row, fields, got[i - 1], i)
    OBVIOUS
  <2>1. i \in 0 .. n /\ i # 0
    OBVIOUS
  <2>2. F(got)[i] = Taking(row, fields, got[i - 1], i)
    BY <1>1, <2>1
  <2>3. QED
    BY <1>3, <2>2
<1>6. \A i \in 1 .. n : got[i - 1] = h[i - 1] => got[i] = h[i]
  BY <1>5
<1>7. got[n] = h[n]
  <2>1. StepAlike(got, h, n)
    BY <1>4, <1>6 DEF StepAlike
  <2>2. Agree(got, h, n)
    BY <2>1, SameWalk
  <2>3. QED
    BY <2>2 DEF Agree
<1>8. Filter(row, fields) = got[n]
  BY DEF Filter, got, F
<1>9. QED
  BY <1>7, <1>8

\* A walk that wants all fields takes all there are.
LEMMA FilterAll ==
  ASSUME NEW row, IsPrefix(row)
  PROVE  Filter(row, AllFields) = row
<1> DEFINE n == Len(row)
           h == [i \in 0 .. n |-> SubSeq(row, 1, i)]
<1>1. /\ n \in 0 .. FieldCount /\ FieldCount \in Nat
      /\ row \in Seq(NamedValues)
  BY FieldAssumption DEF IsPrefix
<1>2. Len(AllFields) = FieldCount /\ \A i \in 1 .. FieldCount : AllFields[i] = i - 1
  BY <1>1 DEF AllFields
<1> HIDE DEF n
<1>3. h[0] = <<>> /\ h[n] = row
  BY <1>1 DEF n
<1>4. ASSUME NEW i \in 1 .. n
      PROVE  h[i] = Taking(row, AllFields, h[i - 1], i)
  <2>1. i \in 1 .. FieldCount /\ row[i].name = i - 1
    BY <1>1 DEF IsPrefix, n
  <2>2. h[i - 1] = SubSeq(row, 1, i - 1) /\ h[i] = SubSeq(row, 1, i)
    BY <1>1
  <2>3. Len(h[i - 1]) = i - 1
    BY <1>1, <2>2 DEF n
  <2>4. h[i] = Append(h[i - 1], row[i])
    BY <1>1, <2>2 DEF n
  <2> HIDE DEF h
  <2>5. /\ Len(h[i - 1]) < Len(AllFields)
        /\ AllFields[Len(h[i - 1]) + 1] = row[i].name
    BY <1>1, <1>2, <2>1, <2>3
  <2>6. QED
    BY <2>4, <2>5 DEF Taking
<1> HIDE DEF h
<1>5. QED
  BY <1>1, <1>3, <1>4, FilterWalk DEF n

\* A walk that wants one field takes it once it comes to it.
LEMMA FilterOne ==
  ASSUME NEW row, IsPrefix(row), NEW f \in FieldNames
  PROVE  Filter(row, <<f>>) = IF f < Len(row) THEN <<row[f + 1]>> ELSE <<>>
<1> DEFINE n == Len(row)
           h == [i \in 0 .. n |-> IF i <= f THEN <<>> ELSE <<row[f + 1]>>]
<1>1. n \in 0 .. FieldCount /\ FieldCount \in Nat /\ f \in Nat
  BY FieldAssumption DEF IsPrefix, FieldNames
<1>2. h[0] = <<>>
  BY <1>1
<1>3. h[n] = IF f < n THEN <<row[f + 1]>> ELSE <<>>
  BY <1>1
<1>4. ASSUME NEW i \in 1 .. n
      PROVE  h[i] = Taking(row, <<f>>, h[i - 1], i)
  <2>1. row[i].name = i - 1
    BY DEF IsPrefix
  <2>2. /\ h[i - 1] = IF i <= f + 1 THEN <<>> ELSE <<row[f + 1]>>
        /\ h[i] = IF i <= f THEN <<>> ELSE <<row[f + 1]>>
    BY <1>1
  <2> HIDE DEF h
  <2>3. CASE i <= f
    <3>1. h[i - 1] = <<>> /\ h[i] = <<>> /\ row[i].name # f
      BY <1>1, <2>1, <2>2, <2>3
    <3>2. QED
      BY <3>1 DEF Taking
  <2>4. CASE i = f + 1
    <3>1. h[i - 1] = <<>> /\ h[i] = <<row[i]>> /\ row[i].name = f
      BY <1>1, <2>1, <2>2, <2>4
    <3>2. QED
      BY <3>1 DEF Taking
  <2>5. CASE i > f + 1
    <3>1. h[i - 1] = <<row[f + 1]>> /\ h[i] = <<row[f + 1]>>
      BY <1>1, <2>2, <2>5
    <3>2. QED
      BY <3>1 DEF Taking
  <2>6. QED
    BY <1>1, <2>3, <2>4, <2>5
<1> HIDE DEF h
<1>5. QED
  BY <1>1, <1>2, <1>3, <1>4, FilterWalk DEF n

\* What a row says of each field
RecordOf(row) == [f \in FieldNames |-> row[f + 1].value]

LEMMA FieldTypes ==
  /\ FieldCount \in Nat /\ 1 <= FieldCount /\ FieldCount <= 10
  /\ FieldNames \subseteq Nat
  /\ \A f \in FieldNames : f + 1 \in 1 .. FieldCount
  /\ \A i \in 1 .. FieldCount : i - 1 \in FieldNames
  /\ 0 \in FieldNames
BY FieldAssumption DEF FieldNames

\* The i-th field of a row, by its place and by its name.
LEMMA RowFields ==
  ASSUME NEW row, IsRow(row)
  PROVE  /\ row \in [1 .. FieldCount -> NamedValues]
         /\ \A i \in 1 .. FieldCount :
              row[i] = [name |-> i - 1, value |-> row[i].value]
         /\ \A f \in FieldNames : row[f + 1].value \in Values
         /\ Named(row) = FieldNames
         /\ \A f \in FieldNames : ValueOf(row, f) = row[f + 1].value
         /\ [f \in Named(row) |-> ValueOf(row, f)] = RecordOf(row)
<1>1. /\ row \in Seq(NamedValues)
      /\ Len(row) = FieldCount /\ FieldCount \in Nat
      /\ \A i \in 1 .. FieldCount : row[i].name = i - 1
  BY FieldTypes DEF IsRow, IsPrefix
<1>2. row \in [1 .. FieldCount -> NamedValues]
  BY <1>1
<1>3. \A i \in 1 .. FieldCount : row[i] \in NamedValues
  BY <1>2
<1>4. \A i \in 1 .. FieldCount : row[i] = [name |-> i - 1, value |-> row[i].value]
  BY <1>1, <1>3 DEF NamedValues
<1>5. \A f \in FieldNames : row[f + 1].value \in Values
  BY <1>3, FieldTypes DEF NamedValues
<1>6. DOMAIN row = 1 .. FieldCount
  BY <1>2
<1>7. Named(row) = FieldNames
  <2>1. \A f \in FieldNames : f + 1 \in DOMAIN row /\ row[f + 1].name = f
    BY <1>1, <1>6, FieldTypes
  <2>2. \A i \in DOMAIN row : row[i].name \in FieldNames
    BY <1>3, <1>6 DEF NamedValues
  <2>3. QED
    BY <2>1, <2>2 DEF Named
<1>8. ASSUME NEW f \in FieldNames PROVE ValueOf(row, f) = row[f + 1].value
  <2>1. \A i \in DOMAIN row : row[i].name = f <=> i = f + 1
    BY <1>1, <1>6, FieldTypes
  <2>2. f + 1 \in DOMAIN row
    BY <1>6, FieldTypes
  <2>3. (CHOOSE i \in DOMAIN row : row[i].name = f) = f + 1
    BY <2>1, <2>2
  <2>4. QED
    BY <2>3 DEF ValueOf
<1>9. QED
  BY <1>2, <1>4, <1>5, <1>7, <1>8 DEF RecordOf

\* A write gives all fields or one.
LEMMA WriteForm ==
  ASSUME NEW w \in Writes
  PROVE  \/ IsRow(w)
         \/ /\ Len(w) = 1
            /\ \E f \in FieldNames, v \in Values :
                 w = <<[name |-> f, value |-> v]>>
<1>1. /\ w \in [1 .. Len(w) -> NamedValues]
      /\ \/ Len(w) = 1
         \/ Len(w) = FieldCount /\ \A i \in 1 .. FieldCount : w[i].name = i - 1
  BY ListsAssumption DEF NamedValues
<1>2. CASE Len(w) = FieldCount /\ \A i \in 1 .. FieldCount : w[i].name = i - 1
  <2>1. w \in Seq(NamedValues)
    BY <1>1, <1>2, FieldTypes
  <2>2. QED
    BY <1>2, <2>1, FieldTypes DEF IsRow, IsPrefix
<1>3. CASE Len(w) = 1
  <2>1. w \in [1 .. 1 -> NamedValues]
    BY <1>1, <1>3
  <2>2. w[1] \in NamedValues /\ w = <<w[1]>>
    BY <2>1
  <2>3. /\ w[1] = [name |-> w[1].name, value |-> w[1].value]
        /\ w[1].name \in FieldNames /\ w[1].value \in Values
    BY <2>2 DEF NamedValues
  <2>4. QED
    BY <1>3, <2>2, <2>3
<1>4. QED
  BY <1>1, <1>2, <1>3

LEMMA WriteFields ==
  ASSUME NEW w \in Writes
  PROVE  /\ Named(w) \subseteq FieldNames
         /\ Named(w) # {}
         /\ \A f \in Named(w) : ValueOf(w, f) \in Values
         /\ Len(w) = FieldCount => IsRow(w)
         /\ \A i \in DOMAIN w : i \in 1 .. Len(w) /\ w[i].name \in Named(w)
         /\ Len(w) \in Nat
<1>1. CASE IsRow(w)
  <2>1. DOMAIN w = 1 .. FieldCount /\ Len(w) = FieldCount
    BY <1>1, RowFields, FieldTypes DEF IsRow
  <2>2. \A i \in DOMAIN w : w[i].name \in Named(w)
    BY DEF Named
  <2>3. Named(w) = FieldNames /\ \A f \in FieldNames : ValueOf(w, f) \in Values
    BY <1>1, RowFields
  <2>4. QED
    BY <1>1, <2>1, <2>2, <2>3, FieldTypes
<1>2. ASSUME NEW f \in FieldNames, NEW v \in Values, w = <<[name |-> f, value |-> v]>>
      PROVE  /\ Named(w) = {f} /\ ValueOf(w, f) = v /\ DOMAIN w = 1 .. 1
             /\ w[1].name = f /\ Len(w) = 1
             /\ FieldCount = 1 => IsRow(w)
  <2>1. DOMAIN w = 1 .. 1 /\ w[1] = [name |-> f, value |-> v] /\ Len(w) = 1
    BY <1>2
  <2>2. Named(w) = {f}
    BY <2>1 DEF Named
  <2>3. ValueOf(w, f) = v
    <3>1. (CHOOSE i \in DOMAIN w : w[i].name = f) = 1
      BY <2>1
    <3>2. QED
      BY <2>1, <3>1 DEF ValueOf
  <2>4. FieldCount = 1 => IsRow(w)
    <3>1. w[1] \in NamedValues
      BY <2>1 DEF NamedValues
    <3>2. w \in Seq(NamedValues)
      BY <1>2, <2>1, <3>1
    <3>3. FieldCount = 1 => f = 0
      BY DEF FieldNames
    <3>4. QED
      BY <2>1, <3>2, <3>3 DEF IsRow, IsPrefix
  <2>5. QED
    BY <2>1, <2>2, <2>3, <2>4
<1>3. CASE ~ IsRow(w)
  <2>1. PICK f \in FieldNames, v \in Values : w = <<[name |-> f, value |-> v]>>
    BY <1>3, WriteForm
  <2>2. /\ Named(w) = {f} /\ ValueOf(w, f) = v /\ DOMAIN w = 1 .. 1
        /\ w[1].name = f /\ Len(w) = 1
        /\ FieldCount = 1 => IsRow(w)
    BY <1>2, <2>1
  <2>3. QED
    BY <2>2
<1>4. QED
  BY <1>1, <1>3

\* An update leaves a row a row, with the new values in it.
LEMMA ModifyRow ==
  ASSUME NEW row, IsRow(row), NEW w \in Writes
  PROVE  /\ IsRow(Modify(row, w))
         /\ RecordOf(Modify(row, w)) =
              [f \in FieldNames |->
                 IF f \in Named(w) THEN ValueOf(w, f) ELSE row[f + 1].value]
<1> DEFINE m == Modify(row, w)
<1>1. /\ row \in [1 .. FieldCount -> NamedValues]
      /\ \A i \in 1 .. FieldCount :
           row[i] = [name |-> i - 1, value |-> row[i].value]
  BY RowFields
<1>2. m = [i \in 1 .. FieldCount |->
             IF i - 1 \in Named(w)
             THEN [row[i] EXCEPT !.value = ValueOf(w, i - 1)] ELSE row[i]]
  <2>1. DOMAIN row = 1 .. FieldCount /\ \A i \in 1 .. FieldCount : row[i].name = i - 1
    BY <1>1
  <2>2. QED
    BY <2>1 DEF Modify
<1> HIDE DEF m
<1> DEFINE new(i) == IF i - 1 \in Named(w) THEN ValueOf(w, i - 1) ELSE row[i].value
<1>3. ASSUME NEW i \in 1 .. FieldCount
      PROVE  m[i] = [name |-> i - 1, value |-> new(i)]
  <2>1. row[i] = [name |-> i - 1, value |-> row[i].value]
    BY <1>1
  <2>2. QED
    BY <1>2, <2>1
<1>4. ASSUME NEW i \in 1 .. FieldCount PROVE new(i) \in Values
  <2>1. row[i].value \in Values
    BY <1>1 DEF NamedValues
  <2>2. i - 1 \in Named(w) => ValueOf(w, i - 1) \in Values
    BY WriteFields
  <2>3. QED
    BY <2>1, <2>2
<1>5. ASSUME NEW f \in FieldNames
      PROVE  new(f + 1) = IF f \in Named(w) THEN ValueOf(w, f) ELSE row[f + 1].value
  BY FieldTypes
<1> HIDE DEF new
<1>6. ASSUME NEW i \in 1 .. FieldCount
      PROVE  m[i] \in NamedValues /\ m[i].name = i - 1 /\ m[i].value = new(i)
  <2>1. i - 1 \in FieldNames /\ new(i) \in Values
    BY <1>4, FieldTypes
  <2>2. m[i] = [name |-> i - 1, value |-> new(i)]
    BY <1>3
  <2>3. QED
    BY <2>1, <2>2, NamedValue
<1>7. IsRow(m)
  <2>1. m \in [1 .. FieldCount -> NamedValues]
    BY <1>2, <1>6
  <2>2. m \in Seq(NamedValues) /\ Len(m) = FieldCount
    BY <2>1, FieldTypes
  <2>3. QED
    BY <1>6, <2>2, FieldTypes DEF IsRow, IsPrefix
<1>8. RecordOf(m) = [f \in FieldNames |->
                       IF f \in Named(w) THEN ValueOf(w, f) ELSE row[f + 1].value]
  <2>1. \A f \in FieldNames :
          m[f + 1].value = IF f \in Named(w) THEN ValueOf(w, f) ELSE row[f + 1].value
    BY <1>5, <1>6, FieldTypes
  <2>2. QED
    BY <2>1 DEF RecordOf
<1>9. QED
  BY <1>7, <1>8 DEF m

\* The merge operator adds nothing to a whole record.
LEMMA MergeRow ==
  ASSUME NEW row, IsRow(row), NEW w \in Writes
  PROVE  Merge(row, w) = Modify(row, w)
<1> DEFINE n == Len(w)
           F(g) == [i \in 0 .. n |->
                      IF i = 0 THEN <<>>
                      ELSE IF w[i].name \in Named(row) THEN g[i - 1]
                           ELSE Append(g[i - 1], w[i])]
           k == [i \in 0 .. n |-> <<>>]
           added == CHOOSE g : g = F(g)
<1>1. n \in Nat
  BY WriteFields
<1>2. \A i \in 1 .. n : w[i].name \in Named(row)
  <2>1. Named(w) \subseteq Named(row)
    BY WriteFields, RowFields
  <2>2. DOMAIN w = 1 .. n
    BY ListsAssumption
  <2>3. QED
    BY <2>1, <2>2 DEF Named
<1>3. \A g : F(g) = [i \in 0 .. n |-> IF i = 0 THEN <<>> ELSE g[i - 1]]
  <2>1. \A i \in 0 .. n : i # 0 => w[i].name \in Named(row)
    BY <1>2
  <2>2. QED
    BY <2>1
<1> HIDE DEF F
<1>4. k = F(k)
  <2>1. \A i \in 0 .. n : i # 0 => k[i - 1] = <<>>
    BY <1>1
  <2> HIDE DEF k
  <2>2. k = [i \in 0 .. n |-> IF i = 0 THEN <<>> ELSE k[i - 1]]
    BY <2>1 DEF k
  <2>3. QED
    BY <1>3, <2>2
<1>5. added = F(added)
  BY <1>4
<1> HIDE DEF k, added
<1>6. added[0] = <<>> /\ \A i \in 1 .. n : added[i] = added[i - 1]
  BY <1>1, <1>3, <1>5
<1>7. added[n] = <<>>
  <2> DEFINE h == [i \in 0 .. n |-> <<>>]
  <2>1. StepAlike(added, h, n)
    BY <1>1, <1>6 DEF StepAlike
  <2>2. h[n] = <<>>
    BY <1>1
  <2> HIDE DEF h, n
  <2>3. Agree(added, h, n)
    BY <1>1, <2>1, SameWalk
  <2>4. added[n] = h[n]
    BY <1>1, <2>3 DEF Agree
  <2>5. QED
    BY <2>2, <2>4
<1>8. Added(row, w) = added[n]
  BY DEF Added, added, F
<1>9. Modify(row, w) \in Seq(NamedValues)
  BY ModifyRow DEF IsRow, IsPrefix
<1>10. QED
  BY <1>7, <1>8, <1>9 DEF Merge

-----------------------------------------------------------------------------
(* What the bindings' choices have to do with each other.                  *)

BindingRules(b) ==
  /\ b.format \in {"single", "row", "table"}
  /\ b.update = "batch" <=> b.format = "row"
  /\ b.update = "sql" <=> b.format = "table"
  /\ b.scan = "query" <=> b.format = "table"
  /\ b.update = "txn" <=> b.scan = "exact"
  /\ b.scan \in {"range", "near"} => b.format = "single"
  /\ b.format = "row" => b.scan = "iterator"
  /\ b.format # "single" => b.decodes = "always"
  /\ b.scan = "near" => b.update = "getPut"

LEMMA BindingsFollowRules ==
  ASSUME NEW b \in AllBindings
  PROVE  BindingRules(b)
<1> USE DEF BindingRules, Binding
<1>1. \A c \in {RocksDB, RocksDBMerge, LevelDB, LevelDBRow, Lsbm, LsbmRow} : BindingRules(c)
  BY DEF RocksDB, RocksDBMerge, RocksDBReads, RocksDBWrites, LevelDB, LevelDBReads,
         LevelDBWrites, LevelDBRow, Lsbm, LsbmReads, LsbmWrites, LsbmRow
<1>2. \A c \in {Lorc, LorcMerge, Topling, ToplingMerge, Terark, TerarkMerge} : BindingRules(c)
  BY DEF Lorc, LorcMerge, LorcReads, LorcWrites, Topling, ToplingMerge, ToplingReads,
         ToplingWrites, Terark, TerarkMerge, TerarkReads, TerarkWrites
<1>3. \A c \in {Lmdb, WiredTiger, Sqlite} : BindingRules(c)
  BY DEF Lmdb, LmdbReads, LmdbWrites, WiredTiger, WiredTigerReads, WiredTigerWrites,
         Sqlite, SqliteReads, SqliteWrites
<1> HIDE DEF BindingRules
<1>4. QED
  BY <1>1, <1>2, <1>3 DEF AllBindings

-----------------------------------------------------------------------------
(* Composite keys.                                                         *)

LEMMA KeyTypes ==
  ASSUME NEW k \in Keys
  PROVE  /\ k \in Seq(0 .. Colon - 1)
         /\ k \in ByteStrings
         /\ Len(k) \in Nat
         /\ \A i \in 1 .. Len(k) : k[i] \in Nat /\ k[i] < Colon
<1>1. k \in Seq(0 .. Colon - 1) /\ Colon = 10
  BY KeysAssumption DEF Colon
<1>2. k \in ByteStrings
  BY <1>1, SeqMonotonic DEF ByteStrings
<1>3. QED
  BY <1>1, <1>2

\* A composite key is its key, a colon and the field.
LEMMA CompKeyForm ==
  ASSUME NEW k \in Keys, NEW f \in FieldNames, NEW c, c = BuildCompKey(k, f)
  PROVE  /\ c \in ByteStrings
         /\ Len(c) = Len(k) + 2
         /\ \A i \in 1 .. Len(k) : c[i] = k[i]
         /\ c[Len(k) + 1] = Colon
         /\ c[Len(k) + 2] = f
<1> DEFINE n == Len(k)
<1>1. k \in Seq(Nat) /\ n \in Nat /\ f \in Nat /\ Colon \in Nat
  BY KeyTypes, FieldTypes DEF ByteStrings, Colon
<1>2. c = k \o <<Colon, f>>
  BY DEF BuildCompKey
<1> HIDE DEF n
<1>3. c \in Seq(Nat) /\ Len(c) = n + 2
  BY <1>1, <1>2 DEF n
<1>4. \A i \in 1 .. n : c[i] = k[i]
  BY <1>1, <1>2 DEF n
<1>5. c[n + 1] = Colon /\ c[n + 2] = f
  BY <1>1, <1>2 DEF n
<1>6. QED
  BY <1>3, <1>4, <1>5 DEF ByteStrings, n

\* Its two halves can be told apart.
LEMMA CompKeyParts ==
  ASSUME NEW k \in Keys, NEW f \in FieldNames
  PROVE  /\ KeyFromCompKey(BuildCompKey(k, f)) = k
         /\ FieldFromCompKey(BuildCompKey(k, f)) = f
<1> DEFINE c == BuildCompKey(k, f)
           n == Len(k)
<1>1. /\ c \in Seq(Nat) /\ Len(c) = n + 2 /\ n \in Nat
      /\ \A i \in 1 .. n : c[i] = k[i] /\ k[i] < Colon /\ k[i] \in Nat
      /\ c[n + 1] = Colon /\ c[n + 2] = f
  BY CompKeyForm, KeyTypes DEF ByteStrings
<1> HIDE DEF c
<1>2. ColonAt(c) = n + 1
  <2> DEFINE P(i) == c[i] = Colon /\ \A j \in 1 .. i - 1 : c[j] # Colon
  <2>1. DOMAIN c = 1 .. n + 2
    BY <1>1
  <2>2. \A i \in 1 .. n : c[i] # Colon
    BY <1>1 DEF Colon
  <2>3. n + 1 \in DOMAIN c /\ P(n + 1)
    BY <1>1, <2>1, <2>2
  <2>4. \A i \in DOMAIN c : P(i) => i = n + 1
    BY <1>1, <2>1, <2>2
  <2>5. ColonAt(c) = CHOOSE i \in DOMAIN c : P(i)
    BY DEF ColonAt
  <2> HIDE DEF P
  <2>6. QED
    BY <2>3, <2>4, <2>5
<1>3. FieldFromCompKey(c) = f
  BY <1>1, <1>2 DEF FieldFromCompKey
<1>4. KeyFromCompKey(c) = k
  <2> DEFINE s == SubSeq(c, 1, n)
  <2>1. KeyFromCompKey(c) = s
    BY <1>1, <1>2 DEF KeyFromCompKey
  <2>2. Len(s) = n /\ s \in Seq(Nat) /\ \A i \in 1 .. n : s[i] = k[i]
    BY <1>1
  <2>3. k \in Seq(Nat) /\ Len(k) = n
    BY KeyTypes DEF ByteStrings
  <2> HIDE DEF s, n
  <2>4. s = k
    BY <2>2, <2>3, SeqEqual
  <2>5. QED
    BY <2>1, <2>4
<1>5. QED
  BY <1>3, <1>4 DEF c

LEMMA CompKeysApart ==
  ASSUME NEW k \in Keys, NEW j \in Keys
  PROVE  /\ \A f \in FieldNames, g \in FieldNames :
              BuildCompKey(k, f) = BuildCompKey(j, g) => k = j /\ f = g
         /\ j # k => CompKeys(j) \cap CompKeys(k) = {}
         /\ \A f \in FieldNames : BuildCompKey(k, f) \in CompKeys(k)
         /\ \A c \in CompKeys(k) :
              FieldFromCompKey(c) \in FieldNames /\ c = BuildCompKey(k, FieldFromCompKey(c))
         /\ IsFiniteSet(CompKeys(k))
<1>1. \A f \in FieldNames, g \in FieldNames :
        BuildCompKey(k, f) = BuildCompKey(j, g) => k = j /\ f = g
  BY CompKeyParts
<1>2. j # k => CompKeys(j) \cap CompKeys(k) = {}
  BY <1>1 DEF CompKeys
<1>3. \A f \in FieldNames : BuildCompKey(k, f) \in CompKeys(k)
  BY DEF CompKeys
<1>4. \A c \in CompKeys(k) :
        FieldFromCompKey(c) \in FieldNames /\ c = BuildCompKey(k, FieldFromCompKey(c))
  BY CompKeyParts DEF CompKeys
<1>5. IsFiniteSet(CompKeys(k))
  <2> DEFINE S == FieldNames
             b(f) == BuildCompKey(k, f)
  <2>1. IsFiniteSet(S)
    BY FS_Interval, FieldTypes DEF FieldNames
  <2>2. CompKeys(k) = {b(f) : f \in S}
    BY DEF CompKeys
  <2> DEFINE h == [f \in S |-> b(f)]
  <2>3. h \in Surjection(S, CompKeys(k))
    BY <2>2 DEF Surjection
  <2> HIDE DEF h, S
  <2>4. QED
    BY <2>1, <2>3, FS_Surjection
<1>6. QED
  BY <1>1, <1>2, <1>3, <1>4, <1>5

\* Where two keys differ first decides, whatever follows them.
LEMMA PrefixFreeLess ==
  ASSUME NEW keys \in SUBSET Keys, PrefixFree(keys),
         NEW j \in keys, NEW k \in keys, j # k,
         NEW a \in ByteStrings, Len(a) >= Len(j), \A i \in 1 .. Len(j) : a[i] = j[i],
         NEW b \in ByteStrings, Len(b) >= Len(k), \A i \in 1 .. Len(k) : b[i] = k[i]
  PROVE  Less(a, b) <=> Less(j, k)
<1> DEFINE D == {i \in Nat \ {0} : i <= Len(j) /\ i <= Len(k) /\ j[i] # k[i]}
<1>1. Len(j) \in Nat /\ Len(k) \in Nat /\ Len(a) \in Nat /\ Len(b) \in Nat
  BY KeyTypes DEF ByteStrings
<1>2. \E i \in D : TRUE
  BY <1>1 DEF PrefixFree
<1>3. PICK i \in D : \A m \in D : i <= m
  <2>1. D \in SUBSET Nat
    OBVIOUS
  <2> HIDE DEF D
  <2>2. QED
    BY <1>2, <2>1, LeastNumber
<1>4. /\ i \in 1 .. Len(j) /\ i \in 1 .. Len(k) /\ j[i] # k[i]
      /\ \A m \in 1 .. i - 1 : m \in 1 .. Len(j) /\ m \in 1 .. Len(k) /\ j[m] = k[m]
  BY <1>1, <1>3
<1>5. \A m \in 1 .. Len(j) : j[m] \in Nat
  BY KeyTypes
<1>6. \A m \in 1 .. Len(k) : k[m] \in Nat
  BY KeyTypes
<1> HIDE DEF D
<1>7. Less(j, k) <=> j[i] < k[i]
  BY <1>1, <1>4, <1>5, <1>6 DEF Less
<1>8. Less(a, b) <=> j[i] < k[i]
  BY <1>1, <1>4, <1>5, <1>6 DEF Less
<1>9. QED
  BY <1>7, <1>8

\* The order of composite keys: by key, then by field.
LEMMA CompKeyOrder ==
  ASSUME NEW keys \in SUBSET Keys, PrefixFree(keys),
         NEW j \in keys, NEW k \in keys, NEW f \in FieldNames, NEW g \in FieldNames
  PROVE  /\ Less(BuildCompKey(j, f), BuildCompKey(k, g)) <=>
              Less(j, k) \/ (j = k /\ f < g)
         /\ Less(BuildCompKey(j, f), k) <=> Less(j, k)
<1> DEFINE a == BuildCompKey(j, f)
           b == BuildCompKey(k, g)
<1>1. /\ a \in ByteStrings /\ Len(a) = Len(j) + 2
      /\ \A i \in 1 .. Len(j) : a[i] = j[i]
      /\ a[Len(j) + 1] = Colon /\ a[Len(j) + 2] = f
  BY CompKeyForm
<1>2. /\ b \in ByteStrings /\ Len(b) = Len(k) + 2
      /\ \A i \in 1 .. Len(k) : b[i] = k[i]
      /\ b[Len(k) + 1] = Colon /\ b[Len(k) + 2] = g
  BY CompKeyForm
<1>3. /\ j \in ByteStrings /\ Len(j) \in Nat
      /\ k \in ByteStrings /\ Len(k) \in Nat
  BY KeyTypes
<1>4. f \in Nat /\ g \in Nat
  BY FieldTypes
<1> HIDE DEF a, b
<1>5. CASE j # k
  <2>1. Less(a, b) <=> Less(j, k)
    BY <1>1, <1>2, <1>3, <1>5, PrefixFreeLess
  <2>2. Less(a, k) <=> Less(j, k)
    BY <1>1, <1>3, <1>5, PrefixFreeLess
  <2>3. QED
    BY <1>5, <2>1, <2>2 DEF a, b
<1>6. CASE j = k
  <2> DEFINE n == Len(k)
  <2>1. /\ Len(a) = n + 2 /\ Len(b) = n + 2
        /\ \A i \in 1 .. n + 1 : a[i] = b[i]
        /\ a[n + 2] = f /\ b[n + 2] = g
    BY <1>1, <1>2, <1>3, <1>6
  <2>2. /\ \A i \in 1 .. n + 1 : a[i] \in Nat
        /\ \A i \in 1 .. n : a[i] = k[i] /\ k[i] \in Nat
    BY <1>1, <1>3, <1>6 DEF ByteStrings
  <2>3. ~ Less(k, k)
    BY <1>3, LessIrreflexive
  <2> HIDE DEF n
  <2>4. n \in Nat /\ Len(k) = n
    BY <1>3 DEF n
  <2>5. Less(a, b) <=> f < g
    BY <1>4, <2>1, <2>2, <2>4 DEF Less
  <2>6. ~ Less(a, k)
    BY <2>1, <2>2, <2>4 DEF Less
  <2>7. QED
    BY <1>6, <2>3, <2>5, <2>6 DEF a, b
<1>7. QED
  BY <1>5, <1>6

\* Numbers in base n
LEMMA Digits ==
  ASSUME NEW n \in 1 .. 10, NEW x \in Nat
  PROVE  /\ x \div n \in Nat /\ x % n \in 0 .. n - 1
         /\ x = (x \div n) * n + (x % n)
         /\ \A y \in Nat : x < y =>
              \/ x \div n < y \div n
              \/ (x \div n = y \div n /\ x % n < y % n)
         /\ \A m \in Nat : x < m * n <=> x \div n < m
<1>1. \/ n = 1 \/ n = 2 \/ n = 3 \/ n = 4 \/ n = 5
      \/ n = 6 \/ n = 7 \/ n = 8 \/ n = 9 \/ n = 10
  OBVIOUS
<1>2. x \div n \in Nat /\ x % n \in 0 .. n - 1 /\ x = (x \div n) * n + (x % n)
  BY <1>1
<1>3. ASSUME NEW y \in Nat, x < y
      PROVE  x \div n < y \div n \/ (x \div n = y \div n /\ x % n < y % n)
  BY <1>1, <1>3
<1>4. ASSUME NEW m \in Nat PROVE x < m * n <=> x \div n < m
  BY <1>1
<1>5. QED
  BY <1>2, <1>3, <1>4

LEMMA FromDigits ==
  ASSUME NEW n \in 1 .. 10, NEW i \in Nat, NEW f \in 0 .. n - 1
  PROVE  /\ i * n + f \in Nat
         /\ (i * n + f) \div n = i
         /\ (i * n + f) % n = f
<1>1. \/ n = 1 \/ n = 2 \/ n = 3 \/ n = 4 \/ n = 5
      \/ n = 6 \/ n = 7 \/ n = 8 \/ n = 9 \/ n = 10
  OBVIOUS
<1>2. QED
  BY <1>1

\* A walk over the composite entries of the records under the keys P: record
\* by record, field by field.
LEMMA CompWalk ==
  ASSUME NEW keys \in SUBSET Keys, PrefixFree(keys),
         NEW P \in SUBSET keys, IsFiniteSet(P), NEW k \in keys,
         NEW S, S = UNION {CompKeys(j) : j \in P}
  PROVE  LET p == From(P, k)
             ks == From(S, k)
         IN  /\ Len(ks) = Len(p) * FieldCount
             /\ \A x \in 0 .. Len(p) * FieldCount - 1 :
                  ks[x + 1] = BuildCompKey(p[(x \div FieldCount) + 1], x % FieldCount)
<1> DEFINE p == From(P, k)
           m == Len(p)
           n == m * FieldCount
           c(x) == BuildCompKey(p[(x \div FieldCount) + 1], x % FieldCount)
           s == [i \in 1 .. n |-> c(i - 1)]
           T == {a \in S : ~ Less(a, k)}
<1>1. /\ \A j \in keys : j \in Keys /\ j \in ByteStrings
      /\ P \in SUBSET ByteStrings
  BY KeyTypes
<1>2. /\ p \in Seq(P)
      /\ \A i \in 1 .. Len(p) : ~ Less(p[i], k)
      /\ \A a \in P : ~ Less(a, k) => \E i \in 1 .. Len(p) : p[i] = a
      /\ \A i, j \in 1 .. Len(p) : i < j => Less(p[i], p[j])
  BY <1>1, FromLists
<1> HIDE DEF p
<1>3. m \in Nat /\ \A i \in 1 .. m : p[i] \in P /\ p[i] \in keys /\ p[i] \in Keys
  BY <1>1, <1>2
<1>4. FieldCount \in 1 .. 10 /\ FieldNames = 0 .. FieldCount - 1
  BY FieldTypes DEF FieldNames
<1>5. n \in Nat
  BY <1>3, <1>4
<1> HIDE DEF m
<1>6. ASSUME NEW x \in Nat, x < n
      PROVE  (x \div FieldCount) + 1 \in 1 .. m /\ x % FieldCount \in FieldNames
  <2> DEFINE i == x \div FieldCount
             f == x % FieldCount
  <2>1. i \in Nat /\ f \in 0 .. FieldCount - 1 /\ (x < m * FieldCount <=> i < m)
    BY <1>3, <1>4, Digits
  <2> HIDE DEF i, f
  <2>2. i + 1 \in 1 .. m /\ f \in FieldNames
    BY <1>3, <1>4, <1>6, <2>1
  <2>3. QED
    BY <2>2 DEF i, f
<1> HIDE DEF n
<1>7. ASSUME NEW x \in Nat, x < n PROVE c(x) \in T
  <2> DEFINE j == p[(x \div FieldCount) + 1]
             f == x % FieldCount
  <2>1. j \in P /\ j \in keys /\ j \in Keys /\ f \in FieldNames /\ ~ Less(j, k)
    BY <1>2, <1>3, <1>6, <1>7 DEF m
  <2> HIDE DEF j, f
  <2>2. BuildCompKey(j, f) \in CompKeys(j)
    BY <2>1 DEF CompKeys
  <2>3. ~ Less(BuildCompKey(j, f), k)
    BY <2>1, CompKeyOrder
  <2>4. QED
    BY <2>1, <2>2, <2>3 DEF j, f
<1>8. ASSUME NEW x \in Nat, NEW y \in Nat, x < y, y < n PROVE Less(c(x), c(y))
  <2> DEFINE i == (x \div FieldCount) + 1
             j == (y \div FieldCount) + 1
             f == x % FieldCount
             g == y % FieldCount
  <2>1. x < n
    BY <1>5, <1>8
  <2>2. i \in 1 .. m /\ j \in 1 .. m /\ f \in FieldNames /\ g \in FieldNames
    BY <1>6, <1>8, <2>1
  <2>3. i < j \/ (i = j /\ f < g)
    <3> DEFINE u == x \div FieldCount
               v == y \div FieldCount
    <3>1. u \in Nat /\ v \in Nat /\ (u < v \/ (u = v /\ f < g))
      BY <1>4, <1>8, Digits
    <3>2. i = u + 1 /\ j = v + 1
      OBVIOUS
    <3> HIDE DEF u, v, i, j, f, g
    <3>3. QED
      BY <3>1, <3>2
  <2> HIDE DEF i, j, f, g
  <2>4. i < j => Less(p[i], p[j])
    BY <1>2, <2>2 DEF m
  <2>5. p[i] \in keys /\ p[j] \in keys
    BY <1>3, <2>2
  <2>6. Less(BuildCompKey(p[i], f), BuildCompKey(p[j], g))
    BY <2>2, <2>3, <2>4, <2>5, CompKeyOrder
  <2>7. QED
    BY <2>6 DEF i, j, f, g
<1>9. ASSUME NEW a \in T PROVE \E x \in Nat : x < n /\ c(x) = a
  <2>1. PICK j \in P : a \in CompKeys(j)
    OBVIOUS
  <2>2. PICK f \in FieldNames : a = BuildCompKey(j, f)
    BY <2>1 DEF CompKeys
  <2>3. j \in keys /\ ~ Less(a, k)
    OBVIOUS
  <2>4. ~ Less(j, k)
    BY <2>2, <2>3, CompKeyOrder
  <2>5. PICK i \in 1 .. m : p[i] = j
    BY <1>2, <2>4 DEF m
  <2> DEFINE x == (i - 1) * FieldCount + f
  <2>6. x \in Nat /\ x \div FieldCount = i - 1 /\ x % FieldCount = f
    BY <1>3, <1>4, FromDigits
  <2> HIDE DEF x
  <2>7. x < n
    <3>1. x < m * FieldCount <=> x \div FieldCount < m
      BY <1>3, <1>4, <2>6, Digits
    <3>2. i - 1 < m
      BY <1>3
    <3>3. QED
      BY <2>6, <3>1, <3>2 DEF n
  <2>8. c(x) = a
    BY <2>2, <2>5, <2>6
  <2>9. QED
    BY <2>6, <2>7, <2>8
<1> HIDE DEF c
<1>10. s \in [1 .. n -> T]
  BY <1>5, <1>7
<1>11. \A i, j \in 1 .. n : i < j => Less(s[i], s[j])
  BY <1>5, <1>8
<1>12. \A a \in T : \E i \in 1 .. n : s[i] = a
  <2> SUFFICES ASSUME NEW a \in T PROVE \E i \in 1 .. n : s[i] = a
    OBVIOUS
  <2>1. PICK x \in Nat : x < n /\ c(x) = a
    BY <1>9
  <2>2. x + 1 \in 1 .. n /\ s[x + 1] = a
    BY <1>5, <2>1
  <2>3. QED
    BY <2>2
<1>13. T \in SUBSET ByteStrings
  <2>1. \A j \in P : CompKeys(j) \in SUBSET ByteStrings
    BY <1>1, CompKeyForm DEF CompKeys
  <2>2. QED
    BY <2>1
<1>14. From(S, k) = Sorted(T)
  BY DEF From
<1> HIDE DEF s, T
<1>15. Sorted(T) = s
  BY <1>5, <1>10, <1>11, <1>12, <1>13, SortedUnique
<1>16. Len(s) = n /\ \A x \in 0 .. n - 1 : s[x + 1] = c(x)
  BY <1>5 DEF s
<1>17. QED
  BY <1>14, <1>15, <1>16 DEF p, m, n, c

LEMMA Multiples ==
  ASSUME NEW n \in 1 .. 10, NEW i \in Nat, NEW m \in Nat
  PROVE  /\ i * n \in Nat /\ m * n \in Nat /\ (i + 1) * n = i * n + n
         /\ i < m => i * n + n <= m * n
         /\ m <= i => m * n <= i * n
<1>1. \/ n = 1 \/ n = 2 \/ n = 3 \/ n = 4 \/ n = 5
      \/ n = 6 \/ n = 7 \/ n = 8 \/ n = 9 \/ n = 10
  OBVIOUS
<1>2. QED
  BY <1>1

\* What is left of a walk after i records, and the i-th of them
Rest(ks, i) == SubSeq(ks, i * FieldCount + 1, Len(ks))
Group(ks, i) == SubSeq(ks, (i - 1) * FieldCount + 1, i * FieldCount)

LEMMA RestStep ==
  ASSUME NEW U, NEW ks \in Seq(U), NEW m \in Nat,
         Len(ks) = m * FieldCount, NEW i \in Nat
  PROVE  /\ i < m => /\ Rest(ks, i) # <<>>
                     /\ Take(Rest(ks, i), FieldCount) = Group(ks, i + 1)
         /\ m <= i => Rest(ks, i) = <<>>
         /\ SubSeq(Rest(ks, i), Len(Take(Rest(ks, i), FieldCount)) + 1, Len(Rest(ks, i)))
              = Rest(ks, i + 1)
<1> DEFINE a == i * FieldCount
           L == m * FieldCount
           g == Rest(ks, i)
<1>1. FieldCount \in 1 .. 10
  BY FieldTypes
<1>2. /\ a \in Nat /\ L \in Nat /\ (i + 1) * FieldCount = a + FieldCount
      /\ i < m => a + FieldCount <= L
      /\ m <= i => L <= a
  BY <1>1, Multiples
<1>3. ks \in Seq(U)
  OBVIOUS
<1>4. g = SubSeq(ks, a + 1, L) /\ Len(ks) = L
  BY DEF Rest
<1>5. Rest(ks, i + 1) = SubSeq(ks, a + FieldCount + 1, L)
  BY <1>2, <1>4 DEF Rest
<1>6. Group(ks, i + 1) = SubSeq(ks, a + 1, a + FieldCount)
  <2>1. (i + 1) - 1 = i
    OBVIOUS
  <2>2. QED
    BY <1>2, <2>1 DEF Group
<1> HIDE DEF a, L, g
<1>7. CASE i < m
  <2>1. a + FieldCount <= L
    BY <1>2, <1>7
  <2>2. /\ g \in Seq(U) /\ Len(g) = L - a
        /\ \A x \in 1 .. L - a : g[x] = ks[a + x]
    BY <1>1, <1>2, <1>3, <1>4, <2>1
  <2>3. g # <<>> /\ FieldCount <= Len(g)
    BY <1>1, <1>2, <2>1, <2>2
  <2>4. Take(g, FieldCount) = SubSeq(g, 1, FieldCount) /\ Len(Take(g, FieldCount)) = FieldCount
    BY <1>1, <2>2, <2>3 DEF Take
  <2>5. SubSeq(g, 1, FieldCount) = SubSeq(ks, a + 1, a + FieldCount)
    <3> DEFINE s == SubSeq(g, 1, FieldCount)
               u == SubSeq(ks, a + 1, a + FieldCount)
    <3>1. s \in Seq(U) /\ Len(s) = FieldCount /\ \A x \in 1 .. FieldCount : s[x] = g[x]
      BY <1>1, <2>2, <2>3
    <3>2. u \in Seq(U) /\ Len(u) = FieldCount /\ \A x \in 1 .. FieldCount : u[x] = ks[a + x]
      BY <1>1, <1>2, <1>3, <1>4, <2>1
    <3> HIDE DEF s, u
    <3>3. \A x \in 1 .. FieldCount : s[x] = u[x]
      BY <1>1, <1>2, <2>1, <2>2, <3>1, <3>2
    <3>4. s = u
      BY <3>1, <3>2, <3>3, SeqEqual
    <3>5. QED
      BY <3>4 DEF s, u
  <2>6. SubSeq(g, FieldCount + 1, Len(g)) = SubSeq(ks, a + FieldCount + 1, L)
    <3> DEFINE s == SubSeq(g, FieldCount + 1, Len(g))
               u == SubSeq(ks, a + FieldCount + 1, L)
               n == L - a - FieldCount
    <3>1. n \in Nat
      BY <1>1, <1>2, <2>1
    <3>2. s \in Seq(U) /\ Len(s) = n /\ \A x \in 1 .. n : s[x] = g[FieldCount + x]
      BY <1>1, <1>2, <2>1, <2>2, <2>3
    <3>3. u \in Seq(U) /\ Len(u) = n /\ \A x \in 1 .. n : u[x] = ks[a + FieldCount + x]
      <4> DEFINE b == a + FieldCount
      <4>1. b \in Nat /\ b <= L /\ n = L - b /\ u = SubSeq(ks, b + 1, L)
        BY <1>1, <1>2, <2>1
      <4> HIDE DEF b, u, n
      <4>2. u \in Seq(U) /\ Len(u) = n /\ \A x \in 1 .. n : u[x] = ks[b + x]
        BY <1>2, <1>3, <1>4, <4>1
      <4>3. QED
        BY <4>2 DEF b
    <3>4. \A x \in 1 .. n : s[x] = u[x]
      BY <1>1, <1>2, <2>1, <2>2, <3>2, <3>3
    <3> HIDE DEF s, u, n
    <3>5. s = u
      BY <3>1, <3>2, <3>3, <3>4, SeqEqual
    <3>6. QED
      BY <3>5 DEF s, u
  <2>7. Take(g, FieldCount) = Group(ks, i + 1)
    BY <1>6, <2>4, <2>5
  <2>8. SubSeq(g, Len(Take(g, FieldCount)) + 1, Len(g)) = Rest(ks, i + 1)
    BY <1>5, <2>4, <2>6
  <2>9. i < m /\ ~ (m <= i)
    BY <1>7
  <2>10. QED
    BY <2>3, <2>7, <2>8, <2>9 DEF g
<1>8. CASE m <= i
  <2>1. L <= a
    BY <1>2, <1>8
  <2>2. g = <<>> /\ SubSeq(ks, a + FieldCount + 1, L) = <<>>
    BY <1>1, <1>2, <1>3, <1>4, <2>1
  <2>3. Take(g, FieldCount) = <<>>
    BY <1>1, <2>2 DEF Take
  <2>4. SubSeq(g, 1, 0) = <<>> /\ Len(g) = 0
    BY <2>2
  <2>5. SubSeq(g, Len(Take(g, FieldCount)) + 1, Len(g)) = Rest(ks, i + 1)
    <3>1. Len(Take(g, FieldCount)) + 1 = 1 /\ Len(g) = 0
      BY <2>2, <2>3
    <3>2. QED
      BY <1>5, <2>2, <2>4, <3>1
  <2>6. ~ (i < m)
    BY <1>8
  <2>7. QED
    BY <2>2, <2>5, <2>6 DEF g
<1>9. QED
  BY <1>7, <1>8

\* The rows of a scan for all fields are the records, whole and in order.
LEMMA CompRowsAll ==
  ASSUME NEW U, NEW ks \in Seq(U), NEW m \in Nat, Len(ks) = m * FieldCount,
         NEW r, \A i \in 1 .. m : IsRow(r[i]) /\ FieldsAt(Group(ks, i)) = r[i],
         NEW len \in Nat
  PROVE  CompRows(ks, len, AllFields) = [i \in 1 .. (IF len < m THEN len ELSE m) |-> r[i]]
<1> DEFINE walk(rest) == Walk(Take(rest, FieldCount), AllFields)
           next(s) == SubSeq(s, Len(Take(s, FieldCount)) + 1, Len(s))
           F(g) == [i \in 0 .. len |->
                      IF i = 0 THEN ks
                      ELSE SubSeq(g[i - 1], Len(walk(g[i - 1])) + 1, Len(g[i - 1]))]
           rest == CHOOSE g : g = F(g)
           h == [i \in 0 .. len |-> Rest(ks, i)]
           n == IF len < m THEN len ELSE m
           count == Cardinality({i \in 1 .. len : rest[i - 1] # <<>>})
<1>1. \A s : walk(s) = Take(s, FieldCount)
  BY DEF Walk
<1> HIDE DEF walk
<1>2. \A g : F(g) = [i \in 0 .. len |-> IF i = 0 THEN ks ELSE next(g[i - 1])]
  BY <1>1
<1> HIDE DEF F
<1>3. Rest(ks, 0) = ks
  <2>1. 0 * FieldCount + 1 = 1
    BY FieldTypes
  <2>2. SubSeq(ks, 1, Len(ks)) = ks
    OBVIOUS
  <2>3. QED
    BY <2>1, <2>2 DEF Rest
<1>4. ASSUME NEW i \in 1 .. len PROVE Rest(ks, i) = next(Rest(ks, i - 1))
  <2> DEFINE j == i - 1
  <2>1. j \in Nat /\ i = j + 1
    OBVIOUS
  <2> HIDE DEF j
  <2>2. next(Rest(ks, j)) = Rest(ks, j + 1)
    BY <2>1, RestStep
  <2>3. QED
    BY <2>1, <2>2 DEF j
<1> HIDE DEF next
<1>5. h = F(h)
  <2>1. \A i \in 0 .. len : i # 0 => i \in 1 .. len /\ h[i - 1] = Rest(ks, i - 1)
    OBVIOUS
  <2>2. \A i \in 0 .. len :
          Rest(ks, i) = IF i = 0 THEN ks ELSE next(h[i - 1])
    BY <1>3, <1>4, <2>1
  <2> HIDE DEF h
  <2>3. h = [i \in 0 .. len |-> IF i = 0 THEN ks ELSE next(h[i - 1])]
    BY <2>2 DEF h
  <2>4. QED
    BY <1>2, <2>3
<1>6. rest = F(rest)
  BY <1>5
<1> HIDE DEF h, rest
<1>7. \A i \in 0 .. len : rest[i] = Rest(ks, i)
  <2> DEFINE k == [i \in 0 .. len |-> Rest(ks, i)]
  <2>1. rest[0] = ks
    BY <1>2, <1>6
  <2>2. \A i \in 1 .. len : rest[i] = next(rest[i - 1])
    <3> SUFFICES ASSUME NEW i \in 1 .. len PROVE rest[i] = next(rest[i - 1])
      OBVIOUS
    <3>1. i \in 0 .. len /\ i # 0
      OBVIOUS
    <3>2. F(rest)[i] = next(rest[i - 1])
      BY <1>2, <3>1
    <3>3. QED
      BY <1>6, <3>2
  <2>3. k[0] = ks /\ \A i \in 1 .. len : k[i - 1] = Rest(ks, i - 1) /\ k[i] = Rest(ks, i)
    BY <1>3
  <2> HIDE DEF k
  <2>4. \A i \in 1 .. len : rest[i - 1] = k[i - 1] => rest[i] = k[i]
    BY <1>4, <2>2, <2>3
  <2>5. StepAlike(rest, k, len)
    BY <2>1, <2>3, <2>4 DEF StepAlike
  <2>6. Agree(rest, k, len)
    <3>1. len \in Nat
      OBVIOUS
    <3> HIDE DEF n, count
    <3>2. QED
      BY ONLY <2>5, <3>1, SameWalk
  <2>7. QED
    BY <2>6 DEF k, Agree
<1>8. ASSUME NEW i \in 1 .. len
      PROVE  /\ rest[i - 1] = Rest(ks, i - 1)
             /\ rest[i - 1] # <<>> <=> i <= m
             /\ i <= m => walk(rest[i - 1]) = Group(ks, i)
  <2> DEFINE j == i - 1
  <2>1. j \in Nat /\ i = j + 1 /\ j \in 0 .. len
    OBVIOUS
  <2> HIDE DEF j
  <2>2. rest[j] = Rest(ks, j)
    BY <1>7, <2>1
  <2>3. /\ j < m => Rest(ks, j) # <<>> /\ Take(Rest(ks, j), FieldCount) = Group(ks, j + 1)
        /\ m <= j => Rest(ks, j) = <<>>
    BY <2>1, RestStep
  <2>4. (i <= m <=> j < m) /\ (j < m \/ m <= j)
    BY <2>1
  <2>5. QED
    BY <1>1, <2>1, <2>2, <2>3, <2>4 DEF j
<1>9. count = n
  <2>1. n \in Nat /\ {i \in 1 .. len : rest[i - 1] # <<>>} = 1 .. n
    BY <1>8
  <2> HIDE DEF n
  <2>2. Cardinality(1 .. n) = n
    BY <2>1, FS_Interval
  <2>3. QED
    BY <2>1, <2>2
<1>10. ASSUME NEW i \in 1 .. n
       PROVE  Filter(FieldsAt(walk(rest[i - 1])), AllFields) = r[i]
  <2>1. i \in 1 .. len /\ i <= m /\ i \in 1 .. m
    OBVIOUS
  <2>2. FieldsAt(walk(rest[i - 1])) = r[i] /\ IsPrefix(r[i])
    BY <1>8, <2>1 DEF IsRow
  <2>3. QED
    BY <2>2, FilterAll
<1>11. CompRows(ks, len, AllFields)
         = [i \in 1 .. count |-> Filter(FieldsAt(walk(rest[i - 1])), AllFields)]
  BY DEF CompRows, rest, F, walk
<1> HIDE DEF n, count
<1>12. CompRows(ks, len, AllFields) = [i \in 1 .. n |-> r[i]]
  BY <1>9, <1>10, <1>11
<1>13. QED
  BY <1>12 DEF n

LEMMA ListForm ==
  ASSUME NEW fields \in FieldLists
  PROVE  /\ fields = AllFields \/ \E f \in FieldNames : fields = <<f>>
         /\ Len(fields) \in Nat /\ DOMAIN fields = 1 .. Len(fields)
         /\ \A i \in DOMAIN fields : fields[i] \in FieldNames
<1>1. fields = AllFields \/ \E f \in FieldNames : fields = <<f>>
  BY ListsAssumption
<1>2. CASE fields = AllFields
  BY <1>1, <1>2, FieldTypes DEF AllFields
<1>3. CASE \E f \in FieldNames : fields = <<f>>
  BY <1>1, <1>3
<1>4. QED
  BY <1>1, <1>2, <1>3

\* Out of a whole record, a walk gets every field it wants.
LEMMA FilterRow ==
  ASSUME NEW row, IsRow(row), NEW fields \in FieldLists
  PROVE  /\ Filter(row, fields) = Columns(RecordOf(row), fields)
         /\ fields = AllFields => row = Columns(RecordOf(row), fields)
<1>1. /\ row \in [1 .. FieldCount -> NamedValues]
      /\ \A i \in 1 .. FieldCount : row[i] = [name |-> i - 1, value |-> row[i].value]
  BY RowFields
<1>2. IsPrefix(row) /\ Len(row) = FieldCount
  BY DEF IsRow
<1>3. ASSUME fields = AllFields
      PROVE  row = Columns(RecordOf(row), fields)
  <2>1. DOMAIN fields = 1 .. FieldCount /\ \A i \in 1 .. FieldCount : fields[i] = i - 1
    BY <1>3, FieldTypes DEF AllFields
  <2>2. \A i \in 1 .. FieldCount : RecordOf(row)[fields[i]] = row[i].value
    BY <2>1, FieldTypes DEF RecordOf
  <2> DEFINE c == Columns(RecordOf(row), fields)
  <2>3. c = [i \in 1 .. FieldCount |-> [name |-> i - 1, value |-> row[i].value]]
    BY <2>1, <2>2 DEF Columns
  <2> HIDE DEF c
  <2>4. c = row
    BY <1>1, <2>3
  <2>5. QED
    BY <2>4 DEF c
<1>4. ASSUME NEW f \in FieldNames, fields = <<f>>
      PROVE  Filter(row, fields) = Columns(RecordOf(row), fields)
  <2>1. Filter(row, fields) = <<row[f + 1]>>
    <3>1. f < Len(row)
      BY <1>2 DEF FieldNames
    <3>2. QED
      BY <1>2, <1>4, <3>1, FilterOne
  <2>2. row[f + 1] = [name |-> f, value |-> row[f + 1].value]
    <3>1. f + 1 \in 1 .. FieldCount /\ (f + 1) - 1 = f
      BY FieldTypes
    <3>2. QED
      BY <1>1, <3>1
  <2>3. Columns(RecordOf(row), fields) = <<[name |-> f, value |-> row[f + 1].value]>>
    <3>1. RecordOf(row)[f] = row[f + 1].value
      BY DEF RecordOf
    <3>2. DOMAIN fields = 1 .. 1 /\ fields[1] = f
      BY <1>4
    <3>3. QED
      BY <3>1, <3>2 DEF Columns
  <2>4. QED
    BY <2>1, <2>2, <2>3
<1>5. QED
  BY <1>2, <1>3, <1>4, FilterAll, ListForm

\* The same of the composite entries of a record, read until the last field
\* that is wanted.
LEMMA CompRead ==
  ASSUME NEW U, NEW ks \in Seq(U), Len(ks) = FieldCount,
         NEW row, IsRow(row), FieldsAt(ks) = row, NEW fields \in FieldLists
  PROVE  Filter(FieldsAt(Walk(ks, fields)), fields) = Columns(RecordOf(row), fields)
<1>1. CASE fields = AllFields
  <2>1. Walk(ks, fields) = ks
    BY <1>1 DEF Walk
  <2>2. QED
    BY <2>1, FilterRow
<1>2. ASSUME NEW f \in FieldNames, fields = <<f>>, fields # AllFields
      PROVE  Filter(FieldsAt(Walk(ks, fields)), fields) = Columns(RecordOf(row), fields)
  <2> DEFINE got(n) == Filter(FieldsAt(Take(ks, n)), fields)
             full == {n \in 1 .. Len(ks) : Len(got(n)) = Len(fields)}
  <2>1. ASSUME NEW n \in 1 .. FieldCount
        PROVE  got(n) = IF f < n THEN <<row[f + 1]>> ELSE <<>>
    <3> DEFINE s == SubSeq(row, 1, n)
               t == Take(ks, n)
    <3>1. row \in Seq(NamedValues) /\ Len(row) = FieldCount /\ FieldCount \in Nat
      BY FieldTypes DEF IsRow, IsPrefix
    <3>2. Len(s) = n /\ s \in Seq(NamedValues) /\ \A i \in 1 .. n : s[i] = row[i]
      BY <3>1
    <3>3. IsPrefix(s)
      BY <3>1, <3>2 DEF IsRow, IsPrefix
    <3>4. t = SubSeq(ks, 1, n)
      BY <3>1 DEF Take
    <3>5. DOMAIN t = 1 .. n /\ \A i \in 1 .. n : t[i] = ks[i]
      BY <3>1, <3>4
    <3>6. DOMAIN ks = 1 .. FieldCount
      BY <3>1
    <3> HIDE DEF s, t
    <3>7. FieldsAt(t) = [i \in 1 .. n |->
                           [name |-> FieldFromCompKey(ks[i]), value |-> entries[ks[i]]]]
      BY <3>5 DEF FieldsAt
    <3>8. \A i \in 1 .. FieldCount :
            row[i] = [name |-> FieldFromCompKey(ks[i]), value |-> entries[ks[i]]]
      BY <3>6 DEF FieldsAt
    <3>9. s = FieldsAt(t)
      BY <3>1, <3>2, <3>7, <3>8
    <3>10. Filter(s, <<f>>) = IF f < n THEN <<s[f + 1]>> ELSE <<>>
      BY <3>2, <3>3, FilterOne
    <3>11. f < n => s[f + 1] = row[f + 1]
      BY <3>1, <3>2, FieldTypes
    <3>12. QED
      BY <1>2, <3>9, <3>10, <3>11 DEF t
  <2> HIDE DEF got
  <2>2. Len(fields) = 1 /\ FieldCount \in Nat /\ f \in Nat /\ f + 1 \in 1 .. FieldCount
    BY <1>2, FieldTypes
  <2>3. full = {n \in 1 .. FieldCount : f < n}
    <3>1. \A n \in 1 .. FieldCount : Len(got(n)) = 1 <=> f < n
      <4> SUFFICES ASSUME NEW n \in 1 .. FieldCount PROVE Len(got(n)) = 1 <=> f < n
        OBVIOUS
      <4>1. Len(<<row[f + 1]>>) = 1 /\ Len(<<>>) = 0
        OBVIOUS
      <4>2. CASE f < n
        <5>1. got(n) = <<row[f + 1]>>
          BY <2>1, <4>2
        <5>2. QED
          BY <4>1, <4>2, <5>1
      <4>3. CASE ~ (f < n)
        <5>1. got(n) = <<>>
          BY <2>1, <4>3
        <5>2. QED
          BY <4>1, <4>3, <5>1
      <4>4. QED
        BY <4>2, <4>3
    <3>2. QED
      BY <2>2, <3>1
  <2> HIDE DEF full
  <2>4. (CHOOSE n \in full : \A m \in full : n <= m) = f + 1
    BY <2>2, <2>3
  <2>5. full # {}
    <3>1. f + 1 \in full
      BY <2>2, <2>3
    <3>2. QED
      BY <3>1
  <2>6. Walk(ks, fields) = Take(ks, f + 1)
    BY <1>2, <2>4, <2>5 DEF Walk, full, got
  <2>7. got(f + 1) = <<row[f + 1]>>
    BY <2>1, <2>2
  <2>8. Filter(row, fields) = <<row[f + 1]>>
    <3>1. f < Len(row) /\ IsPrefix(row)
      BY <2>2 DEF IsRow
    <3>2. QED
      BY <1>2, <3>1, FilterOne
  <2>9. QED
    BY <2>6, <2>7, <2>8, FilterRow DEF got
<1>3. QED
  BY <1>1, <1>2, ListForm

-----------------------------------------------------------------------------
(* What an engine stores, and the records it stands for.                   *)

\* An entry as the format has it
IsEntry(format, data) ==
  /\ format = "single" => IsRow(DeserializeRow(data))
  /\ format = "table"  => data \in [FieldNames -> Values]
  /\ format = "row"    => data \in Values

\* The entries e are those of records under the keys.
Shaped(format, keys, e) ==
  /\ IsFiniteSet(DOMAIN e)
  /\ DOMAIN e \subseteq IF format = "row" THEN UNION {CompKeys(k) : k \in keys} ELSE keys
  /\ \A a \in DOMAIN e : IsEntry(format, e[a])

\* No record has some of its fields only.
Whole(format, keys, e) ==
  format = "row" =>
    \A k \in keys : CompKeys(k) \subseteq DOMAIN e \/ CompKeys(k) \cap DOMAIN e = {}

\* The keys with records
Held(format, keys, e) ==
  IF format = "row" THEN {k \in keys : CompKeys(k) \subseteq DOMAIN e} ELSE DOMAIN e

\* The values of an entry by field
Content(format, data) ==
  IF format = "table" THEN data ELSE RecordOf(DeserializeRow(data))

View(format, keys, e, k) ==
  IF k \notin Held(format, keys, e) THEN <<>>
  ELSE IF format = "row" THEN [f \in FieldNames |-> e[BuildCompKey(k, f)]]
       ELSE Content(format, e[k])

Formats == {"single", "row", "table"}

\* RecordAt, of any entries
RawRecord(format, e, k) ==
  LET fields == IF format = "row" THEN {c \in CompKeys(k) : c \in DOMAIN e}
                ELSE {k} \cap DOMAIN e
  IN  IF fields = {} THEN <<>>
      ELSE CASE format = "row" ->
                  [f \in {FieldFromCompKey(c) : c \in fields} |-> e[BuildCompKey(k, f)]]
             [] format = "table" -> e[k]
             [] OTHER ->
                  LET row == DeserializeRow(e[k])
                  IN  [f \in Named(row) |-> ValueOf(row, f)]

LEMMA ViewIsRecord ==
  ASSUME NEW format \in Formats, NEW keys \in SUBSET Keys, NEW e,
         Shaped(format, keys, e), Whole(format, keys, e), NEW k \in Keys
  PROVE  RawRecord(format, e, k) = View(format, keys, e, k)
<1>1. CASE format = "row"
  <2> DEFINE fields == {c \in CompKeys(k) : c \in DOMAIN e}
  <2>1. CASE k \in keys /\ CompKeys(k) \subseteq DOMAIN e
    <3>1. fields = CompKeys(k) /\ k \in Held(format, keys, e)
      BY <1>1, <2>1 DEF Held
    <3>2. {FieldFromCompKey(c) : c \in CompKeys(k)} = FieldNames
      BY CompKeyParts DEF CompKeys
    <3>3. CompKeys(k) # {}
      BY FieldTypes DEF CompKeys
    <3> HIDE DEF fields
    <3>4. RawRecord(format, e, k) =
            IF fields = {} THEN <<>>
            ELSE [f \in {FieldFromCompKey(c) : c \in fields} |-> e[BuildCompKey(k, f)]]
      BY <1>1 DEF RawRecord, fields
    <3>5. QED
      BY <1>1, <3>1, <3>2, <3>3, <3>4 DEF View
  <2>2. CASE ~ (k \in keys /\ CompKeys(k) \subseteq DOMAIN e)
    <3>1. k \notin Held(format, keys, e)
      BY <1>1, <2>2 DEF Held
    <3>2. CompKeys(k) \cap DOMAIN e = {}
      <4>1. CASE k \in keys
        BY <1>1, <2>2, <4>1 DEF Whole
      <4>2. CASE k \notin keys
        <5>1. \A j \in keys : CompKeys(j) \cap CompKeys(k) = {}
          BY <4>2, CompKeysApart
        <5>2. DOMAIN e \subseteq UNION {CompKeys(j) : j \in keys}
          BY <1>1 DEF Shaped
        <5>3. QED
          BY <5>1, <5>2
      <4>3. QED
        BY <4>1, <4>2
    <3>3. QED
      BY <1>1, <3>1, <3>2 DEF RawRecord, View
  <2>3. QED
    BY <2>1, <2>2
<1>2. CASE format # "row"
  <2>1. Held(format, keys, e) = DOMAIN e
    BY <1>2 DEF Held
  <2>2. CASE k \notin DOMAIN e
    BY <1>2, <2>1, <2>2 DEF RawRecord, View
  <2>3. CASE k \in DOMAIN e /\ format = "table"
    BY <1>2, <2>1, <2>3 DEF RawRecord, View, Content
  <2>4. CASE k \in DOMAIN e /\ format = "single"
    <3> DEFINE row == DeserializeRow(e[k])
    <3>1. IsRow(row)
      BY <2>4 DEF Shaped, IsEntry
    <3> HIDE DEF row
    <3>2. [f \in Named(row) |-> ValueOf(row, f)] = RecordOf(row)
      BY <3>1, RowFields
    <3>3. QED
      BY <1>2, <2>1, <2>4, <3>2 DEF RawRecord, View, Content, row
  <2>5. QED
    BY <1>2, <2>2, <2>3, <2>4 DEF Formats
<1>3. QED
  BY <1>1, <1>2

\* Only <<>> stands for no record.
LEMMA HeldIsPresent ==
  ASSUME NEW format \in Formats, NEW keys \in SUBSET Keys, NEW e,
         Shaped(format, keys, e)
  PROVE  /\ Held(format, keys, e) \subseteq keys
         /\ \A k \in Keys : View(format, keys, e, k) # <<>> <=> k \in Held(format, keys, e)
         /\ \A k \in Held(format, keys, e) :
              DOMAIN View(format, keys, e, k) = FieldNames
<1>1. Held(format, keys, e) \subseteq keys
  BY DEF Held, Shaped
<1>2. ASSUME NEW k \in Held(format, keys, e)
      PROVE  DOMAIN View(format, keys, e, k) = FieldNames
  <2>1. CASE format = "row"
    BY <2>1 DEF View
  <2>2. CASE format = "table"
    <3>1. k \in DOMAIN e /\ e[k] \in [FieldNames -> Values]
      BY <2>2 DEF Held, Shaped, IsEntry
    <3>2. QED
      BY <2>2, <3>1 DEF View, Content
  <2>3. CASE format = "single"
    BY <2>3 DEF View, Content, RecordOf
  <2>4. QED
    BY <2>1, <2>2, <2>3 DEF Formats
<1>3. FieldNames # {} /\ DOMAIN <<>> = {}
  BY FieldTypes
<1>4. \A k \in Keys : k \notin Held(format, keys, e) => View(format, keys, e, k) = <<>>
  BY DEF View
<1>5. QED
  BY <1>1, <1>2, <1>3, <1>4

\* From the entries e to d the record under k becomes the given one, and no
\* other record changes.
Becomes(format, keys, e, d, k, record) ==
  /\ Whole(format, keys, d)
  /\ \A j \in Keys :
       View(format, keys, d, j) = IF j = k THEN record ELSE View(format, keys, e, j)

\* Entries under other keys stay.
Keeps(e, d, k) == \A j \in DOMAIN e \ {k} : j \in DOMAIN d /\ d[j] = e[j]

LEMMA PutStep ==
  ASSUME NEW format \in Formats, format # "row", NEW keys \in SUBSET Keys, NEW e,
         Shaped(format, keys, e), NEW k \in keys, NEW data, IsEntry(format, data),
         NEW d, d = [a \in DOMAIN e \cup {k} |-> IF a = k THEN data ELSE e[a]]
  PROVE  /\ Shaped(format, keys, d)
         /\ Becomes(format, keys, e, d, k, Content(format, data))
         /\ Keeps(e, d, k)
<1>1. DOMAIN d = DOMAIN e \cup {k} /\ d[k] = data /\ \A a \in DOMAIN e \ {k} : d[a] = e[a]
  OBVIOUS
<1>2. IsFiniteSet(DOMAIN d)
  BY <1>1, FS_AddElement DEF Shaped
<1>3. Shaped(format, keys, d)
  BY <1>1, <1>2 DEF Shaped
<1>4. Held(format, keys, e) = DOMAIN e /\ Held(format, keys, d) = DOMAIN d
  BY DEF Held
<1>5. ASSUME NEW j \in Keys
      PROVE  View(format, keys, d, j) =
               IF j = k THEN Content(format, data) ELSE View(format, keys, e, j)
  BY <1>1, <1>4 DEF View
<1>6. QED
  BY <1>1, <1>3, <1>5 DEF Becomes, Keeps, Whole

LEMMA ChangedStep ==
  ASSUME NEW keys \in SUBSET Keys, NEW e, Shaped("table", keys, e),
         NEW k \in keys, NEW w \in Writes, NEW d,
         d = [a \in DOMAIN e |->
                [f \in FieldNames |->
                   IF a = k /\ f \in Named(w) THEN ValueOf(w, f) ELSE e[a][f]]],
         NEW record,
         record = IF k \in DOMAIN e
                  THEN [f \in FieldNames |->
                          IF f \in Named(w) THEN ValueOf(w, f) ELSE e[k][f]]
                  ELSE <<>>
  PROVE  /\ Shaped("table", keys, d)
         /\ Becomes("table", keys, e, d, k, record)
<1>1. DOMAIN d = DOMAIN e
  OBVIOUS
<1>2. ASSUME NEW a \in DOMAIN e
      PROVE  /\ d[a] = IF a = k THEN record ELSE e[a]
             /\ d[a] \in [FieldNames -> Values]
  <2>1. e[a] \in [FieldNames -> Values]
    BY DEF Shaped, IsEntry
  <2>2. CASE a = k
    <3>1. d[a] = [f \in FieldNames |-> IF f \in Named(w) THEN ValueOf(w, f) ELSE e[k][f]]
      BY <2>2
    <3>2. \A f \in FieldNames : (IF f \in Named(w) THEN ValueOf(w, f) ELSE e[k][f]) \in Values
      BY <2>1, <2>2, WriteFields
    <3>3. d[a] = record
      BY <2>2, <3>1
    <3>4. QED
      BY <2>2, <3>1, <3>2, <3>3
  <2>3. CASE a # k
    <3>1. d[a] = [f \in FieldNames |-> e[a][f]]
      BY <2>3
    <3>2. d[a] = e[a]
      BY <2>1, <3>1
    <3>3. QED
      BY <2>1, <2>3, <3>2
  <2>4. QED
    BY <2>2, <2>3
<1>3. Shaped("table", keys, d)
  BY <1>1, <1>2 DEF Shaped, IsEntry
<1>4. Held("table", keys, e) = DOMAIN e /\ Held("table", keys, d) = DOMAIN d
  BY DEF Held
<1>5. k \notin DOMAIN e => record = <<>>
  OBVIOUS
<1>6. ASSUME NEW j \in Keys
      PROVE  View("table", keys, d, j) = IF j = k THEN record ELSE View("table", keys, e, j)
  BY <1>1, <1>2, <1>4, <1>5 DEF View, Content
<1>7. QED
  BY <1>3, <1>6 DEF Becomes, Whole

\* A write batch
BatchOf(k, w) == {BuildCompKey(k, f) : f \in Named(w)}

LEMMA BatchStep ==
  ASSUME NEW keys \in SUBSET Keys, NEW e, Shaped("row", keys, e),
         NEW k \in keys, NEW w \in Writes, NEW d,
         d = [c \in DOMAIN e \cup BatchOf(k, w) |->
                IF c \in BatchOf(k, w) THEN ValueOf(w, FieldFromCompKey(c)) ELSE e[c]]
  PROVE  /\ Shaped("row", keys, d)
         /\ Whole("row", keys, e) /\ (k \in Held("row", keys, e) \/ Named(w) = FieldNames)
              => Becomes("row", keys, e, d, k,
                         [f \in FieldNames |->
                            IF f \in Named(w) THEN ValueOf(w, f) ELSE e[BuildCompKey(k, f)]])
<1> DEFINE B == BatchOf(k, w)
           new(f) == IF f \in Named(w) THEN ValueOf(w, f) ELSE e[BuildCompKey(k, f)]
<1>1. B \subseteq CompKeys(k) /\ Named(w) \subseteq FieldNames
  BY WriteFields DEF CompKeys, BatchOf
<1>2. /\ DOMAIN d = DOMAIN e \cup B
      /\ \A c \in B : d[c] = ValueOf(w, FieldFromCompKey(c))
      /\ \A c \in DOMAIN e \ B : d[c] = e[c]
  OBVIOUS
<1>3. \A c \in B : FieldFromCompKey(c) \in Named(w)
  BY <1>1, CompKeyParts DEF BatchOf
<1>4. \A f \in FieldNames : BuildCompKey(k, f) \in B <=> f \in Named(w)
  <2>1. \A f, g \in FieldNames : BuildCompKey(k, f) = BuildCompKey(k, g) => f = g
    BY CompKeysApart
  <2>2. QED
    BY <1>1, <2>1 DEF BatchOf
<1> HIDE DEF B
<1>5. Shaped("row", keys, d)
  <2>1. IsFiniteSet(B)
    BY <1>1, CompKeysApart, FS_Subset
  <2>2. IsFiniteSet(DOMAIN d)
    BY <1>2, <2>1, FS_Union DEF Shaped
  <2>3. DOMAIN d \subseteq UNION {CompKeys(j) : j \in keys}
    BY <1>1, <1>2 DEF Shaped
  <2>4. \A c \in DOMAIN d : d[c] \in Values
    <3>1. \A c \in B : d[c] \in Values
      BY <1>2, <1>3, WriteFields
    <3>2. \A c \in DOMAIN e : e[c] \in Values
      BY DEF Shaped, IsEntry
    <3>3. QED
      BY <1>2, <3>1, <3>2
  <2>5. QED
    BY <2>2, <2>3, <2>4 DEF Shaped, IsEntry
<1>6. ASSUME Whole("row", keys, e), k \in Held("row", keys, e) \/ Named(w) = FieldNames
      PROVE  Becomes("row", keys, e, d, k, [f \in FieldNames |-> new(f)])
  <2>1. \A j \in keys \ {k} : CompKeys(j) \cap B = {}
    BY <1>1, CompKeysApart
  <2>2. CompKeys(k) \subseteq DOMAIN d
    <3>1. Named(w) = FieldNames => CompKeys(k) \subseteq B
      BY <1>4 DEF CompKeys
    <3>2. QED
      BY <1>2, <1>6, <3>1 DEF Held
  <2>3. Whole("row", keys, d)
    BY <1>2, <1>6, <2>1, <2>2 DEF Whole
  <2>4. View("row", keys, d, k) = [f \in FieldNames |-> new(f)]
    <3>1. k \in Held("row", keys, d)
      BY <2>2 DEF Held
    <3>2. ASSUME NEW f \in FieldNames PROVE d[BuildCompKey(k, f)] = new(f)
      <4>1. BuildCompKey(k, f) \in DOMAIN d /\ FieldFromCompKey(BuildCompKey(k, f)) = f
        BY <2>2, CompKeyParts DEF CompKeys
      <4>2. QED
        BY <1>2, <1>4, <4>1
    <3> HIDE DEF new
    <3>3. QED
      BY <3>1, <3>2 DEF View
  <2>5. ASSUME NEW j \in Keys, j # k
        PROVE  View("row", keys, d, j) = View("row", keys, e, j)
    <3>1. j \in Held("row", keys, d) <=> j \in Held("row", keys, e)
      BY <1>2, <2>1, <2>5 DEF Held
    <3>2. CASE j \in Held("row", keys, e)
      <4>1. \A f \in FieldNames :
              BuildCompKey(j, f) \in CompKeys(j) /\ BuildCompKey(j, f) \in DOMAIN e
        BY <3>2 DEF Held, CompKeys
      <4>2. j \in keys \ {k}
        BY <2>5, <3>2 DEF Held
      <4>3. \A f \in FieldNames : d[BuildCompKey(j, f)] = e[BuildCompKey(j, f)]
        BY <1>2, <2>1, <4>1, <4>2
      <4>4. QED
        BY <3>1, <3>2, <4>3 DEF View
    <3>3. CASE j \notin Held("row", keys, e)
      BY <3>1, <3>3 DEF View
    <3>4. QED
      BY <3>2, <3>3
  <2> HIDE DEF new
  <2>6. QED
    BY <2>3, <2>4, <2>5 DEF Becomes
<1>7. QED
  BY <1>5, <1>6

\* Erasing
Goners(format, k) == IF format = "row" THEN CompKeys(k) ELSE {k}

LEMMA EraseStep ==
  ASSUME NEW format \in Formats, NEW keys \in SUBSET Keys, NEW e,
         Shaped(format, keys, e), NEW k \in keys, NEW d,
         d = [a \in DOMAIN e \ Goners(format, k) |-> e[a]]
  PROVE  /\ Shaped(format, keys, d)
         /\ Whole(format, keys, e) => Becomes(format, keys, e, d, k, <<>>)
         /\ format # "row" => Keeps(e, d, k)
<1>1. DOMAIN d = DOMAIN e \ Goners(format, k) /\ \A a \in DOMAIN d : d[a] = e[a]
  OBVIOUS
<1>2. IsFiniteSet(DOMAIN d)
  BY <1>1, FS_Subset DEF Shaped
<1>3. Shaped(format, keys, d)
  BY <1>1, <1>2 DEF Shaped
<1>4. CASE format # "row"
  <2>1. Goners(format, k) = {k} /\ Held(format, keys, e) = DOMAIN e /\ Held(format, keys, d) = DOMAIN d
    BY <1>4 DEF Goners, Held
  <2>2. \A j \in Keys : View(format, keys, d, j) = IF j = k THEN <<>> ELSE View(format, keys, e, j)
    BY <1>1, <1>4, <2>1 DEF View
  <2>3. QED
    BY <1>1, <1>3, <1>4, <2>1, <2>2 DEF Becomes, Keeps, Whole
<1>5. CASE format = "row"
  <2>1. Goners(format, k) = CompKeys(k)
    BY <1>5 DEF Goners
  <2>2. \A j \in keys \ {k} : CompKeys(j) \cap CompKeys(k) = {}
    BY CompKeysApart
  <2>3. SUFFICES ASSUME Whole(format, keys, e)
                 PROVE  Becomes(format, keys, e, d, k, <<>>)
    BY <1>3, <1>5
  <2>4. CompKeys(k) \cap DOMAIN d = {} /\ CompKeys(k) # {}
    BY <1>1, <2>1, FieldTypes DEF CompKeys
  <2>5. Whole(format, keys, d)
    BY <1>1, <1>5, <2>1, <2>2, <2>3, <2>4 DEF Whole
  <2>6. View(format, keys, d, k) = <<>>
    BY <1>5, <2>4 DEF View, Held
  <2>7. ASSUME NEW j \in Keys, j # k
        PROVE  View(format, keys, d, j) = View(format, keys, e, j)
    <3>1. j \in Held(format, keys, d) <=> j \in Held(format, keys, e)
      BY <1>1, <1>5, <2>1, <2>2, <2>7 DEF Held
    <3>2. CASE j \in Held(format, keys, d)
      <4>1. \A f \in FieldNames : BuildCompKey(j, f) \in DOMAIN d
        BY <1>5, <3>2 DEF Held, CompKeys
      <4>2. \A f \in FieldNames : d[BuildCompKey(j, f)] = e[BuildCompKey(j, f)]
        BY <1>1, <4>1
      <4>3. QED
        BY <1>5, <3>1, <3>2, <4>2 DEF View
    <3>3. CASE j \notin Held(format, keys, d)
      BY <3>1, <3>3 DEF View
    <3>4. QED
      BY <3>2, <3>3
  <2>8. QED
    BY <2>5, <2>6, <2>7 DEF Becomes
<1>6. QED
  BY <1>4, <1>5

-----------------------------------------------------------------------------
(* What is read of a record.                                               *)

NowHeld == Held(Format, conf.keys, entries)
NowView(k) == View(Format, conf.keys, entries, k)

\* What a reader is handed of the record under k
Delivered(k, fields) == IF Decodes THEN Columns(NowView(k), fields) ELSE <<>>

\* The choice of Init and the entries
StoreInv ==
  /\ conf \in Configs
  /\ Shaped(Format, conf.keys, entries)

WholeNow == Whole(Format, conf.keys, entries)

LEMMA ConfTypes ==
  ASSUME NEW c \in Configs
  PROVE  /\ BindingRules(c.binding)
         /\ c.binding.format \in Formats
         /\ c.keys \in SUBSET Keys
         /\ \A k \in c.keys : k \in Keys /\ k \in ByteStrings
BY ConfigsAssumption, BindingsFollowRules, KeyTypes DEF BindingRules, Formats

LEMMA StoredKeys ==
  ASSUME StoreInv, Format # "row"
  PROVE  /\ NowHeld = Stored
         /\ Stored \subseteq conf.keys
         /\ Stored \in SUBSET ByteStrings
         /\ IsFiniteSet(Stored)
<1>1. NowHeld = Stored /\ Stored \subseteq conf.keys /\ IsFiniteSet(Stored)
  BY DEF NowHeld, Held, Stored, StoreInv, Shaped
<1>2. QED
  BY <1>1, ConfTypes DEF StoreInv

LEMMA ColumnsLength ==
  ASSUME NEW record, NEW fields \in FieldLists
  PROVE  Len(Columns(record, fields)) = Len(fields)
BY ListForm DEF Columns

\* A reader of one entry gets the record.
LEMMA ReadRow ==
  ASSUME StoreInv, Format # "row", NEW k \in Stored, NEW fields \in FieldLists
  PROVE  /\ Decode(entries[k], fields) = Delivered(k, fields)
         /\ Decodes => Len(Decode(entries[k], fields)) = Len(fields)
<1>1. NowView(k) = Content(Format, entries[k])
  BY DEF NowView, View, Held, Stored
<1>2. Format = "single" \/ Format = "table"
  BY ConfTypes DEF StoreInv, Formats, Format
<1>3. IsEntry(Format, entries[k])
  BY DEF StoreInv, Shaped, Stored
<1>4. Decode(entries[k], fields) = Delivered(k, fields)
  <2>1. CASE ~ Decodes
    BY <2>1 DEF Decode, Delivered
  <2>2. CASE Decodes /\ Format = "table"
    BY <1>1, <2>2 DEF Decode, Delivered, Content
  <2>3. CASE Decodes /\ Format = "single"
    <3> DEFINE row == DeserializeRow(entries[k])
    <3>1. IsRow(row)
      BY <1>3, <2>3 DEF IsEntry
    <3>2. Decode(entries[k], fields) = IF fields = AllFields THEN row ELSE Filter(row, fields)
      BY <2>3 DEF Decode, DeserializeRowFilter
    <3>3. NowView(k) = RecordOf(row)
      BY <1>1, <2>3 DEF Content
    <3> HIDE DEF row
    <3>4. Decode(entries[k], fields) = Columns(RecordOf(row), fields)
      BY <3>1, <3>2, FilterRow
    <3>5. QED
      BY <2>3, <3>3, <3>4 DEF Delivered
  <2>4. QED
    BY <1>2, <2>1, <2>2, <2>3
<1>5. Decodes => Len(Delivered(k, fields)) = Len(fields)
  BY ColumnsLength DEF Delivered
<1>6. QED
  BY <1>4, <1>5

\* The same with composite keys
RowOf(k) ==
  [i \in 1 .. FieldCount |-> [name |-> i - 1, value |-> entries[BuildCompKey(k, i - 1)]]]

LEMMA RowOfRecord ==
  ASSUME StoreInv, Format = "row", NEW k \in NowHeld, NEW fields \in FieldLists
  PROVE  /\ IsRow(RowOf(k))
         /\ Columns(RecordOf(RowOf(k)), fields) = Delivered(k, fields)
         /\ fields = AllFields => RowOf(k) = Delivered(k, fields)
<1> DEFINE row == RowOf(k)
           value(f) == entries[BuildCompKey(k, f)]
<1>1. k \in conf.keys /\ CompKeys(k) \subseteq Stored
  BY DEF NowHeld, Held, Stored
<1>2. \A f \in FieldNames : value(f) \in Values
  <2>1. \A c \in Stored : entries[c] \in Values
    BY DEF StoreInv, Shaped, IsEntry, Stored
  <2>2. \A f \in FieldNames : BuildCompKey(k, f) \in Stored
    BY <1>1 DEF CompKeys
  <2>3. QED
    BY <2>1, <2>2
<1>3. row = [i \in 1 .. FieldCount |-> [name |-> i - 1, value |-> value(i - 1)]]
  BY DEF RowOf
<1> HIDE DEF row, value
<1>4. \A i \in 1 .. FieldCount :
        row[i] \in NamedValues /\ row[i].name = i - 1 /\ row[i].value = value(i - 1)
  <2> SUFFICES ASSUME NEW i \in 1 .. FieldCount
               PROVE  row[i] \in NamedValues /\ row[i].name = i - 1 /\ row[i].value = value(i - 1)
    OBVIOUS
  <2>1. i - 1 \in FieldNames /\ value(i - 1) \in Values
    BY <1>2, FieldTypes
  <2>2. row[i] = [name |-> i - 1, value |-> value(i - 1)]
    BY <1>3
  <2>3. QED
    BY <2>1, <2>2, NamedValue
<1>5. IsRow(row)
  <2>1. row \in [1 .. FieldCount -> NamedValues] /\ FieldCount \in Nat
    BY <1>3, <1>4, FieldTypes
  <2>2. row \in Seq(NamedValues) /\ Len(row) = FieldCount
    BY <2>1
  <2>3. QED
    BY <1>4, <2>1, <2>2 DEF IsRow, IsPrefix
<1>6. RecordOf(row) = [f \in FieldNames |-> value(f)]
  <2>1. \A f \in FieldNames : row[f + 1].value = value(f)
    <3>1. \A f \in FieldNames : f + 1 \in 1 .. FieldCount /\ (f + 1) - 1 = f
      BY FieldTypes
    <3>2. QED
      BY <1>4, <3>1
  <2>2. QED
    BY <2>1 DEF RecordOf
<1>7. NowView(k) = [f \in FieldNames |-> value(f)]
  BY DEF NowView, NowHeld, View, value
<1>8. Decodes
  BY ConfTypes DEF StoreInv, BindingRules, Decodes, Format
<1>9. RecordOf(row) = NowView(k)
  BY <1>6, <1>7
<1>10. Delivered(k, fields) = Columns(RecordOf(row), fields)
  BY <1>8, <1>9 DEF Delivered
<1>11. fields = AllFields => row = Columns(RecordOf(row), fields)
  BY <1>5, FilterRow
<1>12. QED
  BY <1>5, <1>10, <1>11 DEF row

\* The composite entries from a key on are the records from it on.
LEMMA RowWalk ==
  ASSUME StoreInv, WholeNow, Format = "row", Bearable(conf), NEW k \in conf.keys
  PROVE  /\ NowHeld \subseteq conf.keys /\ IsFiniteSet(NowHeld)
         /\ LET p == From(NowHeld, k)
                ks == From(Stored, k)
            IN  /\ p \in Seq(NowHeld)
                /\ ks \in Seq(Stored)
                /\ Len(ks) = Len(p) * FieldCount
                /\ \A i \in 1 .. Len(p) : FieldsAt(Group(ks, i)) = RowOf(p[i])
                /\ Len(p) > 0 => KeyFromCompKey(ks[1]) = p[1]
<1> DEFINE P == NowHeld
           S == Stored
           keys == conf.keys
           p == From(P, k)
           ks == From(S, k)
           m == Len(p)
<1>1. keys \in SUBSET Keys /\ PrefixFree(keys) /\ k \in keys /\ k \in ByteStrings
  BY ConfTypes DEF StoreInv, Bearable, Format
<1>2. P \in SUBSET keys /\ P = {j \in keys : CompKeys(j) \subseteq S}
  BY DEF NowHeld, Held, Stored
<1>3. IsFiniteSet(S) /\ S \subseteq UNION {CompKeys(j) : j \in keys}
  BY DEF StoreInv, Shaped, Stored
<1>4. S = UNION {CompKeys(j) : j \in P}
  <2>1. \A j \in keys : CompKeys(j) \subseteq S \/ CompKeys(j) \cap S = {}
    BY DEF WholeNow, Whole, Stored
  <2>2. QED
    BY <1>2, <1>3, <2>1
<1>5. IsFiniteSet(P)
  <2> DEFINE T == {KeyFromCompKey(c) : c \in S}
             h == [c \in S |-> KeyFromCompKey(c)]
  <2>1. h \in Surjection(S, T)
    BY DEF Surjection
  <2> HIDE DEF h
  <2>2. IsFiniteSet(T)
    BY <1>3, <2>1, FS_Surjection
  <2>3. P \subseteq T
    <3> SUFFICES ASSUME NEW j \in P PROVE j \in T
      OBVIOUS
    <3>1. j \in Keys /\ BuildCompKey(j, 0) \in CompKeys(j)
      BY <1>1, <1>2, FieldTypes DEF CompKeys
    <3>2. BuildCompKey(j, 0) \in S /\ KeyFromCompKey(BuildCompKey(j, 0)) = j
      BY <1>2, <3>1, FieldTypes, CompKeyParts
    <3>3. QED
      BY <3>2
  <2> HIDE DEF T
  <2>4. QED
    BY <2>2, <2>3, FS_Subset
<1>6. P \in SUBSET ByteStrings /\ S \in SUBSET ByteStrings
  <2>1. P \in SUBSET ByteStrings
    BY <1>1, <1>2, KeyTypes
  <2>2. \A j \in keys : CompKeys(j) \in SUBSET ByteStrings
    BY <1>1, CompKeyForm DEF CompKeys
  <2>3. QED
    BY <1>3, <2>1, <2>2
<1> HIDE DEF P, S, keys
<1>7. /\ Len(ks) = m * FieldCount
      /\ \A x \in 0 .. m * FieldCount - 1 :
           ks[x + 1] = BuildCompKey(p[(x \div FieldCount) + 1], x % FieldCount)
  BY <1>1, <1>2, <1>4, <1>5, CompWalk
<1>8. p \in Seq(P) /\ ks \in Seq(S)
  BY <1>1, <1>3, <1>5, <1>6, FromLists
<1> HIDE DEF p, ks
<1>9. m \in Nat /\ FieldCount \in 1 .. 10 /\ FieldNames = 0 .. FieldCount - 1
  BY <1>8, FieldTypes DEF FieldNames
<1>10. \A i \in 1 .. m : p[i] \in P /\ p[i] \in Keys
  BY <1>1, <1>2, <1>8
<1> HIDE DEF m
<1>11. ASSUME NEW i \in 1 .. m, NEW f \in FieldNames
       PROVE  /\ ks[(i - 1) * FieldCount + f + 1] = BuildCompKey(p[i], f)
              /\ (i - 1) * FieldCount + f + 1 \in 1 .. Len(ks)
              /\ (i - 1) * FieldCount \in Nat
              /\ i * FieldCount = (i - 1) * FieldCount + FieldCount
              /\ i * FieldCount <= Len(ks)
  <2> DEFINE j == i - 1
             x == j * FieldCount + f
             M == m * FieldCount
  <2>1. j \in Nat /\ i = j + 1 /\ j < m
    BY <1>9
  <2>2. x \in Nat /\ x \div FieldCount = j /\ x % FieldCount = f
    BY <1>9, <2>1, FromDigits
  <2>3. /\ j * FieldCount \in Nat /\ (j + 1) * FieldCount = j * FieldCount + FieldCount
        /\ M \in Nat /\ j * FieldCount + FieldCount <= M
    BY <1>9, <2>1, Multiples
  <2>4. x \in 0 .. M - 1
    BY <1>9, <2>2, <2>3
  <2>5. ks[x + 1] = BuildCompKey(p[(x \div FieldCount) + 1], x % FieldCount)
    BY <1>7, <2>4
  <2> HIDE DEF x, j
  <2>6. ks[x + 1] = BuildCompKey(p[i], f)
    BY <2>1, <2>2, <2>5
  <2>7. x + 1 \in 1 .. Len(ks)
    BY <1>7, <2>3, <2>4
  <2>8. QED
    BY <1>7, <2>1, <2>3, <2>6, <2>7 DEF x, j
<1>12. ASSUME NEW i \in 1 .. m
       PROVE  FieldsAt(Group(ks, i)) = RowOf(p[i])
  <2> DEFINE a == (i - 1) * FieldCount
             g == Group(ks, i)
  <2>1. a \in Nat /\ i * FieldCount = a + FieldCount /\ a + FieldCount <= Len(ks)
    BY <1>11, FieldTypes
  <2>2. g = SubSeq(ks, a + 1, a + FieldCount)
    BY <2>1 DEF Group
  <2> HIDE DEF a, g
  <2>3. /\ DOMAIN g = 1 .. FieldCount
        /\ \A x \in 1 .. FieldCount : g[x] = ks[a + x]
    BY <1>8, <1>9, <2>1, <2>2
  <2>4. ASSUME NEW x \in 1 .. FieldCount
        PROVE  g[x] = BuildCompKey(p[i], x - 1) /\ FieldFromCompKey(g[x]) = x - 1
    <3>1. x - 1 \in FieldNames /\ a + (x - 1) + 1 = a + x
      BY <1>9, <2>1
    <3>2. ks[a + (x - 1) + 1] = BuildCompKey(p[i], x - 1)
      BY <1>11, <3>1 DEF a
    <3>3. g[x] = BuildCompKey(p[i], x - 1)
      BY <2>3, <3>1, <3>2
    <3>4. QED
      BY <1>10, <3>1, <3>3, CompKeyParts
  <2>5. FieldsAt(g) = [x \in 1 .. FieldCount |->
                         [name |-> FieldFromCompKey(g[x]), value |-> entries[g[x]]]]
    BY <2>3 DEF FieldsAt
  <2>6. FieldsAt(g) = [x \in 1 .. FieldCount |->
                         [name |-> x - 1, value |-> entries[BuildCompKey(p[i], x - 1)]]]
    BY <2>4, <2>5
  <2>7. QED
    BY <2>6 DEF RowOf, g
<1>13. ASSUME m > 0 PROVE KeyFromCompKey(ks[1]) = p[1]
  <2>1. 1 \in 1 .. m /\ 0 \in FieldNames
    BY <1>9, <1>13
  <2>2. ks[(1 - 1) * FieldCount + 0 + 1] = BuildCompKey(p[1], 0)
    BY <1>11, <2>1
  <2>3. (1 - 1) * FieldCount + 0 + 1 = 1
    BY <1>9
  <2>4. QED
    BY <1>10, <2>1, <2>2, <2>3, CompKeyParts
<1>14. QED
  BY <1>2, <1>5, <1>7, <1>8, <1>12, <1>13 DEF p, ks, m, P, S, keys

LEMMA TakeForm ==
  ASSUME NEW T, NEW s \in Seq(T), NEW n \in Nat
  PROVE  LET m == IF n < Len(s) THEN n ELSE Len(s)
         IN  /\ Take(s, n) \in Seq(T) /\ Len(Take(s, n)) = m /\ m \in Nat
             /\ DOMAIN Take(s, n) = 1 .. m
             /\ \A i \in 1 .. m : Take(s, n)[i] = s[i] /\ s[i] \in T
<1> DEFINE m == IF n < Len(s) THEN n ELSE Len(s)
<1>1. m \in Nat /\ m <= Len(s) /\ Take(s, n) = SubSeq(s, 1, m)
  BY DEF Take
<1> HIDE DEF m
<1>2. /\ Take(s, n) \in Seq(T) /\ Len(Take(s, n)) = m
      /\ DOMAIN Take(s, n) = 1 .. m
      /\ \A i \in 1 .. m : Take(s, n)[i] = s[i] /\ s[i] \in T
  BY <1>1
<1>3. QED
  BY <1>1, <1>2 DEF m

\* The records a scan comes to
Found(k, len) == Take(From(NowHeld, k), len)

FoundRows(k, len, fields) ==
  [i \in DOMAIN Found(k, len) |-> Delivered(Found(k, len)[i], fields)]

LEMMA RowRead ==
  ASSUME StoreInv, WholeNow, Format = "row", Bearable(conf), NEW k \in conf.keys,
         NEW fields \in FieldLists
  PROVE  LET ks == Take(From(Stored, k), FieldCount)
         IN  /\ k \in NowHeld =>
                  /\ ks # <<>> /\ KeyFromCompKey(ks[1]) = k
                  /\ Filter(FieldsAt(Walk(ks, fields)), fields) = Delivered(k, fields)
             /\ k \notin NowHeld => ks = <<>> \/ KeyFromCompKey(ks[1]) # k
<1> DEFINE P == NowHeld
           S == Stored
           p == From(P, k)
           all == From(S, k)
           ks == Take(all, FieldCount)
           m == Len(p)
<1>1. /\ P \subseteq conf.keys /\ IsFiniteSet(P)
      /\ p \in Seq(P) /\ all \in Seq(S)
      /\ Len(all) = m * FieldCount
      /\ \A i \in 1 .. m : FieldsAt(Group(all, i)) = RowOf(p[i])
      /\ m > 0 => KeyFromCompKey(all[1]) = p[1]
  BY RowWalk
<1>2. P \in SUBSET ByteStrings /\ k \in ByteStrings
  BY <1>1, ConfTypes DEF StoreInv
<1>3. k \in P => m > 0 /\ p[1] = k
  BY <1>1, <1>2, FromFirst
<1> HIDE DEF P, S, p, all
<1>4. m \in Nat /\ FieldCount \in 1 .. 10
  BY <1>1, FieldTypes
<1>5. m > 0 => p[1] \in P
  BY <1>1, <1>4
<1> HIDE DEF m
<1>6. CASE m > 0
  <2>1. FieldCount <= Len(all) /\ 1 * FieldCount = FieldCount /\ (1 - 1) * FieldCount + 1 = 1
    <3>1. 0 * FieldCount + FieldCount <= m * FieldCount
      BY <1>4, <1>6, Multiples
    <3>2. 0 * FieldCount = 0 /\ 1 * FieldCount = FieldCount
      BY <1>4
    <3>3. QED
      BY <1>1, <1>4, <3>1, <3>2
  <2>2. ks = SubSeq(all, 1, FieldCount)
    BY <1>1, <1>4, <2>1 DEF Take
  <2>3. ks = Group(all, 1)
    BY <2>1, <2>2 DEF Group
  <2>4. ks \in Seq(S) /\ Len(ks) = FieldCount /\ ks[1] = all[1]
    BY <1>1, <1>4, <2>1, <2>2
  <2> HIDE DEF ks
  <2>5. ks # <<>> /\ KeyFromCompKey(ks[1]) = p[1]
    BY <1>1, <1>4, <1>6, <2>4
  <2>6. ASSUME k \in P
        PROVE  Filter(FieldsAt(Walk(ks, fields)), fields) = Delivered(k, fields)
    <3>1. FieldsAt(ks) = RowOf(k)
      <4>1. 1 \in 1 .. m /\ p[1] = k
        BY <1>3, <1>4, <1>6, <2>6
      <4>2. QED
        BY <1>1, <2>3, <4>1
    <3> DEFINE row == RowOf(k)
    <3>2. IsRow(row) /\ Columns(RecordOf(row), fields) = Delivered(k, fields)
      BY <2>6, RowOfRecord DEF P
    <3> HIDE DEF row
    <3>3. FieldsAt(ks) = row
      BY <3>1 DEF row
    <3>4. Filter(FieldsAt(Walk(ks, fields)), fields) = Columns(RecordOf(row), fields)
      BY <2>4, <3>2, <3>3, CompRead
    <3>5. QED
      BY <3>2, <3>4
  <2>7. k \in P =>
          /\ ks # <<>> /\ KeyFromCompKey(ks[1]) = k
          /\ Filter(FieldsAt(Walk(ks, fields)), fields) = Delivered(k, fields)
    BY <1>3, <2>5, <2>6
  <2>8. k \notin P => KeyFromCompKey(ks[1]) # k
    BY <1>5, <1>6, <2>5
  <2> HIDE DEF P
  <2>9. (k \in P) = (k \in NowHeld)
    BY DEF P
  <2>10. ks = Take(From(Stored, k), FieldCount)
    BY DEF ks, all, S
  <2>11. QED
    BY <2>7, <2>8, <2>9, <2>10, Zenon
<1>7. CASE ~ (m > 0)
  <2>1. Len(all) = 0
    BY <1>1, <1>4, <1>7
  <2>2. ks = <<>>
    BY <1>1, <1>4, <2>1 DEF Take
  <2>3. k \notin P
    BY <1>3, <1>7
  <2>4. QED
    BY <2>2, <2>3 DEF P, S, ks, all
<1>8. QED
  BY <1>6, <1>7

LEMMA RowScan ==
  ASSUME StoreInv, WholeNow, Format = "row", Bearable(conf), NEW k \in conf.keys,
         NEW len \in Nat, AllFields \in FieldLists
  PROVE  CompRows(From(Stored, k), len, AllFields) = FoundRows(k, len, AllFields)
<1> DEFINE P == NowHeld
           S == Stored
           p == From(P, k)
           all == From(S, k)
           m == Len(p)
           r == [i \in 1 .. m |-> RowOf(p[i])]
           n == IF len < m THEN len ELSE m
<1>1. /\ p \in Seq(P) /\ all \in Seq(S)
      /\ Len(all) = m * FieldCount
      /\ \A i \in 1 .. m : FieldsAt(Group(all, i)) = RowOf(p[i])
  BY RowWalk
<1> HIDE DEF P, S, p, all
<1>2. m \in Nat /\ \A i \in 1 .. m : p[i] \in P
  BY <1>1
<1>3. \A i \in 1 .. m : IsRow(RowOf(p[i])) /\ RowOf(p[i]) = Delivered(p[i], AllFields)
  BY <1>2, RowOfRecord DEF P
<1>4. \A i \in 1 .. m : IsRow(r[i]) /\ FieldsAt(Group(all, i)) = r[i] /\ r[i] = Delivered(p[i], AllFields)
  BY <1>1, <1>3
<1> HIDE DEF m, r
<1>5. CompRows(all, len, AllFields) = [i \in 1 .. n |-> r[i]]
  BY <1>1, <1>2, <1>4, CompRowsAll
<1>6. /\ DOMAIN Take(p, len) = 1 .. n
      /\ \A i \in 1 .. n : Take(p, len)[i] = p[i] /\ i \in 1 .. m
  <2>1. /\ DOMAIN Take(p, len) = 1 .. n
        /\ \A i \in 1 .. n : Take(p, len)[i] = p[i]
    BY <1>1, TakeForm DEF m
  <2>2. \A i \in 1 .. n : i \in 1 .. m
    BY <1>2
  <2>3. QED
    BY <2>1, <2>2
<1>7. Found(k, len) = Take(p, len)
  BY DEF Found, p, P
<1> HIDE DEF n
<1>8. FoundRows(k, len, AllFields) = [i \in 1 .. n |-> r[i]]
  BY <1>4, <1>6, <1>7 DEF FoundRows
<1>9. QED
  BY <1>5, <1>8 DEF all, S

LEMMA EntryScan ==
  ASSUME StoreInv, Format # "row", NEW k \in conf.keys, NEW len \in Nat,
         NEW fields \in FieldLists
  PROVE  /\ From(Stored, k) \in Seq(Stored)
         /\ Take(From(Stored, k), len) = Found(k, len)
         /\ Rows(Take(From(Stored, k), len), fields) = FoundRows(k, len, fields)
         /\ \A i \in DOMAIN FoundRows(k, len, fields) :
              Decodes => Len(FoundRows(k, len, fields)[i]) = Len(fields)
<1> DEFINE S == Stored
           p == From(S, k)
           found == Take(p, len)
<1>1. NowHeld = S /\ S \in SUBSET ByteStrings /\ IsFiniteSet(S)
  BY StoredKeys
<1>2. p \in Seq(S)
  BY <1>1, ConfTypes, FromLists DEF StoreInv
<1> HIDE DEF p
<1>3. \A i \in DOMAIN found : found[i] \in S
  BY <1>2, TakeForm
<1>4. found = Found(k, len)
  BY <1>1 DEF Found, p
<1> HIDE DEF found
<1>5. \A i \in DOMAIN found :
        /\ Decode(entries[found[i]], fields) = Delivered(found[i], fields)
        /\ Decodes => Len(Delivered(found[i], fields)) = Len(fields)
  BY <1>3, ReadRow DEF S
<1>6. Rows(found, fields) = FoundRows(k, len, fields)
  BY <1>4, <1>5 DEF Rows, FoundRows
<1>7. \A i \in DOMAIN FoundRows(k, len, fields) :
        Decodes => Len(FoundRows(k, len, fields)[i]) = Len(fields)
  BY <1>4, <1>5 DEF FoundRows
<1>8. QED
  BY <1>2, <1>4, <1>6, <1>7 DEF p, S, found

-----------------------------------------------------------------------------
(* The inductive invariant.  Its parts hold of every binding; that rows    *)
(* are whole is said of clients the row format can bear.                   *)

\* What a thread has between two calls
Updates(keys) ==
  {u \in [key : keys, values : Writes, row : Seq(NamedValues)] : IsRow(u.row)}
Queries(keys) ==
  {q \in [key : keys, len : 1 .. MaxScan, fields : FieldLists,
          rows : Seq(Seq(NamedValues)), ahead : keys] :
     Len(q.rows) < q.len /\ (q.rows = <<>> => q.ahead = q.key)}

PendingFits(c, state, p) ==
  /\ state \in {"idle", "thrown"} => p = None
  /\ state = "updating" => c.binding.update \in {"getPut", "txn"} /\ p \in Updates(c.keys)
  /\ state = "scanning" => c.binding.scan = "query" /\ p \in Queries(c.keys)

States == {"idle", "updating", "scanning", "thrown"}

ControlInv ==
  /\ writer \in Threads \cup {NoThread}
  /\ pc \in [Threads -> States]
  /\ DOMAIN pending = Threads
  /\ \A t \in Threads : PendingFits(conf, pc[t], pending[t])

AnswerInv == answer # None => answer.status \in {"kOK", "kNotFound"}

TypeInv == StoreInv /\ ControlInv /\ AnswerInv

\* In the row format records are whole, if the clients leave them so.
WholeInv == Bearable(conf) => WholeNow

\* In LMDB the record an update holds is the one that is stored.
SharingInv ==
  conf.binding.update = "txn" =>
    \A t \in Threads : pc[t] = "updating" => writer = t /\ Fresh(pending[t])

\* Every row there is has the fields that were asked for.
Complete(rows, fields) ==
  Decodes => \A i \in DOMAIN rows : Len(rows[i]) = Len(fields)

CompleteInv ==
  /\ \A t \in Threads : pc[t] = "scanning" => Complete(pending[t].rows, pending[t].fields)
  /\ Bearable(conf) => RowsComplete

IInv == TypeInv /\ WholeInv /\ SharingInv /\ CompleteInv

-----------------------------------------------------------------------------
(* What a step leaves of the invariant, by what it changes.                *)

LEMMA PendingForms ==
  /\ \A keys : \A u \in Updates(keys) :
       /\ u # None /\ u.key \in keys /\ u.values \in Writes /\ IsRow(u.row)
  /\ \A keys : \A q \in Queries(keys) :
       /\ q # None /\ q.key \in keys /\ q.len \in 1 .. MaxScan /\ q.fields \in FieldLists
       /\ q.rows \in Seq(Seq(NamedValues)) /\ q.ahead \in keys
       /\ Len(q.rows) < q.len /\ (q.rows = <<>> => q.ahead = q.key)
<1>1. ASSUME NEW keys, NEW u \in [key : keys, values : Writes, row : Seq(NamedValues)]
      PROVE  u # None /\ u.key \in keys /\ u.values \in Writes
  <2>1. DOMAIN u = {"key", "values", "row"}
    OBVIOUS
  <2>2. DOMAIN <<>> = {}
    OBVIOUS
  <2>3. QED
    BY <2>1, <2>2 DEF None
<1>2. ASSUME NEW keys, NEW q \in Queries(keys)
      PROVE  /\ q # None /\ q.key \in keys /\ q.len \in 1 .. MaxScan /\ q.fields \in FieldLists
             /\ q.rows \in Seq(Seq(NamedValues)) /\ q.ahead \in keys
             /\ Len(q.rows) < q.len /\ (q.rows = <<>> => q.ahead = q.key)
  <2>1. DOMAIN q = {"key", "len", "fields", "rows", "ahead"}
    BY DEF Queries
  <2>2. DOMAIN <<>> = {}
    OBVIOUS
  <2>3. QED
    BY <2>1, <2>2 DEF None, Queries
<1>3. QED
  BY <1>1, <1>2 DEF Updates

LEMMA SameStore ==
  ASSUME StoreInv, conf' = conf, Shaped(Format, conf.keys, entries')
  PROVE  StoreInv'
BY DEF StoreInv, Format

LEMMA SameControl ==
  ASSUME ControlInv, UNCHANGED <<conf, pc, pending>>, writer' \in Threads \cup {NoThread}
  PROVE  ControlInv'
BY DEF ControlInv

\* One thread moves.
LEMMA MoveControl ==
  ASSUME ControlInv, NEW t \in Threads, NEW state \in States, NEW p,
         PendingFits(conf, state, p), conf' = conf,
         pc' = [pc EXCEPT ![t] = state],
         pending' = [pending EXCEPT ![t] = p],
         writer' \in Threads \cup {NoThread}
  PROVE  /\ ControlInv'
         /\ pc'[t] = state /\ pending'[t] = p
         /\ \A u \in Threads \ {t} : pc'[u] = pc[u] /\ pending'[u] = pending[u]
<1>1. /\ pc' \in [Threads -> States] /\ pc'[t] = state
      /\ \A u \in Threads \ {t} : pc'[u] = pc[u]
  BY DEF ControlInv
<1>2. /\ DOMAIN pending' = Threads /\ pending'[t] = p
      /\ \A u \in Threads \ {t} : pending'[u] = pending[u]
  BY DEF ControlInv
<1>3. \A u \in Threads : PendingFits(conf', pc'[u], pending'[u])
  BY <1>1, <1>2 DEF ControlInv
<1>4. QED
  BY <1>1, <1>2, <1>3 DEF ControlInv

\* An exception stops an idle thread.
LEMMA ThrowControl ==
  ASSUME ControlInv, NEW t \in Threads, Idle(t), Throw(t), conf' = conf,
         writer' \in Threads \cup {NoThread}
  PROVE  /\ ControlInv'
         /\ pc'[t] = "thrown"
         /\ \A u \in Threads \ {t} : pc'[u] = pc[u]
         /\ UNCHANGED <<entries, pending, answer>>
<1>1. /\ pc' \in [Threads -> States] /\ pc'[t] = "thrown"
      /\ \A u \in Threads \ {t} : pc'[u] = pc[u]
      /\ UNCHANGED <<entries, pending, answer>>
  BY DEF ControlInv, Throw, States
<1>2. PendingFits(conf, "thrown", pending[t])
  BY DEF ControlInv, PendingFits, Idle
<1>3. \A u \in Threads : PendingFits(conf', pc'[u], pending'[u])
  BY <1>1, <1>2 DEF ControlInv
<1>4. QED
  BY <1>1, <1>3 DEF ControlInv

\* Must the rows of this answer be complete?
Owed(call) ==
  /\ call[1] \in {"Read", "Scan"} /\ Bearable(conf)
  /\ call[1] = "Scan" /\ Format = "row" => Asked(call) = AllFields

\* What an answer must have, so that answers stay right
AnswerFits(call, status, rows) ==
  /\ status \in {"kOK", "kNotFound"}
  /\ Owed(call) => Complete(rows, Asked(call))

LEMMA AnswerStep ==
  ASSUME NEW call, NEW status, NEW rows, Reply(call, status, rows),
         AnswerFits(call, status, rows), conf' = conf
  PROVE  AnswerInv' /\ (Bearable(conf)' => RowsComplete')
<1>1. answer'.call = call /\ answer'.status = status /\ answer'.rows = rows
  BY DEF Reply
<1>2. AnswerInv'
  BY <1>1 DEF AnswerInv, AnswerFits
<1>3. Decodes' = Decodes /\ Format' = Format /\ (Bearable(conf)' <=> Bearable(conf))
  BY DEF Decodes, Format, Bearable
<1>4. ASSUME Bearable(conf)' PROVE RowsComplete'
  <2>1. ASSUME call[1] \in {"Read", "Scan"}, Decodes,
               call[1] = "Scan" /\ Format = "row" => Asked(call) = AllFields
        PROVE  \A i \in DOMAIN rows : Len(rows[i]) = Len(Asked(call))
    BY <1>3, <1>4, <2>1 DEF AnswerFits, Owed, Complete
  <2>2. QED
    BY <1>1, <1>3, <2>1 DEF RowsComplete
<1>5. QED
  BY <1>2, <1>4

\* The last argument of a call
LEMMA CallForms ==
  /\ \A k, fields : LET c == <<"Read", k, fields>> IN c[1] = "Read" /\ Asked(c) = fields
  /\ \A k, len, fields : LET c == <<"Scan", k, len, fields>> IN c[1] = "Scan" /\ Asked(c) = fields
  /\ \A k, w : LET c == <<"Update", k, w>> IN c[1] \notin {"Read", "Scan"}
  /\ \A k, w : LET c == <<"Insert", k, w>> IN c[1] \notin {"Read", "Scan"}
  /\ \A k : LET c == <<"Delete", k>> IN c[1] \notin {"Read", "Scan"}
BY DEF Asked

-----------------------------------------------------------------------------
(* Reads and scans.                                                        *)

ReadAnswer(k, fields) ==
  \/ k \in NowHeld /\ Reply(<<"Read", k, fields>>, "kOK", <<Delivered(k, fields)>>)
  \/ k \notin NowHeld /\ Reply(<<"Read", k, fields>>, "kNotFound", <<>>)

ScanAnswer(k, len, fields) ==
  \/ Reply(<<"Scan", k, len, fields>>, "kOK", FoundRows(k, len, fields))
  \/ ~ Decodes /\ Reply(<<"Scan", k, len, fields>>, "kOK", <<>>)
  \/ k \notin NowHeld /\ Reply(<<"Scan", k, len, fields>>, "kNotFound", <<>>)

AnswersRight == AnswerInv' /\ (Bearable(conf)' => RowsComplete')

LEMMA CompleteRows ==
  ASSUME NEW rows, NEW fields \in FieldLists,
         \A i \in DOMAIN rows : \/ \E k \in NowHeld : rows[i] = Delivered(k, fields)
                                \/ Decodes => Len(rows[i]) = Len(fields)
  PROVE  Complete(rows, fields)
BY ColumnsLength DEF Complete, Delivered

LEMMA NoRows == \A fields : Complete(<<>>, fields)
<1>1. DOMAIN <<>> = {}
  OBVIOUS
<1>2. QED
  BY <1>1 DEF Complete

LEMMA ReadEffect ==
  ASSUME StoreInv, WholeInv, NEW t \in Threads, NEW k \in conf.keys,
         NEW fields \in FieldLists, Read(t, k, fields) \/ ReadCompKeyRM(t, k, fields)
  PROVE  /\ UNCHANGED <<conf, entries, writer, pc, pending>>
         /\ AnswersRight
         /\ Bearable(conf) => ReadAnswer(k, fields)
<1> DEFINE call == <<"Read", k, fields>>
<1>1. UNCHANGED <<conf, entries, writer, pc, pending>>
  BY DEF Read, ReadCompKeyRM
<1>2. call[1] = "Read" /\ Asked(call) = fields
  BY CallForms
<1> HIDE DEF call
<1>3. ASSUME ReadAnswer(k, fields) PROVE AnswersRight
  <2>1. CASE Reply(call, "kOK", <<Delivered(k, fields)>>) /\ k \in NowHeld
    <3> DEFINE rows == <<Delivered(k, fields)>>
    <3>1. \A i \in DOMAIN rows : rows[i] = Delivered(k, fields)
      OBVIOUS
    <3> HIDE DEF rows
    <3>2. Complete(rows, fields)
      BY <2>1, <3>1, CompleteRows
    <3>3. Reply(call, "kOK", rows)
      BY <2>1 DEF rows
    <3>4. AnswerFits(call, "kOK", rows)
      BY <1>2, <3>2 DEF AnswerFits
    <3>5. QED
      BY <1>1, <3>3, <3>4, AnswerStep DEF AnswersRight
  <2>2. CASE Reply(call, "kNotFound", <<>>)
    <3>1. AnswerFits(call, "kNotFound", <<>>)
      BY <1>2, NoRows DEF AnswerFits
    <3>2. QED
      BY <1>1, <2>2, <3>1, AnswerStep DEF AnswersRight
  <2>3. QED
    BY <1>3, <2>1, <2>2 DEF ReadAnswer, call
<1>4. CASE Read(t, k, fields)
  <2>1. NowHeld = Stored
    BY <1>4, StoredKeys DEF Read
  <2>2. k \in Stored => Decode(entries[k], fields) = Delivered(k, fields)
    BY <1>4, ReadRow DEF Read
  <2>3. ReadAnswer(k, fields)
    BY <1>4, <2>1, <2>2 DEF Read, ReadAnswer
  <2>4. QED
    BY <1>1, <1>3, <2>3
<1>5. CASE ReadCompKeyRM(t, k, fields)
  <2>1. Format = "row"
    BY <1>5 DEF ReadCompKeyRM
  <2> DEFINE ks == Take(From(Stored, k), FieldCount)
             rows == <<Filter(FieldsAt(Walk(ks, fields)), fields)>>
  <2>2. \/ /\ ks = <<>> \/ KeyFromCompKey(ks[1]) # k
           /\ Reply(call, "kNotFound", <<>>)
        \/ /\ ks # <<>> /\ KeyFromCompKey(ks[1]) = k
           /\ Reply(call, "kOK", rows)
    BY <1>5, Zenon DEF ReadCompKeyRM, call
  <2>3. ASSUME Bearable(conf)
        PROVE  /\ k \in NowHeld => /\ ks # <<>> /\ KeyFromCompKey(ks[1]) = k
                                   /\ rows = <<Delivered(k, fields)>>
               /\ k \notin NowHeld => ks = <<>> \/ KeyFromCompKey(ks[1]) # k
    <3>1. WholeNow
      BY <2>3 DEF WholeInv
    <3>2. QED
      BY <2>1, <2>3, <3>1, RowRead
  <2> HIDE DEF ks, rows
  <2>4. Bearable(conf) => ReadAnswer(k, fields)
    BY <2>2, <2>3 DEF ReadAnswer, call
  <2>5. CASE Bearable(conf)
    BY <1>1, <1>3, <2>4, <2>5
  <2>6. CASE ~ Bearable(conf)
    <3>1. AnswerFits(call, "kNotFound", <<>>) /\ AnswerFits(call, "kOK", rows)
      BY <2>1, <2>6 DEF AnswerFits, Owed
    <3>2. QED
      BY <1>1, <2>2, <2>6, <3>1, AnswerStep DEF AnswersRight
  <2>7. QED
    BY <2>5, <2>6
<1>6. QED
  BY <1>4, <1>5

\* An answer of a scan with the rows found, if it may give them
LEMMA ScanAnswersRight ==
  ASSUME StoreInv, Format # "row", NEW k \in conf.keys, NEW len \in 1 .. MaxScan,
         NEW fields \in FieldLists, ScanAnswer(k, len, fields), conf' = conf
  PROVE  AnswersRight
<1> DEFINE call == <<"Scan", k, len, fields>>
           rows == FoundRows(k, len, fields)
<1>1. call[1] = "Scan" /\ Asked(call) = fields
  BY CallForms
<1> HIDE DEF call
<1>2. Complete(rows, fields)
  <2>1. len \in Nat
    BY ScanAssumption
  <2>2. QED
    BY <2>1, EntryScan DEF Complete
<1> HIDE DEF rows
<1>3. CASE Reply(call, "kOK", rows)
  <2>1. AnswerFits(call, "kOK", rows)
    BY <1>1, <1>2 DEF AnswerFits
  <2>2. QED
    BY <1>3, <2>1, AnswerStep DEF AnswersRight
<1>4. ASSUME NEW status \in {"kOK", "kNotFound"}, Reply(call, status, <<>>)
      PROVE  AnswersRight
  <2>1. AnswerFits(call, status, <<>>)
    BY <1>1, NoRows DEF AnswerFits
  <2>2. QED
    BY <1>4, <2>1, AnswerStep DEF AnswersRight
<1>5. QED
  BY <1>3, <1>4 DEF ScanAnswer, call, rows

LEMMA EntryScanEffect ==
  ASSUME StoreInv, NEW t \in Threads, NEW k \in conf.keys, NEW len \in 1 .. MaxScan,
         NEW fields \in FieldLists,
         \/ IteratorScan(t, k, len, fields)
         \/ RangeScan(t, k, len, fields)
         \/ CursorScan(t, k, len, fields)
  PROVE  /\ UNCHANGED <<conf, entries, writer, pc, pending>>
         /\ AnswersRight
         /\ ScanAnswer(k, len, fields)
<1>1. UNCHANGED <<conf, entries, writer, pc, pending>>
  BY DEF IteratorScan, RangeScan, CursorScan
<1>2. Format # "row"
  <2>1. BindingRules(conf.binding)
    BY ConfTypes DEF StoreInv
  <2>2. QED
    BY <2>1 DEF IteratorScan, RangeScan, CursorScan, BindingRules, Format
<1>3. Rows(Take(From(Stored, k), len), fields) = FoundRows(k, len, fields)
  BY <1>2, ScanAssumption, EntryScan
<1>4. NowHeld = Stored
  BY <1>2, StoredKeys
<1>5. ScanAnswer(k, len, fields)
  <2>1. CASE IteratorScan(t, k, len, fields)
    BY <1>3, <2>1 DEF IteratorScan, ScanAnswer
  <2>2. CASE RangeScan(t, k, len, fields)
    <3>1. CASE Decodes
      BY <1>3, <2>2, <3>1 DEF RangeScan, ScanAnswer
    <3>2. CASE ~ Decodes
      BY <2>2, <3>2 DEF RangeScan, ScanAnswer
    <3>3. QED
      BY <3>1, <3>2
  <2>3. CASE CursorScan(t, k, len, fields)
    BY <1>3, <1>4, <2>3 DEF CursorScan, ScanAnswer
  <2>4. QED
    BY <2>1, <2>2, <2>3
<1>6. QED
  BY <1>1, <1>2, <1>5, ScanAnswersRight

\* search_near finds one record, as often as it is asked for one.
LEMMA NearScanEffect ==
  ASSUME StoreInv, NEW t \in Threads, NEW k \in conf.keys, NEW len \in 1 .. MaxScan,
         NEW fields \in FieldLists, NearScan(t, k, len, fields), Stored # {}
  PROVE  /\ UNCHANGED <<conf, entries, writer, pc, pending>>
         /\ AnswersRight
         /\ len = 1 => ScanAnswer(k, len, fields)
<1> DEFINE call == <<"Scan", k, len, fields>>
           S == Stored
           p == From(S, k)
           rows == IF p = <<>> THEN <<>>
                   ELSE [i \in 1 .. len |-> Decode(entries[p[1]], fields)]
<1>1. UNCHANGED <<conf, entries, writer, pc, pending>>
  BY DEF NearScan
<1>2. Format # "row" /\ BindingRules(conf.binding)
  <2>1. BindingRules(conf.binding)
    BY ConfTypes DEF StoreInv
  <2>2. QED
    BY <2>1 DEF NearScan, BindingRules, Format
<1>3. Reply(call, "kOK", rows)
  BY DEF NearScan
<1>4. len \in Nat /\ 1 <= len
  BY ScanAssumption
<1>5. p \in Seq(S) /\ Take(p, len) = Found(k, len)
  BY <1>2, <1>4, EntryScan
<1>6. call[1] = "Scan" /\ Asked(call) = fields
  BY CallForms
<1> HIDE DEF call, p
<1>7. p # <<>> => p[1] \in S
  BY <1>5
<1>8. Complete(rows, fields)
  <2>1. CASE p = <<>>
    BY <2>1, NoRows
  <2>2. CASE p # <<>>
    <3>1. Decodes => Len(Decode(entries[p[1]], fields)) = Len(fields)
      BY <1>2, <1>7, <2>2, ReadRow DEF S
    <3>2. QED
      BY <2>2, <3>1 DEF Complete
  <2>3. QED
    BY <2>1, <2>2
<1>9. ASSUME len = 1 PROVE rows = FoundRows(k, len, fields)
  <2>1. len = 1
    BY <1>9
  <2>2. CASE p = <<>>
    <3>1. DOMAIN Found(k, len) = {}
      <4>1. Take(p, len) = <<>>
        BY <1>4, <2>2 DEF Take
      <4>2. QED
        BY <1>5, <4>1
    <3>2. QED
      BY <2>2, <3>1 DEF FoundRows
  <2>3. CASE p # <<>>
    <3>1. Len(p) \in Nat /\ ~ (Len(p) < 1)
      BY <1>5, <2>3
    <3>2. DOMAIN Found(k, len) = 1 .. 1 /\ Found(k, len)[1] = p[1]
      <4> DEFINE m == IF len < Len(p) THEN len ELSE Len(p)
      <4>1. m = 1
        <5>1. \A i \in Nat : ~ (i < 1) => (IF 1 < i THEN 1 ELSE i) = 1
          OBVIOUS
        <5>2. (IF 1 < Len(p) THEN 1 ELSE Len(p)) = 1
          BY <3>1, <5>1
        <5>3. QED
          BY <2>1, <5>2, Zenon
      <4>2. DOMAIN Take(p, len) = 1 .. m /\ \A i \in 1 .. m : Take(p, len)[i] = p[i]
        BY <1>4, <1>5, TakeForm
      <4> HIDE DEF m
      <4>3. QED
        BY <1>5, <4>1, <4>2
    <3>3. Decode(entries[p[1]], fields) = Delivered(p[1], fields)
      BY <1>2, <1>7, <2>3, ReadRow DEF S
    <3>4. QED
      BY <2>1, <2>3, <3>2, <3>3 DEF FoundRows
  <2>4. QED
    BY <2>2, <2>3
<1> HIDE DEF rows
<1>10. AnswersRight
  <2>1. AnswerFits(call, "kOK", rows)
    BY <1>6, <1>8 DEF AnswerFits
  <2>2. QED
    BY <1>1, <1>3, <2>1, AnswerStep DEF AnswersRight
<1>11. len = 1 => ScanAnswer(k, len, fields)
  BY <1>3, <1>9 DEF ScanAnswer, call
<1>12. QED
  BY <1>1, <1>10, <1>11

LEMMA RowScanEffect ==
  ASSUME StoreInv, WholeInv, NEW t \in Threads, NEW k \in conf.keys,
         NEW len \in 1 .. MaxScan, NEW fields \in FieldLists, ScanCompKeyRM(t, k, len, fields)
  PROVE  /\ UNCHANGED <<conf, entries, writer, pc, pending>>
         /\ AnswersRight
         /\ Bearable(conf) /\ fields = AllFields => ScanAnswer(k, len, fields)
<1> DEFINE call == <<"Scan", k, len, fields>>
           rows == CompRows(From(Stored, k), len, fields)
<1>1. UNCHANGED <<conf, entries, writer, pc, pending>>
  BY DEF ScanCompKeyRM
<1>2. Format = "row" /\ Reply(call, "kOK", rows)
  BY DEF ScanCompKeyRM
<1>3. call[1] = "Scan" /\ Asked(call) = fields
  BY CallForms
<1>4. ASSUME Bearable(conf), fields = AllFields
      PROVE  rows = FoundRows(k, len, fields) /\ Complete(rows, fields)
  <2>2. WholeNow /\ len \in Nat
    BY <1>4, ScanAssumption DEF WholeInv
  <2>3. rows = FoundRows(k, len, fields)
    BY <1>2, <1>4, <2>2, RowScan
  <2>4. \A i \in DOMAIN Found(k, len) : Decodes => Len(Delivered(Found(k, len)[i], fields)) = Len(fields)
    BY ColumnsLength DEF Delivered
  <2>5. Complete(FoundRows(k, len, fields), fields)
    BY <2>4 DEF Complete, FoundRows
  <2>6. QED
    BY <2>3, <2>5
<1> HIDE DEF call, rows
<1>5. AnswersRight
  <2>1. AnswerFits(call, "kOK", rows)
    BY <1>2, <1>3, <1>4 DEF AnswerFits, Owed
  <2>2. QED
    BY <1>1, <1>2, <2>1, AnswerStep DEF AnswersRight
<1>6. Bearable(conf) /\ fields = AllFields => ScanAnswer(k, len, fields)
  BY <1>2, <1>4 DEF ScanAnswer, call
<1>7. QED
  BY <1>1, <1>5, <1>6

-----------------------------------------------------------------------------
(* Queries.                                                                *)

LEMMA ColumnsType ==
  ASSUME NEW record \in [FieldNames -> Values], NEW fields \in FieldLists
  PROVE  Columns(record, fields) \in Seq(NamedValues)
<1> DEFINE n == Len(fields)
<1>1. /\ n \in Nat /\ DOMAIN fields = 1 .. n
      /\ \A i \in 1 .. n : fields[i] \in FieldNames
  BY ListForm
<1> HIDE DEF n
<1>2. \A i \in 1 .. n : [name |-> fields[i], value |-> record[fields[i]]] \in NamedValues
  BY <1>1, NamedValue
<1>3. Columns(record, fields) \in [1 .. n -> NamedValues]
  BY <1>1, <1>2 DEF Columns
<1>4. QED
  BY <1>1, <1>3

\* What the invariant says of a table
LEMMA TableForm ==
  ASSUME StoreInv, conf.binding.scan = "query"
  PROVE  /\ Format = "table" /\ Decodes /\ NowHeld = Stored
         /\ Stored \in SUBSET ByteStrings /\ Stored \subseteq conf.keys /\ IsFiniteSet(Stored)
         /\ \A k \in Stored, fields \in FieldLists :
              /\ Decode(entries[k], fields) = Columns(entries[k], fields)
              /\ Decode(entries[k], fields) = Delivered(k, fields)
              /\ Decode(entries[k], fields) \in Seq(NamedValues)
              /\ Len(Decode(entries[k], fields)) = Len(fields)
<1>1. Format = "table" /\ Decodes
  BY ConfTypes DEF StoreInv, BindingRules, Format, Decodes
<1>2. /\ NowHeld = Stored /\ Stored \in SUBSET ByteStrings
      /\ Stored \subseteq conf.keys /\ IsFiniteSet(Stored)
  BY <1>1, StoredKeys
<1>3. \A k \in Stored : entries[k] \in [FieldNames -> Values]
  BY <1>1 DEF StoreInv, Shaped, IsEntry, Stored
<1>4. ASSUME NEW k \in Stored, NEW fields \in FieldLists
      PROVE  /\ Decode(entries[k], fields) = Columns(entries[k], fields)
             /\ Decode(entries[k], fields) = Delivered(k, fields)
             /\ Decode(entries[k], fields) \in Seq(NamedValues)
             /\ Len(Decode(entries[k], fields)) = Len(fields)
  <2>1. Decode(entries[k], fields) = Columns(entries[k], fields)
    BY <1>1 DEF Decode
  <2>2. QED
    BY <1>1, <1>3, <2>1, ColumnsType, ReadRow
<1>5. QED
  BY <1>1, <1>2, <1>4

LEMMA StartQueryStep ==
  ASSUME IInv, NEW t \in Threads, NEW k \in conf.keys, NEW len \in 1 .. MaxScan,
         NEW fields \in FieldLists, StartQuery(t, k, len, fields)
  PROVE  IInv' /\ UNCHANGED <<conf, entries, answer>>
<1> DEFINE q == [key |-> k, len |-> len, fields |-> fields, rows |-> <<>>, ahead |-> k]
<1>1. /\ UNCHANGED <<conf, entries, writer, answer>>
      /\ conf.binding.scan = "query"
      /\ pc' = [pc EXCEPT ![t] = "scanning"]
      /\ pending' = [pending EXCEPT ![t] = q]
  BY DEF StartQuery
<1>2. /\ q.rows = <<>> /\ q.len = len /\ q.key = k /\ q.ahead = k /\ q.fields = fields
  OBVIOUS
<1>3. q \in Queries(conf.keys)
  <2>1. Len(<<>>) = 0 /\ 0 < len
    BY ScanAssumption
  <2>2. q \in [key : conf.keys, len : 1 .. MaxScan, fields : FieldLists,
              rows : Seq(Seq(NamedValues)), ahead : conf.keys]
    OBVIOUS
  <2> HIDE DEF q
  <2>3. QED
    BY <1>2, <2>1, <2>2 DEF Queries
<1> HIDE DEF q
<1>4. TypeInv
  BY DEF IInv
<1>5. /\ ControlInv'
      /\ pc'[t] = "scanning" /\ pending'[t] = q
      /\ \A u \in Threads \ {t} : pc'[u] = pc[u] /\ pending'[u] = pending[u]
  <2>1. PendingFits(conf, "scanning", q) /\ "scanning" \in States
    BY <1>1, <1>3 DEF PendingFits, States
  <2>2. ControlInv /\ writer' \in Threads \cup {NoThread}
    BY <1>1, <1>4 DEF TypeInv, ControlInv
  <2>3. QED
    BY <1>1, <2>1, <2>2, MoveControl
<1>6. TypeInv'
  <2>1. StoreInv'
    BY <1>1, <1>4, SameStore DEF TypeInv, StoreInv
  <2>2. AnswerInv'
    BY <1>1, <1>4 DEF TypeInv, AnswerInv
  <2>3. QED
    BY <1>5, <2>1, <2>2 DEF TypeInv
<1>7. WholeInv'
  BY <1>1 DEF IInv, WholeInv, WholeNow, Format, Bearable
<1>8. SharingInv'
  <2>1. \A u \in Threads : pc'[u] = "updating" => pc[u] = "updating" /\ pending'[u] = pending[u]
    BY <1>5
  <2>2. QED
    BY <1>1, <2>1 DEF IInv, SharingInv, Fresh, Stored
<1>9. CompleteInv'
  <2>1. Complete(q.rows, q.fields)'
    BY <1>2, NoRows DEF Complete
  <2>2. Decodes' = Decodes /\ (RowsComplete => RowsComplete') /\ Format' = Format
    BY <1>1 DEF Decodes, RowsComplete, Format
  <2>3. \A u \in Threads \ {t} : pc'[u] = "scanning" =>
          Complete(pending[u].rows, pending[u].fields)'
    BY <1>1, <1>5, <2>2 DEF IInv, CompleteInv, Complete
  <2>4. QED
    BY <1>1, <1>2, <1>5, <2>1, <2>2, <2>3 DEF IInv, CompleteInv, Complete, Bearable
<1>10. QED
  BY <1>1, <1>6, <1>7, <1>8, <1>9 DEF IInv

LEMMA NothingIn ==
  ASSUME NEW T, NEW s \in Seq(T)
  PROVE  s = <<>> <=> Len(s) = 0
BY EmptySeq

LEMMA NothingLeft ==
  ASSUME NEW T, NEW p \in Seq(T), NEW n \in Nat, n <= Len(p), NEW s,
         s = SubSeq(p, n + 1, Len(p))
  PROVE  s = <<>> <=> n = Len(p)
<1> DEFINE l == Len(p)
           m == n + 1
<1>1. l \in Nat /\ m \in Int /\ l \in Int
  OBVIOUS
<1>2. \A i \in m .. l : p[i] \in T
  OBVIOUS
<1>3. s = SubSeq(p, m, l)
  OBVIOUS
<1>4. n <= l /\ m = n + 1
  OBVIOUS
<1> HIDE DEF l, m
<1>5. s \in Seq(T) /\ Len(s) = IF m <= l THEN l - m + 1 ELSE 0
  BY <1>1, <1>2, <1>3, SubSeqProperties
<1>6. Len(s) = l - n
  BY <1>1, <1>4, <1>5
<1>7. s = <<>> <=> n = l
  <2>1. s = <<>> <=> Len(s) = 0
    BY <1>5, NothingIn
  <2>2. l - n = 0 <=> n = l
    BY <1>1
  <2>3. QED
    BY <1>6, <2>1, <2>2
<1>8. QED
  BY <1>7 DEF l

\* A query of a table comes to the entries one by one.
LEMMA AheadList ==
  ASSUME StoreInv, conf.binding.scan = "query", NEW q \in Queries(conf.keys)
  PROVE  Ahead(q) \in Seq(Stored)
<1> DEFINE T == {k \in Stored : q.rows = <<>> \/ k # q.ahead}
<1>1. Stored \in SUBSET ByteStrings /\ IsFiniteSet(Stored)
  BY TableForm
<1>2. q.ahead \in ByteStrings
  BY PendingForms, ConfTypes DEF StoreInv
<1>3. T \in SUBSET ByteStrings /\ IsFiniteSet(T) /\ T \in SUBSET Stored
  BY <1>1, FS_Subset
<1> HIDE DEF T
<1>4. From(T, q.ahead) \in Seq(T)
  BY <1>2, <1>3, FromLists
<1>5. QED
  BY <1>3, <1>4, SeqMonotonic DEF Ahead, T

LEMMA QueryRows ==
  ASSUME StoreInv, conf.binding.scan = "query", NEW q \in Queries(conf.keys),
         Current(q), NEW p, p = From(Stored, q.key), NEW n, n = Len(q.rows)
  PROVE  /\ p \in Seq(Stored) /\ n \in Nat /\ Len(p) \in Nat /\ n <= Len(p) /\ n < q.len
         /\ Ahead(q) = <<>> <=> n = Len(p)
         /\ n < Len(p) => Ahead(q)[1] = p[n + 1]
         /\ q.rows = [i \in 1 .. n |-> Delivered(p[i], q.fields)]
<1>1. /\ q.key \in ByteStrings /\ q.fields \in FieldLists
      /\ q.rows \in Seq(Seq(NamedValues))
      /\ n < q.len /\ (q.rows = <<>> => q.ahead = q.key)
  BY PendingForms, ConfTypes DEF StoreInv
<1>2. Stored \in SUBSET ByteStrings /\ IsFiniteSet(Stored)
  BY TableForm
<1>3. p \in Seq(Stored)
  BY <1>1, <1>2, FromLists
<1> DEFINE seen == Take(p, n)
           m == IF n < Len(p) THEN n ELSE Len(p)
<1>4. n \in Nat /\ Len(p) \in Nat
  BY <1>1, <1>3
<1>5. /\ DOMAIN seen = 1 .. m /\ m \in Nat /\ Len(seen) = m
      /\ \A i \in 1 .. m : seen[i] = p[i]
  BY <1>3, <1>4, TakeForm
<1>6. /\ q.rows = Rows(seen, q.fields)
      /\ q.rows # <<>> => q.ahead = seen[Len(seen)]
  BY DEF Current
<1> HIDE DEF seen
<1>7. q.rows = [i \in 1 .. m |-> Decode(entries[p[i]], q.fields)]
  BY <1>5, <1>6 DEF Rows
<1>8. m = n /\ n <= Len(p)
  <2>1. DOMAIN q.rows = 1 .. n
    BY <1>1
  <2>2. 1 .. n = 1 .. m
    BY <1>7, <2>1
  <2> HIDE DEF m
  <2>3. m = n
    BY <1>4, <1>5, <2>2
  <2>4. QED
    BY <1>4, <2>3 DEF m
<1> HIDE DEF m
<1>9. /\ n \in Nat /\ Len(p) \in Nat /\ n <= Len(p) /\ n < q.len
      /\ q.ahead = IF n = 0 THEN q.key ELSE p[n]
  <2>1. n = 0 => q.rows = <<>>
    BY <1>1, NothingIn
  <2>2. n # 0 => Len(seen) = n /\ seen[n] = p[n]
    BY <1>4, <1>5, <1>8
  <2>3. n # 0 => q.rows # <<>>
    BY <1>1, NothingIn
  <2>4. QED
    BY <1>1, <1>4, <1>6, <1>8, <2>1, <2>2, <2>3
<1>10. q.rows = [i \in 1 .. n |-> Delivered(p[i], q.fields)]
  <2>1. \A i \in 1 .. n : p[i] \in Stored
    BY <1>3, <1>9
  <2>2. \A i \in 1 .. n : Decode(entries[p[i]], q.fields) = Delivered(p[i], q.fields)
    BY <1>1, <2>1, TableForm
  <2>3. QED
    BY <1>7, <1>8, <2>2
<1>11. Ahead(q) = SubSeq(p, n + 1, Len(p))
  <2>1. CASE n = 0
    <3>1. q.rows = <<>>
      BY <1>1, <2>1, NothingIn
    <3>2. {k \in Stored : q.rows = <<>> \/ k # q.ahead} = Stored
      BY <3>1
    <3>3. Ahead(q) = p
      BY <1>9, <2>1, <3>2 DEF Ahead
    <3>4. SubSeq(p, 1, Len(p)) = p
      BY <1>3
    <3>5. QED
      BY <2>1, <3>3, <3>4
  <2>2. CASE n # 0
    <3>1. n \in 1 .. Len(p) /\ q.ahead = p[n]
      BY <1>9, <2>2
    <3>2. q.rows # <<>>
      BY <1>1, <2>2
    <3>3. {k \in Stored : q.rows = <<>> \/ k # q.ahead} = {k \in Stored : k # p[n]}
      BY <3>1, <3>2
    <3>4. From({k \in Stored : k # p[n]}, p[n]) = SubSeq(p, n + 1, Len(p))
      BY <1>1, <1>2, <3>1, FromNext
    <3>5. QED
      BY <3>1, <3>3, <3>4 DEF Ahead
  <2>3. QED
    BY <2>1, <2>2
<1>12. Ahead(q) = <<>> <=> n = Len(p)
  BY <1>3, <1>9, <1>11, NothingLeft
<1>13. n < Len(p) => Ahead(q)[1] = p[n + 1]
  BY <1>3, <1>9, <1>11
<1>14. QED
  BY <1>3, <1>9, <1>10, <1>12, <1>13

\* What the last step of a query answers
LEMMA QueryAnswer ==
  ASSUME StoreInv, conf.binding.scan = "query", NEW q \in Queries(conf.keys),
         Current(q), NEW rows,
         rows = IF Ahead(q) = <<>> THEN q.rows
                ELSE Append(q.rows, Decode(entries[Ahead(q)[1]], q.fields)),
         Ahead(q) = <<>> \/ Len(rows) = q.len
  PROVE  /\ rows = FoundRows(q.key, q.len, q.fields)
         /\ rows = <<>> => q.key \notin NowHeld
<1> DEFINE p == From(Stored, q.key)
           n == Len(q.rows)
           m == IF q.len < Len(p) THEN q.len ELSE Len(p)
<1>0. p = From(Stored, q.key) /\ n = Len(q.rows)
  OBVIOUS
<1> HIDE DEF p, n
<1>1. /\ p \in Seq(Stored) /\ n \in Nat /\ Len(p) \in Nat /\ n <= Len(p) /\ n < q.len
      /\ Ahead(q) = <<>> <=> n = Len(p)
      /\ n < Len(p) => Ahead(q)[1] = p[n + 1]
      /\ q.rows = [i \in 1 .. n |-> Delivered(p[i], q.fields)]
  BY <1>0, QueryRows
<1>2. q.key \in conf.keys /\ q.len \in Nat /\ q.fields \in FieldLists
  BY PendingForms, ScanAssumption
<1>3. NowHeld = Stored /\ Stored \in SUBSET ByteStrings /\ IsFiniteSet(Stored)
  BY TableForm
<1>4. /\ DOMAIN Take(p, q.len) = 1 .. m
      /\ \A i \in 1 .. m : Take(p, q.len)[i] = p[i]
      /\ m \in Nat
  BY <1>1, <1>2, TakeForm
<1>5. Found(q.key, q.len) = Take(p, q.len)
  BY <1>3 DEF Found, p
<1> HIDE DEF m
<1>6. FoundRows(q.key, q.len, q.fields) = [i \in 1 .. m |-> Delivered(p[i], q.fields)]
  BY <1>4, <1>5 DEF FoundRows
<1>7. CASE Ahead(q) = <<>>
  <2>1. m = n
    BY <1>1, <1>2, <1>7 DEF m
  <2>2. rows = q.rows
    BY <1>7
  <2>3. ASSUME rows = <<>> PROVE q.key \notin NowHeld
    <3>1. n = 0
      BY <2>2, <2>3 DEF n
    <3>2. Len(p) = 0
      BY <1>1, <1>7, <3>1
    <3>3. q.key \in Stored => Len(From(Stored, q.key)) > 0
      BY <1>3, FromFirst
    <3>4. QED
      BY <1>3, <3>2, <3>3 DEF p
  <2>4. QED
    BY <1>1, <1>6, <2>1, <2>2, <2>3
<1>8. CASE Ahead(q) # <<>> /\ Len(rows) = q.len
  <2>1. n < Len(p) /\ Ahead(q)[1] = p[n + 1]
    BY <1>1, <1>8
  <2>2. p[n + 1] \in Stored
    BY <1>1, <2>1
  <2>3. rows = Append(q.rows, Delivered(p[n + 1], q.fields))
    BY <1>2, <1>8, <2>1, <2>2, TableForm
  <2> DEFINE old == q.rows
             D(i) == Delivered(p[i], q.fields)
  <2>4. old = [i \in 1 .. n |-> D(i)] /\ rows = Append(old, D(n + 1))
    BY <1>1, <2>3
  <2> HIDE DEF old, D
  <2>5. DOMAIN old = 1 .. n /\ Len(old) = n
    BY <1>1, <2>4
  <2>6. rows = [i \in 1 .. n + 1 |-> D(i)] /\ Len(rows) = n + 1
    BY <1>1, <2>4, <2>5
  <2>7. m = n + 1
    BY <1>1, <1>2, <1>8, <2>1, <2>6 DEF m
  <2>8. rows # <<>>
    BY <1>1, <2>6
  <2>9. QED
    BY <1>6, <2>6, <2>7, <2>8 DEF D
<1>9. QED
  BY <1>7, <1>8

\* A query goes on, or answers.
LEMMA StepQueryStep ==
  ASSUME IInv, NEW t \in Threads, StepQuery(t)
  PROVE  /\ IInv'
         /\ UNCHANGED <<conf, entries>>
         /\ \/ UNCHANGED answer
            \/ MixedQuery
            \/ \E k \in conf.keys, len \in 1 .. MaxScan, fields \in FieldLists :
                 ScanAnswer(k, len, fields)
         /\ \A u \in Threads \ {t} : pending'[u] = pending[u]
         /\ Amid(t, "scanning") /\ Current(pending[t]) => Current(pending[t])'
<1> DEFINE q == pending[t]
           ks == Ahead(q)
           rows == IF ks = <<>> THEN q.rows
                   ELSE Append(q.rows, Decode(entries[ks[1]], q.fields))
           call == <<"Scan", q.key, q.len, q.fields>>
           status == IF rows = <<>> THEN "kNotFound" ELSE "kOK"
           next == [key |-> q.key, len |-> q.len, fields |-> q.fields,
                    rows |-> rows, ahead |-> ks[1]]
<1>1. UNCHANGED <<conf, entries, writer>> /\ pc[t] = "scanning"
  BY DEF StepQuery
<1>2. TypeInv /\ StoreInv /\ ControlInv
  BY DEF IInv, TypeInv
<1>3. conf.binding.scan = "query" /\ q \in Queries(conf.keys)
  BY <1>1, <1>2 DEF ControlInv, PendingFits
<1>4. /\ q.key \in conf.keys /\ q.len \in 1 .. MaxScan /\ q.fields \in FieldLists
      /\ q.rows \in Seq(Seq(NamedValues)) /\ Len(q.rows) < q.len
  BY <1>3, PendingForms
<1>5. \/ /\ ks = <<>> \/ Len(rows) = q.len
         /\ Reply(call, status, rows)
         /\ pc' = [pc EXCEPT ![t] = "idle"]
         /\ pending' = [pending EXCEPT ![t] = None]
      \/ /\ ks # <<>> /\ Len(rows) # q.len
         /\ pending' = [pending EXCEPT ![t].rows = rows, ![t].ahead = ks[1]]
         /\ UNCHANGED <<pc, answer>>
  BY Zenon DEF StepQuery
<1>6. call[1] = "Scan" /\ Asked(call) = q.fields
  BY CallForms
<1>7. ks # <<>> => ks[1] \in Stored
  <2>1. ks \in Seq(Stored)
    BY <1>2, <1>3, AheadList
  <2> HIDE DEF ks
  <2>2. QED
    BY <2>1
<1>8. /\ rows \in Seq(Seq(NamedValues)) /\ Complete(rows, q.fields)
      /\ ks # <<>> => Len(rows) = Len(q.rows) + 1
  <2>1. Complete(q.rows, q.fields)
    BY <1>1 DEF IInv, CompleteInv
  <2>2. CASE ks = <<>>
    BY <1>4, <2>1, <2>2
  <2>3. CASE ks # <<>>
    <3> DEFINE row == Decode(entries[ks[1]], q.fields)
               old == q.rows
    <3>1. row \in Seq(NamedValues) /\ Len(row) = Len(q.fields)
      BY <1>2, <1>3, <1>4, <1>7, <2>3, TableForm
    <3>2. rows = Append(old, row)
      BY <2>3
    <3>3. old \in Seq(Seq(NamedValues))
      BY <1>4
    <3>4. Decodes => \A i \in DOMAIN old : Len(old[i]) = Len(q.fields)
      BY <2>1 DEF Complete
    <3> HIDE DEF row, old, rows, ks, q
    <3>5. rows \in Seq(Seq(NamedValues))
      BY <3>1, <3>2, <3>3
    <3>6. \A i \in DOMAIN rows : rows[i] = row \/ (i \in DOMAIN old /\ rows[i] = old[i])
      BY <3>1, <3>2, <3>3
    <3>7. Len(rows) = Len(old) + 1
      BY <3>2, <3>3
    <3>8. QED
      BY <3>1, <3>4, <3>5, <3>6, <3>7 DEF Complete, old
  <2>4. QED
    BY <2>2, <2>3
<1>9. WholeInv'
  BY <1>1 DEF IInv, WholeInv, WholeNow, Format, Bearable
<1>10. StoreInv'
  BY <1>1, <1>2, SameStore DEF StoreInv
<1>11. Decodes' = Decodes /\ Format' = Format
  BY <1>1 DEF Decodes, Format
<1> HIDE DEF rows, ks, call, status
\* The last step
<1>12. ASSUME ks = <<>> \/ Len(rows) = q.len,
              Reply(call, status, rows),
              pc' = [pc EXCEPT ![t] = "idle"],
              pending' = [pending EXCEPT ![t] = None]
       PROVE  /\ IInv' /\ pc'[t] = "idle"
              /\ \A u \in Threads \ {t} : pending'[u] = pending[u]
              /\ Current(q) => ScanAnswer(q.key, q.len, q.fields)
  <2>1. /\ ControlInv' /\ pc'[t] = "idle"
        /\ \A u \in Threads \ {t} : pc'[u] = pc[u] /\ pending'[u] = pending[u]
    <3>1. PendingFits(conf, "idle", None) /\ "idle" \in States
      BY DEF PendingFits, States
    <3>2. writer' \in Threads \cup {NoThread}
      BY <1>1, <1>2 DEF ControlInv
    <3>3. QED
      BY <1>1, <1>2, <1>12, <3>1, <3>2, MoveControl
  <2>2. AnswersRight
    <3>1. status \in {"kOK", "kNotFound"}
      BY DEF status
    <3>2. AnswerFits(call, status, rows)
      BY <1>6, <1>8, <3>1 DEF AnswerFits
    <3>3. QED
      BY <1>1, <1>12, <3>2, AnswerStep DEF AnswersRight
  <2>3. TypeInv'
    BY <1>10, <2>1, <2>2 DEF TypeInv, AnswersRight
  <2>4. SharingInv'
    <3>1. \A u \in Threads : pc'[u] = "updating" => pc[u] = "updating" /\ pending'[u] = pending[u]
      BY <2>1
    <3>2. QED
      BY <1>1, <3>1 DEF IInv, SharingInv, Fresh, Stored
  <2>5. CompleteInv'
    <3>1. \A u \in Threads : pc'[u] = "scanning" =>
            Complete(pending[u].rows, pending[u].fields)'
      BY <1>11, <2>1 DEF IInv, CompleteInv, Complete
    <3>2. QED
      BY <2>2, <3>1 DEF CompleteInv, AnswersRight
  <2>6. ASSUME Current(q) PROVE ScanAnswer(q.key, q.len, q.fields)
    <3>1. /\ rows = FoundRows(q.key, q.len, q.fields)
          /\ rows = <<>> => q.key \notin NowHeld
      <4> HIDE DEF q
      <4>1. QED
        BY <1>2, <1>3, <1>12, <2>6, QueryAnswer DEF rows, ks
    <3>2. QED
      BY <1>12, <3>1 DEF ScanAnswer, status, call
  <2>7. QED
    BY <1>9, <2>1, <2>3, <2>4, <2>5, <2>6 DEF IInv
\* A step before it
<1>13. ASSUME ks # <<>>, Len(rows) # q.len,
              pending' = [pending EXCEPT ![t].rows = rows, ![t].ahead = ks[1]],
              UNCHANGED <<pc, answer>>
       PROVE  /\ IInv'
              /\ \A u \in Threads \ {t} : pending'[u] = pending[u]
              /\ Current(q) => Current(pending[t])'
  <2>1. next \in Queries(conf.keys)
    <3>1. ks[1] \in conf.keys
      BY <1>2, <1>3, <1>7, <1>13, TableForm
    <3>2. Len(rows) < q.len /\ rows # <<>>
      <4>1. Len(q.rows) \in Nat /\ q.len \in Nat
        BY <1>4, ScanAssumption
      <4>2. Len(rows) = Len(q.rows) + 1
        BY <1>8, <1>13
      <4> HIDE DEF q
      <4>3. Len(rows) # 0 /\ Len(rows) < q.len
        BY <1>4, <1>13, <4>1, <4>2
      <4>4. QED
        BY <1>8, <4>3, NothingIn
    <3>3. next \in [key : conf.keys, len : 1 .. MaxScan, fields : FieldLists,
                    rows : Seq(Seq(NamedValues)), ahead : conf.keys]
      BY <1>4, <1>8, <3>1
    <3>4. next.rows = rows /\ next.len = q.len
      OBVIOUS
    <3> HIDE DEF next
    <3>5. QED
      BY <3>2, <3>3, <3>4 DEF Queries
  <2>2. pending' = [pending EXCEPT ![t] = next]
    <3>1. q = [key |-> q.key, len |-> q.len, fields |-> q.fields, rows |-> q.rows,
               ahead |-> q.ahead]
      <4> HIDE DEF q
      <4>1. QED
        BY <1>3 DEF Queries
    <3>2. [q EXCEPT !.rows = rows, !.ahead = ks[1]] = next
      <4> DEFINE key == q.key
                 len == q.len
                 fields == q.fields
                 was == q.rows
                 at == q.ahead
                 first == ks[1]
      <4>1. q = [key |-> key, len |-> len, fields |-> fields, rows |-> was, ahead |-> at]
        BY <3>1
      <4>2. next = [key |-> key, len |-> len, fields |-> fields, rows |-> rows, ahead |-> first]
        OBVIOUS
      <4> HIDE DEF key, len, fields, was, at, first, q, next
      <4>3. [q EXCEPT !.rows = rows, !.ahead = first] = next
        <5>1. [q EXCEPT !.rows = rows, !.ahead = first]
                = [key |-> key, len |-> len, fields |-> fields, rows |-> rows, ahead |-> first]
          <6> DEFINE r == [q EXCEPT !.rows = rows]
          <6>1. r = [key |-> key, len |-> len, fields |-> fields, rows |-> rows, ahead |-> at]
            BY <4>1
          <6>2. [q EXCEPT !.rows = rows, !.ahead = first] = [r EXCEPT !.ahead = first]
            OBVIOUS
          <6> HIDE DEF r
          <6>3. [r EXCEPT !.ahead = first]
                  = [key |-> key, len |-> len, fields |-> fields, rows |-> rows, ahead |-> first]
            BY <6>1
          <6>4. QED
            BY <6>2, <6>3
        <5>2. QED
          BY <4>2, <5>1
      <4>4. QED
        BY <4>3 DEF first
    <3>3. pending' = [pending EXCEPT ![t] = [pending[t] EXCEPT !.rows = rows, !.ahead = ks[1]]]
      BY <1>13
    <3>4. QED
      BY <3>2, <3>3
  <2>3. /\ next.rows = rows /\ next.fields = q.fields /\ next.key = q.key
        /\ next.len = q.len /\ next.ahead = ks[1]
    OBVIOUS
  <2> HIDE DEF next
  <2>4. /\ ControlInv' /\ pc'[t] = "scanning" /\ pending'[t] = next
        /\ \A u \in Threads \ {t} : pc'[u] = pc[u] /\ pending'[u] = pending[u]
    <3>1. PendingFits(conf, "scanning", next) /\ "scanning" \in States
      BY <1>3, <2>1 DEF PendingFits, States
    <3>2. writer' \in Threads \cup {NoThread}
      BY <1>1, <1>2 DEF ControlInv
    <3>3. pc' = [pc EXCEPT ![t] = "scanning"]
      BY <1>1, <1>2, <1>13 DEF ControlInv
    <3>4. QED
      BY <1>1, <1>2, <2>2, <3>1, <3>2, <3>3, MoveControl
  <2>5. TypeInv'
    BY <1>2, <1>10, <1>13, <2>4 DEF TypeInv, AnswerInv
  <2>6. Current(q) => Current(next)
    <3>1. SUFFICES ASSUME Current(q) PROVE Current(next)
      OBVIOUS
    <3> DEFINE p == From(Stored, q.key)
               n == Len(q.rows)
               D(i) == Delivered(p[i], q.fields)
    <3> HIDE DEF q
    <3>2. p = From(Stored, q.key) /\ n = Len(q.rows)
      OBVIOUS
    <3> HIDE DEF p, n
    <3>3. /\ p \in Seq(Stored) /\ n \in Nat /\ Len(p) \in Nat /\ n <= Len(p)
          /\ ks = <<>> <=> n = Len(p)
          /\ n < Len(p) => ks[1] = p[n + 1]
          /\ q.rows = [i \in 1 .. n |-> D(i)]
      BY <1>2, <1>3, <3>1, <3>2, QueryRows DEF ks
    <3>4. n < Len(p) /\ ks[1] = p[n + 1]
      BY <1>13, <3>3
    <3>5. \A i \in 1 .. n + 1 : p[i] \in Stored /\ Decode(entries[p[i]], q.fields) = D(i)
      BY <1>2, <1>3, <1>4, <3>3, <3>4, TableForm
    <3>6. rows = [i \in 1 .. n + 1 |-> D(i)] /\ Len(rows) = n + 1
      <4> DEFINE old == q.rows
      <4>1. old = [i \in 1 .. n |-> D(i)] /\ rows = Append(old, D(n + 1))
        BY <1>13, <3>3, <3>4, <3>5 DEF rows
      <4> HIDE DEF old, D
      <4>2. DOMAIN old = 1 .. n /\ Len(old) = n
        BY <3>3, <4>1
      <4>3. QED
        BY <3>3, <4>1, <4>2
    <3> DEFINE seen == Take(p, n + 1)
    <3>7. /\ DOMAIN seen = 1 .. n + 1 /\ Len(seen) = n + 1
          /\ \A i \in 1 .. n + 1 : seen[i] = p[i]
      <4> DEFINE m == IF n + 1 < Len(p) THEN n + 1 ELSE Len(p)
      <4>1. m = n + 1 /\ n + 1 \in Nat
        BY <3>3, <3>4
      <4>2. /\ DOMAIN seen = 1 .. m /\ Len(seen) = m
            /\ \A i \in 1 .. m : seen[i] = p[i]
        BY <3>3, <4>1, TakeForm
      <4> HIDE DEF m
      <4>3. QED
        BY <4>1, <4>2
    <3> HIDE DEF seen, D
    <3>8. rows = Rows(seen, q.fields)
      BY <3>5, <3>6, <3>7 DEF Rows
    <3>9. ks[1] = seen[Len(seen)]
      BY <3>3, <3>4, <3>7
    <3>10. seen = Take(From(Stored, next.key), Len(next.rows))
      BY <2>3, <3>2, <3>6 DEF seen
    <3>11. QED
      BY <2>3, <3>8, <3>9, <3>10 DEF Current
  <2>7. SharingInv'
    <3>1. \A u \in Threads : pc'[u] = "updating" =>
            pc[u] = "updating" /\ pending'[u] = pending[u]
      BY <2>4
    <3>2. QED
      BY <1>1, <3>1 DEF IInv, SharingInv, Fresh, Stored
  <2>8. CompleteInv'
    <3>1. \A u \in Threads \ {t} : pc'[u] = "scanning" =>
            Complete(pending[u].rows, pending[u].fields)'
      BY <1>11, <2>4 DEF IInv, CompleteInv, Complete
    <3>2. Complete(pending[t].rows, pending[t].fields)'
      BY <1>8, <1>11, <2>3, <2>4 DEF Complete
    <3>3. RowsComplete => RowsComplete'
      BY <1>11, <1>13 DEF RowsComplete
    <3>4. QED
      BY <1>1, <1>11, <3>1, <3>2, <3>3 DEF IInv, CompleteInv, Bearable
  <2>9. Current(next) => Current(pending[t])'
    BY <1>1, <2>4 DEF Current, Rows, Decode, Decodes, Format, Stored
  <2>10. QED
    BY <1>9, <2>4, <2>5, <2>6, <2>7, <2>8, <2>9 DEF IInv
<1>14. CASE /\ ks = <<>> \/ Len(rows) = q.len
            /\ Reply(call, status, rows)
            /\ pc' = [pc EXCEPT ![t] = "idle"]
            /\ pending' = [pending EXCEPT ![t] = None]
  <2>1. /\ IInv' /\ pc'[t] = "idle"
        /\ \A u \in Threads \ {t} : pending'[u] = pending[u]
        /\ Current(q) => ScanAnswer(q.key, q.len, q.fields)
    BY <1>12, <1>14
  <2>2. ~ Current(q) => MixedQuery
    BY <1>1 DEF MixedQuery
  <2>3. ~ Amid(t, "scanning")
    BY <2>1 DEF Amid
  <2>4. QED
    BY <1>1, <1>4, <2>1, <2>2, <2>3
<1>15. QED
  BY <1>1, <1>5, <1>13, <1>14

-----------------------------------------------------------------------------
(* Steps that change the answer only, and exceptions.                      *)

LEMMA QuietStep ==
  ASSUME IInv, UNCHANGED <<conf, entries, writer, pc, pending>>, AnswersRight
  PROVE  IInv'
<1>1. Decodes' = Decodes /\ Format' = Format /\ Stored' = Stored
  BY DEF Decodes, Format, Stored
<1>2. TypeInv'
  <2>1. StoreInv'
    BY <1>1, SameStore DEF IInv, TypeInv, StoreInv
  <2>2. ControlInv'
    BY SameControl DEF IInv, TypeInv, ControlInv
  <2>3. QED
    BY <2>1, <2>2 DEF TypeInv, AnswersRight
<1>3. WholeInv' /\ SharingInv'
  BY <1>1 DEF IInv, WholeInv, WholeNow, SharingInv, Fresh, Bearable
<1>4. CompleteInv'
  BY <1>1 DEF IInv, CompleteInv, AnswersRight, Complete
<1>5. QED
  BY <1>2, <1>3, <1>4 DEF IInv

LEMMA ThrowStep ==
  ASSUME IInv, NEW t \in Threads, Idle(t), Throw(t), conf' = conf,
         writer' \in Threads \cup {NoThread},
         \/ writer' = writer
         \/ \A u \in Threads : pc[u] # "updating"
  PROVE  IInv' /\ UNCHANGED <<conf, entries, answer>>
<1>1. /\ ControlInv'
      /\ pc'[t] = "thrown"
      /\ \A u \in Threads \ {t} : pc'[u] = pc[u]
      /\ UNCHANGED <<entries, pending, answer>>
  BY ThrowControl DEF IInv, TypeInv
<1>2. Decodes' = Decodes /\ Format' = Format /\ Stored' = Stored
  BY <1>1 DEF Decodes, Format, Stored
<1>3. TypeInv'
  <2>1. StoreInv'
    BY <1>1, <1>2, SameStore DEF IInv, TypeInv, StoreInv
  <2>2. QED
    BY <1>1, <2>1 DEF IInv, TypeInv, AnswerInv
<1>4. WholeInv'
  BY <1>1, <1>2 DEF IInv, WholeInv, WholeNow, Bearable
<1>5. /\ \A u \in Threads : pc'[u] = "updating" => pc[u] = "updating" /\ pending'[u] = pending[u]
      /\ \A u \in Threads : pc'[u] = "scanning" => pc[u] = "scanning" /\ pending'[u] = pending[u]
  BY <1>1
<1>6. SharingInv'
  BY <1>1, <1>2, <1>5 DEF IInv, SharingInv, Fresh
<1>7. CompleteInv'
  <2>1. RowsComplete => RowsComplete'
    BY <1>1, <1>2 DEF RowsComplete
  <2>2. QED
    BY <1>1, <1>2, <1>5, <2>1 DEF IInv, CompleteInv, Complete
<1>8. QED
  BY <1>1, <1>3, <1>4, <1>6, <1>7 DEF IInv

-----------------------------------------------------------------------------
(* Writes.                                                                 *)

\* Who has LMDB's write transaction to begin finds nobody in an update.
LEMMA WriterAlone ==
  ASSUME SharingInv, conf.binding.update = "txn", NoWriter
  PROVE  \A u \in Threads : pc[u] # "updating"
BY NoThreadAssumption DEF SharingInv, NoWriter

LEMMA WriteStep ==
  ASSUME IInv, NEW t \in Threads, NEW k, Idle(t),
         conf.binding.update = "txn" => NoWriter,
         UNCHANGED <<conf, writer, pc, pending>>,
         Shaped(Format, conf.keys, entries'),
         Format = "row" /\ Bearable(conf) => Whole(Format, conf.keys, entries'),
         NEW call, call[1] \notin {"Read", "Scan"},
         Reply(call, "kOK", <<>>)
  PROVE  IInv'
<1>1. Decodes' = Decodes /\ Format' = Format
  BY DEF Decodes, Format
<1>2. TypeInv /\ StoreInv /\ ControlInv /\ SharingInv
  BY DEF IInv, TypeInv
<1>3. StoreInv' /\ ControlInv'
  BY <1>2, SameStore, SameControl DEF ControlInv
<1>4. AnswersRight
  <2>1. AnswerFits(call, "kOK", <<>>)
    BY DEF AnswerFits, Owed
  <2>2. QED
    BY <2>1, AnswerStep DEF AnswersRight
<1>5. WholeInv'
  <2>1. Format # "row" => WholeNow'
    BY <1>1 DEF WholeNow, Whole
  <2>2. Format = "row" /\ Bearable(conf) => WholeNow'
    BY <1>1 DEF WholeNow
  <2>3. QED
    BY <1>1, <2>1, <2>2 DEF WholeInv, Bearable
<1>6. SharingInv'
  <2>1. conf.binding.update = "txn" => \A u \in Threads : pc[u] # "updating"
    BY <1>2, WriterAlone
  <2>2. QED
    BY <2>1 DEF SharingInv
<1>7. CompleteInv'
  BY <1>1, <1>4 DEF IInv, CompleteInv, AnswersRight, Complete, Bearable
<1>8. QED
  BY <1>3, <1>4, <1>5, <1>6, <1>7 DEF IInv, TypeInv, AnswersRight

\* What an operation that writes does to the records.
Overlaid(record, w) ==
  [f \in DOMAIN record \cup Named(w) |->
     IF f \in Named(w) THEN ValueOf(w, f) ELSE record[f]]

UpdateTook(k, w) ==
  \/ /\ k \in NowHeld \/ Named(w) = FieldNames
     /\ Becomes(Format, conf.keys, entries, entries', k, Overlaid(NowView(k), w))
     /\ Reply(<<"Update", k, w>>, "kOK", <<>>)
  \/ /\ k \notin NowHeld
     /\ Becomes(Format, conf.keys, entries, entries', k, <<>>)
     /\ \E status \in {"kOK", "kNotFound"} : Reply(<<"Update", k, w>>, status, <<>>)

InsertTook(k, w) ==
  /\ Becomes(Format, conf.keys, entries, entries', k, Overlaid(<<>>, w))
  /\ Reply(<<"Insert", k, w>>, "kOK", <<>>)

DeleteTook(k) ==
  /\ Becomes(Format, conf.keys, entries, entries', k, <<>>)
  /\ Reply(<<"Delete", k>>, "kOK", <<>>)

\* An entry with all fields
LEMMA EncodeRow ==
  ASSUME NEW w \in FullWrites, Format # "row"
  PROVE  /\ w \in Writes /\ IsRow(w) /\ Named(w) = FieldNames
         /\ IsEntry(Format, Encode(w))
         /\ \A record : DOMAIN record = FieldNames \/ record = <<>> =>
              Content(Format, Encode(w)) = Overlaid(record, w)
<1>1. w \in Writes /\ IsRow(w)
  BY WriteFields DEF FullWrites
<1>2. /\ Named(w) = FieldNames
      /\ \A f \in FieldNames : w[f + 1].value \in Values /\ ValueOf(w, f) = w[f + 1].value
  BY <1>1, RowFields
<1>3. \A record : DOMAIN record = FieldNames \/ record = <<>> => Overlaid(record, w) = RecordOf(w)
  <2>1. ASSUME NEW record, DOMAIN record = FieldNames \/ record = <<>>
        PROVE  Overlaid(record, w) = RecordOf(w)
    <3>1. DOMAIN record \cup Named(w) = FieldNames
      <4>1. DOMAIN <<>> = {}
        OBVIOUS
      <4>2. QED
        BY <1>2, <2>1, <4>1
    <3>2. QED
      BY <1>2, <3>1 DEF Overlaid, RecordOf
  <2>2. QED
    BY <2>1
<1>4. CASE Format = "table"
  <2>1. Encode(w) = RecordOf(w)
    BY <1>4 DEF Encode, RecordOf
  <2>2. Encode(w) \in [FieldNames -> Values]
    BY <1>2, <2>1 DEF RecordOf
  <2>3. QED
    BY <1>1, <1>2, <1>3, <1>4, <2>1, <2>2 DEF IsEntry, Content
<1>5. CASE Format # "table"
  <2>1. DeserializeRow(Encode(w)) = w
    <3>1. w \in Seq(NamedValues)
      BY <1>1 DEF IsRow, IsPrefix
    <3>2. DeserializeRow(SerializeRow(w)) = w
      BY <3>1, RoundTrip DEF NamedValues
    <3>3. QED
      BY <1>5, <3>2 DEF Encode
  <2>2. QED
    BY <1>1, <1>2, <1>3, <1>5, <2>1 DEF IsEntry, Content
<1>6. QED
  BY <1>4, <1>5

LEMMA NowTypes ==
  ASSUME IInv, NEW k \in conf.keys
  PROVE  /\ Format \in Formats /\ conf.keys \in SUBSET Keys /\ k \in Keys
         /\ Shaped(Format, conf.keys, entries)
         /\ BindingRules(conf.binding)
         /\ k \in NowHeld => DOMAIN NowView(k) = FieldNames
         /\ k \notin NowHeld => NowView(k) = <<>>
         /\ Bearable(conf) => WholeNow
<1>1. conf \in Configs /\ Shaped(Format, conf.keys, entries)
  BY DEF IInv, TypeInv, StoreInv
<1>2. /\ Format \in Formats /\ conf.keys \in SUBSET Keys /\ k \in Keys
      /\ BindingRules(conf.binding)
  BY <1>1, ConfTypes DEF Format
<1>3. k \in NowHeld => DOMAIN NowView(k) = FieldNames
  BY <1>1, <1>2, HeldIsPresent DEF NowHeld, NowView
<1>4. k \notin NowHeld => NowView(k) = <<>>
  BY DEF NowView, NowHeld, View
<1>5. Bearable(conf) => WholeNow
  BY DEF IInv, WholeInv
<1>6. QED
  BY <1>1, <1>2, <1>3, <1>4, <1>5

LEMMA PutEntry ==
  ASSUME IInv, NEW k \in conf.keys, Format # "row", NEW data, IsEntry(Format, data),
         Put(k, data)
  PROVE  /\ Shaped(Format, conf.keys, entries') /\ Keeps(entries, entries', k)
         /\ Becomes(Format, conf.keys, entries, entries', k, Content(Format, data))
<1>1. entries' = [a \in DOMAIN entries \cup {k} |-> IF a = k THEN data ELSE entries[a]]
  BY DEF Put, Stored
<1>2. Format \in Formats /\ conf.keys \in SUBSET Keys /\ Shaped(Format, conf.keys, entries)
  BY NowTypes
<1>3. QED
  BY <1>1, <1>2, PutStep

\* Putting a whole record
LEMMA PutAllFields ==
  ASSUME IInv, NEW k \in conf.keys, NEW w \in FullWrites, Format # "row",
         Put(k, Encode(w))
  PROVE  /\ Shaped(Format, conf.keys, entries') /\ Keeps(entries, entries', k)
         /\ Becomes(Format, conf.keys, entries, entries', k, Overlaid(NowView(k), w))
         /\ Becomes(Format, conf.keys, entries, entries', k, Overlaid(<<>>, w))
         /\ Named(w) = FieldNames
<1> DEFINE data == Encode(w)
<1>1. IsEntry(Format, data) /\ Named(w) = FieldNames
  BY EncodeRow
<1>2. Content(Format, data) = Overlaid(NowView(k), w) /\ Content(Format, data) = Overlaid(<<>>, w)
  BY NowTypes, EncodeRow
<1> HIDE DEF data
<1>3. Put(k, data)
  BY DEF data
<1>4. /\ Shaped(Format, conf.keys, entries')
      /\ Becomes(Format, conf.keys, entries, entries', k, Content(Format, data))
      /\ Keeps(entries, entries', k)
  BY <1>1, <1>3, PutEntry
<1>5. QED
  BY <1>1, <1>2, <1>4

\* Writing the fields of a row
LEMMA PutFields ==
  ASSUME IInv, NEW k \in conf.keys, NEW w \in Writes, Format = "row", PutBatch(k, w)
  PROVE  /\ Shaped(Format, conf.keys, entries')
         /\ WholeNow /\ (k \in NowHeld \/ Named(w) = FieldNames) =>
              Becomes(Format, conf.keys, entries, entries', k, Overlaid(NowView(k), w))
         /\ WholeNow /\ Named(w) = FieldNames =>
              Becomes(Format, conf.keys, entries, entries', k, Overlaid(<<>>, w))
<1> DEFINE record == [f \in FieldNames |->
                        IF f \in Named(w) THEN ValueOf(w, f) ELSE entries[BuildCompKey(k, f)]]
<1>1. Named(w) \subseteq FieldNames
  BY WriteFields
<1>2. entries' = [c \in DOMAIN entries \cup BatchOf(k, w) |->
                    IF c \in BatchOf(k, w) THEN ValueOf(w, FieldFromCompKey(c)) ELSE entries[c]]
  BY DEF PutBatch, BatchOf, Stored
<1>3. /\ Shaped(Format, conf.keys, entries')
      /\ WholeNow /\ (k \in NowHeld \/ Named(w) = FieldNames) =>
           Becomes(Format, conf.keys, entries, entries', k, record)
  BY <1>2, NowTypes, BatchStep DEF WholeNow, NowHeld
<1>4. k \in NowHeld => record = Overlaid(NowView(k), w)
  <2>1. SUFFICES ASSUME k \in NowHeld PROVE record = Overlaid(NowView(k), w)
    OBVIOUS
  <2>2. NowView(k) = [f \in FieldNames |-> entries[BuildCompKey(k, f)]]
    BY <2>1 DEF NowView, View, NowHeld
  <2>3. DOMAIN NowView(k) \cup Named(w) = FieldNames
    BY <1>1, <2>1, NowTypes
  <2>4. QED
    BY <2>2, <2>3 DEF Overlaid
<1>5. ASSUME Named(w) = FieldNames, NEW old, DOMAIN old = FieldNames \/ old = <<>>
      PROVE  record = Overlaid(old, w)
  <2>1. DOMAIN old \cup Named(w) = FieldNames
    <3>1. DOMAIN <<>> = {}
      OBVIOUS
    <3>2. QED
      BY <1>5, <3>1
  <2>2. QED
    BY <1>5, <2>1 DEF Overlaid
<1>6. Named(w) = FieldNames => record = Overlaid(NowView(k), w) /\ record = Overlaid(<<>>, w)
  BY <1>5, NowTypes
<1> HIDE DEF record
<1>7. QED
  BY <1>3, <1>4, <1>6

LEMMA InsertStep ==
  ASSUME IInv, NEW t \in Threads, NEW k \in conf.keys, NEW w \in FullWrites, Insert(t, k, w)
  PROVE  IInv' /\ conf' = conf /\ (Bearable(conf) => InsertTook(k, w))
<1> DEFINE call == <<"Insert", k, w>>
<1>1. /\ Idle(t) /\ NoWriter
      /\ Reply(call, "kOK", <<>>)
      /\ UNCHANGED <<conf, writer, pc, pending>>
  BY DEF Insert
<1>2. call[1] \notin {"Read", "Scan"}
  BY CallForms
<1>3. w \in Writes /\ Named(w) = FieldNames
  BY WriteFields, RowFields DEF FullWrites
<1>4. CASE Format # "row"
  <2>1. Put(k, Encode(w))
    BY <1>4 DEF Insert
  <2>2. /\ Shaped(Format, conf.keys, entries') /\ Keeps(entries, entries', k)
        /\ Becomes(Format, conf.keys, entries, entries', k, Overlaid(<<>>, w))
    BY <1>4, <2>1, PutAllFields
  <2>3. InsertTook(k, w)
    BY <1>1, <2>2 DEF InsertTook
  <2> HIDE DEF call
  <2>4. IInv'
    BY <1>1, <1>2, <1>4, <2>2, WriteStep
  <2>5. QED
    BY <1>1, <2>3, <2>4
<1>5. CASE Format = "row"
  <2>1. PutBatch(k, w)
    BY <1>5 DEF Insert
  <2>2. /\ Shaped(Format, conf.keys, entries')
        /\ Bearable(conf) => Becomes(Format, conf.keys, entries, entries', k, Overlaid(<<>>, w))
    BY <1>3, <1>5, <2>1, NowTypes, PutFields
  <2>3. Bearable(conf) => InsertTook(k, w)
    BY <1>1, <2>2 DEF InsertTook
  <2> HIDE DEF call
  <2>4. IInv'
    BY <1>1, <1>2, <1>5, <2>2, WriteStep DEF Becomes
  <2>5. QED
    BY <1>1, <2>3, <2>4
<1>6. QED
  BY <1>4, <1>5

LEMMA DeleteStep ==
  ASSUME IInv, NEW t \in Threads, NEW k \in conf.keys, Delete(t, k)
  PROVE  IInv' /\ conf' = conf /\ (Bearable(conf) => DeleteTook(k))
<1> DEFINE call == <<"Delete", k>>
<1>1. /\ Idle(t) /\ conf.binding.update # "txn"
      /\ Reply(call, "kOK", <<>>)
      /\ UNCHANGED <<conf, writer, pc, pending>>
  BY DEF Delete
<1>2. call[1] \notin {"Read", "Scan"}
  BY CallForms
<1>3. entries' = [a \in DOMAIN entries \ Goners(Format, k) |-> entries[a]]
  BY DEF Delete, Erase, Goners, Stored
<1>4. /\ Shaped(Format, conf.keys, entries')
      /\ WholeNow => Becomes(Format, conf.keys, entries, entries', k, <<>>)
      /\ Format # "row" => Keeps(entries, entries', k)
  BY <1>3, NowTypes, EraseStep DEF WholeNow
<1>5. Bearable(conf) => Becomes(Format, conf.keys, entries, entries', k, <<>>)
  BY <1>4, NowTypes
<1>6. Bearable(conf) => DeleteTook(k)
  BY <1>1, <1>5 DEF DeleteTook
<1> HIDE DEF call
<1>7. IInv'
  BY <1>1, <1>2, <1>4, <1>5, WriteStep DEF Becomes
<1>8. QED
  BY <1>1, <1>6, <1>7

LEMMA TxnDeleteStep ==
  ASSUME IInv, NEW t \in Threads, NEW k \in conf.keys, TxnDelete(t, k)
  PROVE  /\ IInv' /\ conf' = conf
         /\ Bearable(conf) => DeleteTook(k) \/ UNCHANGED <<entries, answer>>
<1> DEFINE call == <<"Delete", k>>
<1>1. /\ Idle(t) /\ conf.binding.update = "txn" /\ NoWriter
      /\ conf' = conf
  BY DEF TxnDelete
<1>2. call[1] \notin {"Read", "Scan"}
  BY CallForms
<1>3. Format # "row"
  BY <1>1, NowTypes DEF BindingRules, Format
<1>4. CASE k \in Stored
  <2>1. /\ Erase({k})
        /\ Reply(call, "kOK", <<>>)
        /\ UNCHANGED <<conf, writer, pc, pending>>
    BY <1>4 DEF TxnDelete
  <2>2. entries' = [a \in DOMAIN entries \ Goners(Format, k) |-> entries[a]]
    BY <1>3, <2>1 DEF Erase, Goners, Stored
  <2>3. /\ Shaped(Format, conf.keys, entries')
        /\ WholeNow => Becomes(Format, conf.keys, entries, entries', k, <<>>)
        /\ Keeps(entries, entries', k)
    BY <1>3, <2>2, NowTypes, EraseStep DEF WholeNow
  <2>4. Bearable(conf) => DeleteTook(k)
    BY <2>1, <2>3, NowTypes DEF DeleteTook
  <2> HIDE DEF call
  <2>5. IInv'
    BY <1>1, <1>2, <1>3, <2>1, <2>3, WriteStep
  <2>6. QED
    BY <1>1, <2>4, <2>5
<1>5. CASE k \notin Stored
  <2>1. Throw(t) /\ writer' = t
    BY <1>5 DEF TxnDelete
  <2>2. \A u \in Threads : pc[u] # "updating"
    BY <1>1, WriterAlone DEF IInv
  <2>3. IInv' /\ UNCHANGED <<conf, entries, answer>>
    BY <1>1, <2>1, <2>2, ThrowStep
  <2>4. QED
    BY <2>3
<1>6. QED
  BY <1>4, <1>5

-----------------------------------------------------------------------------
(* Updates.                                                                *)

\* What a row becomes
LEMMA ModifiedEntry ==
  ASSUME NEW row, IsRow(row), NEW w \in Writes, NEW data,
         data = SerializeRow(Modify(row, w))
  PROVE  IsEntry("single", data) /\ Content("single", data) = Overlaid(RecordOf(row), w)
<1> DEFINE m == Modify(row, w)
<1>1. /\ IsRow(m)
      /\ RecordOf(m) = [f \in FieldNames |->
                          IF f \in Named(w) THEN ValueOf(w, f) ELSE row[f + 1].value]
  BY ModifyRow
<1> HIDE DEF m
<1>2. m \in Seq(NamedValues)
  BY <1>1 DEF IsRow, IsPrefix
<1>3. DeserializeRow(SerializeRow(m)) = m
  BY <1>2, RoundTrip DEF NamedValues
<1>4. DeserializeRow(data) = m
  BY <1>3 DEF m
<1>5. IsEntry("single", data) /\ Content("single", data) = RecordOf(m)
  BY <1>1, <1>4 DEF IsEntry, Content
<1>6. FieldNames \cup Named(w) = FieldNames
  BY WriteFields
<1>7. RecordOf(m) = Overlaid(RecordOf(row), w)
  <2> DEFINE r == RecordOf(row)
  <2>1. DOMAIN r = FieldNames /\ \A f \in FieldNames : r[f] = row[f + 1].value
    BY DEF RecordOf
  <2> HIDE DEF r
  <2>2. Overlaid(r, w) = [f \in FieldNames |-> IF f \in Named(w) THEN ValueOf(w, f) ELSE r[f]]
    BY <1>6, <2>1 DEF Overlaid
  <2>3. QED
    BY <1>1, <2>1, <2>2 DEF r
<1>8. QED
  BY <1>5, <1>7

LEMMA UpdateAllFieldsStep ==
  ASSUME IInv, NEW t \in Threads, NEW k \in conf.keys, NEW w \in Writes,
         UpdateAllFields(t, k, w)
  PROVE  IInv' /\ conf' = conf /\ UpdateTook(k, w)
<1> DEFINE call == <<"Update", k, w>>
<1>1. /\ Idle(t) /\ conf.binding.update = "getPut"
      /\ Put(k, Encode(w))
      /\ Reply(call, "kOK", <<>>)
      /\ UNCHANGED <<conf, writer, pc, pending>>
  BY DEF UpdateAllFields, MayUpdate
<1>2. call[1] \notin {"Read", "Scan"}
  BY CallForms
<1>3. w \in FullWrites /\ Format # "row"
  <2>1. w \in FullWrites
    BY DEF UpdateAllFields, SkipsGet, FullWrites
  <2>2. QED
    BY <1>1, <2>1, NowTypes DEF BindingRules, Format
<1>4. /\ Shaped(Format, conf.keys, entries') /\ Keeps(entries, entries', k)
      /\ Becomes(Format, conf.keys, entries, entries', k, Overlaid(NowView(k), w))
      /\ Named(w) = FieldNames
  BY <1>1, <1>3, PutAllFields
<1>5. UpdateTook(k, w)
  BY <1>1, <1>4 DEF UpdateTook
<1> HIDE DEF call
<1>6. IInv'
  BY <1>1, <1>2, <1>3, <1>4, WriteStep
<1>7. QED
  BY <1>1, <1>5, <1>6

\* A thread gets the record it will put back.
LEMMA HoldStep ==
  ASSUME IInv, NEW t \in Threads, NEW k \in conf.keys, NEW w \in Writes, Idle(t),
         conf.binding.update \in {"getPut", "txn"}, k \in Stored,
         Hold(t, k, w), conf' = conf,
         IF conf.binding.update = "txn" THEN NoWriter /\ writer' = t ELSE writer' = writer
  PROVE  IInv' /\ UNCHANGED <<conf, entries, answer>>
<1> DEFINE row == DeserializeRow(entries[k])
           held == [key |-> k, values |-> w, row |-> row]
<1>1. /\ pc' = [pc EXCEPT ![t] = "updating"]
      /\ pending' = [pending EXCEPT ![t] = held]
      /\ UNCHANGED <<conf, entries, answer>>
  BY DEF Hold
<1>2. TypeInv /\ StoreInv /\ ControlInv /\ SharingInv
  BY DEF IInv, TypeInv
<1>3. Format = "single"
  BY <1>2, NowTypes DEF BindingRules, Format
<1>4. IsRow(row)
  BY <1>2, <1>3 DEF StoreInv, Shaped, IsEntry, Stored
<1> HIDE DEF row
<1>5. held \in Updates(conf.keys) /\ held.key = k /\ held.row = row
  BY <1>4 DEF Updates, IsRow, IsPrefix
<1>6. Fresh(held)
  BY <1>5 DEF Fresh, row
<1> HIDE DEF held
<1>7. /\ ControlInv' /\ pc'[t] = "updating" /\ pending'[t] = held
      /\ \A v \in Threads \ {t} : pc'[v] = pc[v] /\ pending'[v] = pending[v]
  <2>1. PendingFits(conf, "updating", held) /\ "updating" \in States
    BY <1>5 DEF PendingFits, States
  <2>2. writer' \in Threads \cup {NoThread}
    BY <1>2 DEF ControlInv
  <2>3. /\ conf' = conf /\ pc' = [pc EXCEPT ![t] = "updating"]
        /\ pending' = [pending EXCEPT ![t] = held] /\ ControlInv
    BY <1>1, <1>2
  <2>4. QED
    BY ONLY <2>1, <2>2, <2>3, t \in Threads, MoveControl
<1>8. Decodes' = Decodes /\ Format' = Format /\ Stored' = Stored
  BY <1>1 DEF Decodes, Format, Stored
<1>9. TypeInv'
  <2>1. StoreInv'
    BY <1>1, <1>2, <1>8, SameStore DEF StoreInv
  <2>2. QED
    BY <1>1, <1>2, <1>7, <2>1 DEF TypeInv, AnswerInv
<1>10. WholeInv'
  BY <1>1, <1>8 DEF IInv, WholeInv, WholeNow, Bearable
<1>11. SharingInv'
  <2>1. SUFFICES ASSUME conf.binding.update = "txn"
                 PROVE  \A v \in Threads : pc'[v] = "updating" =>
                          writer' = v /\ Fresh(pending[v])'
    BY <1>1 DEF SharingInv
  <2>2. \A v \in Threads : pc[v] # "updating"
    BY <1>2, <2>1, WriterAlone
  <2>3. \A v \in Threads : pc'[v] = "updating" => v = t
    BY <1>7, <2>2
  <2>4. Fresh(pending[t])'
    BY <1>1, <1>6, <1>7, <1>8 DEF Fresh
  <2>5. writer' = t
    BY <2>1
  <2>6. QED
    BY <2>3, <2>4, <2>5
<1>12. CompleteInv'
  <2>1. \A v \in Threads : pc'[v] = "scanning" =>
          v # t /\ pc[v] = "scanning" /\ pending'[v] = pending[v]
    BY <1>7
  <2>2. RowsComplete => RowsComplete'
    BY <1>1, <1>8 DEF RowsComplete
  <2>3. QED
    BY <1>1, <1>8, <2>1, <2>2 DEF IInv, CompleteInv, Complete, Bearable
<1>13. QED
  BY <1>1, <1>9, <1>10, <1>11, <1>12 DEF IInv

LEMMA NothingThere ==
  ASSUME IInv, NEW k \in conf.keys, k \notin NowHeld, WholeNow, entries' = entries
  PROVE  Becomes(Format, conf.keys, entries, entries', k, <<>>)
BY NowTypes DEF Becomes, NowView, WholeNow

LEMMA UpdateGetStep ==
  ASSUME IInv, NEW t \in Threads, NEW k \in conf.keys, NEW w \in Writes,
         UpdateGet(t, k, w)
  PROVE  IInv' /\ conf' = conf /\ (UNCHANGED <<entries, answer>> \/ UpdateTook(k, w))
<1> DEFINE call == <<"Update", k, w>>
<1>1. /\ Idle(t) /\ conf.binding.update = "getPut"
      /\ UNCHANGED <<conf, writer>>
  BY DEF UpdateGet, MayUpdate
<1>2. call[1] \notin {"Read", "Scan"}
  BY CallForms
<1>3. CASE k \in Stored
  <2>1. Hold(t, k, w)
    BY <1>3 DEF UpdateGet
  <2>2. IInv' /\ UNCHANGED <<conf, entries, answer>>
    BY <1>1, <1>3, <2>1, HoldStep
  <2>3. QED
    BY <2>2
<1>4. CASE k \notin Stored
  <2>1. Reply(call, "kNotFound", <<>>) /\ UNCHANGED <<entries, pc, pending>>
    BY <1>4 DEF UpdateGet
  <2>2. Format # "row"
    BY <1>1, NowTypes DEF BindingRules, Format
  <2>3. k \notin NowHeld /\ WholeNow
    BY <1>4, <2>2 DEF NowHeld, Held, Stored, WholeNow, Whole
  <2>4. UpdateTook(k, w)
    BY <2>1, <2>3, NothingThere DEF UpdateTook
  <2> HIDE DEF call
  <2>5. AnswersRight
    <3>1. AnswerFits(call, "kNotFound", <<>>)
      BY <1>2 DEF AnswerFits, Owed
    <3>2. QED
      BY <1>1, <2>1, <3>1, AnswerStep DEF AnswersRight
  <2>6. IInv'
    BY <1>1, <2>1, <2>5, QuietStep
  <2>7. QED
    BY <1>1, <2>4, <2>6
<1>5. QED
  BY <1>3, <1>4

LEMMA BeginUpdateStep ==
  ASSUME IInv, NEW t \in Threads, NEW k \in conf.keys, NEW w \in Writes,
         BeginUpdate(t, k, w)
  PROVE  IInv' /\ UNCHANGED <<conf, entries, answer>>
<1>1. /\ Idle(t) /\ conf.binding.update = "txn" /\ NoWriter
      /\ writer' = t /\ conf' = conf
  BY DEF BeginUpdate, MayUpdate
<1>2. CASE k \in Stored
  <2>1. Hold(t, k, w)
    BY <1>2 DEF BeginUpdate
  <2>2. QED
    BY <1>1, <1>2, <2>1, HoldStep
<1>3. CASE k \notin Stored
  <2>1. Throw(t)
    BY <1>3 DEF BeginUpdate
  <2>2. \A u \in Threads : pc[u] # "updating"
    BY <1>1, WriterAlone DEF IInv
  <2>3. QED
    BY <1>1, <2>1, <2>2, ThrowStep
<1>4. QED
  BY <1>2, <1>3

\* If nothing came between the get and the put, an update took effect.
LEMMA FinishUpdateStep ==
  ASSUME IInv, NEW t \in Threads, FinishUpdate(t)
  PROVE  /\ IInv' /\ conf' = conf
         /\ \/ LostUpdate
            \/ \E k \in conf.keys, w \in Writes : UpdateTook(k, w)
<1> DEFINE held == pending[t]
           k == held.key
           w == held.values
           data == SerializeRow(Modify(held.row, w))
           call == <<"Update", k, w>>
<1>1. /\ pc[t] = "updating" /\ conf' = conf
      /\ Put(k, data) /\ Reply(call, "kOK", <<>>)
      /\ pc' = [pc EXCEPT ![t] = "idle"]
      /\ pending' = [pending EXCEPT ![t] = None]
      /\ writer' = NoThread
  BY DEF FinishUpdate
<1>2. TypeInv /\ StoreInv /\ ControlInv /\ SharingInv
  BY DEF IInv, TypeInv
<1>3. conf.binding.update \in {"getPut", "txn"} /\ held \in Updates(conf.keys)
  BY <1>1, <1>2 DEF ControlInv, PendingFits
<1>4. k \in conf.keys /\ w \in Writes /\ IsRow(held.row)
  BY <1>3, PendingForms
<1>5. call[1] \notin {"Read", "Scan"}
  BY CallForms
<1>6. Format = "single" /\ \A v \in Threads : pc[v] # "scanning"
  <2>1. BindingRules(conf.binding)
    BY <1>4, NowTypes
  <2>2. Format = "single" /\ conf.binding.scan # "query"
    BY <1>3, <2>1 DEF BindingRules, Format
  <2>3. QED
    BY <1>2, <2>2 DEF ControlInv, PendingFits
<1>7. IsEntry(Format, data) /\ Content(Format, data) = Overlaid(RecordOf(held.row), w)
  BY <1>4, <1>6, ModifiedEntry
<1> HIDE DEF data, held
<1>8. /\ Shaped(Format, conf.keys, entries')
      /\ Becomes(Format, conf.keys, entries, entries', k, Content(Format, data))
      /\ Keeps(entries, entries', k)
  <2>1. Format # "row"
    BY <1>6
  <2> HIDE DEF k
  <2>2. QED
    BY <1>1, <1>4, <1>7, <2>1, PutEntry
<1>9. ASSUME Fresh(held) PROVE UpdateTook(k, w)
  <2>1. k \in DOMAIN entries /\ held.row = DeserializeRow(entries[k])
    BY <1>9 DEF Fresh, Stored, k
  <2>2. k \in NowHeld /\ NowView(k) = RecordOf(held.row)
    BY <1>6, <2>1 DEF NowHeld, NowView, Held, View, Content
  <2>3. QED
    BY <1>1, <1>7, <1>8, <2>2 DEF UpdateTook
<1> HIDE DEF k, call
<1>10. /\ ControlInv' /\ pc'[t] = "idle"
       /\ \A v \in Threads \ {t} : pc'[v] = pc[v] /\ pending'[v] = pending[v]
  <2>1. PendingFits(conf, "idle", None) /\ "idle" \in States
    BY DEF PendingFits, States
  <2>2. writer' \in Threads \cup {NoThread}
    BY <1>1
  <2>3. QED
    BY <1>1, <1>2, <2>1, <2>2, MoveControl
<1>11. Decodes' = Decodes /\ Format' = Format
  BY <1>1 DEF Decodes, Format
<1>12. AnswersRight
  <2>1. AnswerFits(call, "kOK", <<>>)
    BY <1>5 DEF AnswerFits, Owed
  <2>2. QED
    BY <1>1, <2>1, AnswerStep DEF AnswersRight
<1>13. TypeInv'
  <2>1. StoreInv'
    BY <1>1, <1>2, <1>8, SameStore
  <2>2. QED
    BY <1>10, <1>12, <2>1 DEF TypeInv, AnswersRight
<1>14. WholeInv'
  BY <1>6, <1>11 DEF WholeInv, WholeNow, Whole
<1>15. SharingInv'
  <2>1. SUFFICES ASSUME conf.binding.update = "txn"
                 PROVE  \A v \in Threads : pc'[v] # "updating"
    BY <1>1 DEF SharingInv
  <2>2. \A v \in Threads : pc[v] = "updating" => v = t
    BY <1>1, <1>2, <2>1 DEF SharingInv
  <2>3. QED
    BY <1>10, <2>2
<1>16. CompleteInv'
  <2>1. \A v \in Threads : pc'[v] # "scanning"
    BY <1>6, <1>10
  <2>2. QED
    BY <1>12, <2>1 DEF CompleteInv, AnswersRight
<1>17. Fresh(held) \/ LostUpdate
  <2>1. conf.binding.update = "txn" => Fresh(held)
    BY <1>1, <1>2 DEF SharingInv, held
  <2>2. conf.binding.update = "getPut" /\ ~ Fresh(held) => LostUpdate
    BY <1>1 DEF LostUpdate, held
  <2>3. QED
    BY <1>3, <2>1, <2>2
<1>18. QED
  BY <1>1, <1>4, <1>9, <1>13, <1>14, <1>15, <1>16, <1>17 DEF IInv, k

LEMMA MergeUpdateStep ==
  ASSUME IInv, NEW t \in Threads, NEW k \in conf.keys, NEW w \in Writes,
         MergeUpdate(t, k, w)
  PROVE  IInv' /\ conf' = conf /\ UpdateTook(k, w)
<1> DEFINE call == <<"Update", k, w>>
           row == DeserializeRow(entries[k])
           data == SerializeRow(Merge(row, w))
<1>1. /\ Idle(t) /\ conf.binding.update = "merge" /\ k \in Stored
      /\ Put(k, data) /\ Reply(call, "kOK", <<>>)
      /\ UNCHANGED <<conf, writer, pc, pending>>
  BY DEF MergeUpdate, MayUpdate
<1>2. call[1] \notin {"Read", "Scan"}
  BY CallForms
<1>3. Format = "single"
  BY <1>1, NowTypes DEF BindingRules, Format
<1>4. IsRow(row)
  BY <1>3, <1>1 DEF IInv, TypeInv, StoreInv, Shaped, IsEntry, Stored
<1>5. k \in NowHeld /\ NowView(k) = RecordOf(row)
  BY <1>3, <1>1 DEF NowHeld, NowView, Held, View, Content, Stored
<1> HIDE DEF row
<1>6. data = SerializeRow(Modify(row, w))
  BY <1>4, MergeRow
<1> HIDE DEF data
<1>7. IsEntry(Format, data) /\ Content(Format, data) = Overlaid(RecordOf(row), w)
  BY <1>3, <1>4, <1>6, ModifiedEntry
<1>8. /\ Shaped(Format, conf.keys, entries')
      /\ Becomes(Format, conf.keys, entries, entries', k, Content(Format, data))
      /\ Keeps(entries, entries', k)
  <2>1. Format # "row"
    BY <1>3
  <2>2. QED
    BY <1>1, <1>7, <2>1, PutEntry
<1>9. UpdateTook(k, w)
  BY <1>1, <1>5, <1>7, <1>8 DEF UpdateTook
<1> HIDE DEF call
<1>10. IInv'
  BY <1>3, <1>1, <1>2, <1>8, WriteStep
<1>11. QED
  BY <1>1, <1>9, <1>10

LEMMA BatchUpdateStep ==
  ASSUME IInv, NEW t \in Threads, NEW k \in conf.keys, NEW w \in Writes,
         BatchUpdate(t, k, w)
  PROVE  IInv' /\ conf' = conf /\ (Bearable(conf) => UpdateTook(k, w))
<1> DEFINE call == <<"Update", k, w>>
<1>1. /\ Idle(t) /\ conf.binding.update = "batch"
      /\ PutBatch(k, w) /\ Reply(call, "kOK", <<>>)
      /\ UNCHANGED <<conf, writer, pc, pending>>
  BY DEF BatchUpdate, MayUpdate
<1>2. call[1] \notin {"Read", "Scan"}
  BY CallForms
<1>3. Format = "row"
  BY <1>1, NowTypes DEF BindingRules, Format
<1>4. ASSUME Bearable(conf) PROVE WholeNow /\ (k \in NowHeld \/ Named(w) = FieldNames)
  <2>1. WholeNow
    BY <1>4, NowTypes
  <2>2. ~ conf.misses
    BY <1>3, <1>4 DEF Bearable, Format
  <2>3. Len(w) < FieldCount => CompKeys(k) \cap Stored # {}
    BY <1>3, <2>2 DEF BatchUpdate, MayUpdate
  <2>4. CASE Len(w) < FieldCount
    BY <1>3, <2>1, <2>3, <2>4 DEF WholeNow, Whole, NowHeld, Held, Stored
  <2>5. CASE ~ (Len(w) < FieldCount)
    <3>1. Len(w) = FieldCount
      <4> DEFINE n == Len(w)
      <4>1. n = 1 \/ n = FieldCount
        BY ListsAssumption
      <4>2. ~ (n < FieldCount)
        BY <2>5
      <4> HIDE DEF n
      <4>3. n = FieldCount
        BY <4>1, <4>2, FieldTypes
      <4>4. QED
        BY <4>3 DEF n
    <3>2. IsRow(w)
      BY <3>1, WriteFields
    <3>3. Named(w) = FieldNames
      BY <3>2, RowFields
    <3>4. QED
      BY <2>1, <3>3
  <2>6. QED
    BY <2>1, <2>4, <2>5
<1>5. /\ Shaped(Format, conf.keys, entries')
      /\ Bearable(conf) =>
           Becomes(Format, conf.keys, entries, entries', k, Overlaid(NowView(k), w))
  BY <1>1, <1>3, <1>4, PutFields
<1>6. Bearable(conf) => UpdateTook(k, w)
  BY <1>1, <1>4, <1>5 DEF UpdateTook
<1> HIDE DEF call
<1>7. IInv'
  BY <1>1, <1>2, <1>3, <1>5, WriteStep DEF Becomes
<1>8. QED
  BY <1>1, <1>6, <1>7

LEMMA SqlUpdateStep ==
  ASSUME IInv, NEW t \in Threads, NEW k \in conf.keys, NEW w \in Writes,
         SqlUpdate(t, k, w)
  PROVE  IInv' /\ conf' = conf /\ UpdateTook(k, w)
<1> DEFINE call == <<"Update", k, w>>
           record == IF k \in DOMAIN entries
                     THEN [f \in FieldNames |->
                             IF f \in Named(w) THEN ValueOf(w, f) ELSE entries[k][f]]
                     ELSE <<>>
<1>1. /\ Idle(t) /\ conf.binding.update = "sql"
      /\ entries' = Changed(k, w) /\ Reply(call, "kOK", <<>>)
      /\ UNCHANGED <<conf, writer, pc, pending>>
  BY DEF SqlUpdate, MayUpdate
<1>2. call[1] \notin {"Read", "Scan"}
  BY CallForms
<1>3. Format = "table"
  BY <1>1, NowTypes DEF BindingRules, Format
<1>4. NowHeld = DOMAIN entries /\ (k \in NowHeld => NowView(k) = entries[k])
  BY <1>3 DEF NowHeld, NowView, Held, View, Content
<1>5. record = IF k \in NowHeld THEN Overlaid(NowView(k), w) ELSE <<>>
  <2>1. k \in NowHeld => DOMAIN NowView(k) \cup Named(w) = FieldNames
    BY NowTypes, WriteFields
  <2>2. QED
    BY <1>4, <2>1 DEF Overlaid
<1>6. record = IF k \in DOMAIN entries
               THEN [f \in FieldNames |->
                       IF f \in Named(w) THEN ValueOf(w, f) ELSE entries[k][f]]
               ELSE <<>>
  OBVIOUS
<1> HIDE DEF record
<1>7. /\ Shaped("table", conf.keys, entries')
      /\ Becomes("table", conf.keys, entries, entries', k, record)
  <2>1. conf.keys \in SUBSET Keys /\ Shaped("table", conf.keys, entries)
    BY <1>3, NowTypes
  <2>2. entries' = [a \in DOMAIN entries |->
                      [f \in FieldNames |->
                         IF a = k /\ f \in Named(w) THEN ValueOf(w, f) ELSE entries[a][f]]]
    BY <1>1 DEF Changed, Stored
  <2>3. QED
    BY <1>6, <2>1, <2>2, ChangedStep
<1>8. UpdateTook(k, w)
  BY <1>1, <1>3, <1>5, <1>7 DEF UpdateTook
<1> HIDE DEF call
<1>9. IInv'
  BY <1>1, <1>2, <1>3, <1>7, WriteStep
<1>10. QED
  BY <1>1, <1>8, <1>9

-----------------------------------------------------------------------------
(* All steps.                                                              *)

\* What a step of a thread is to the store
Took ==
  \/ UNCHANGED <<entries, answer>>
  \/ \E k \in conf.keys :
       \/ /\ entries' = entries
          /\ \E fields \in FieldLists :
               \/ ReadAnswer(k, fields)
               \/ \E len \in 1 .. MaxScan : ScanAnswer(k, len, fields)
       \/ \E w \in Writes : UpdateTook(k, w)
       \/ \E w \in FullWrites : InsertTook(k, w)
       \/ DeleteTook(k)

\* The steps in which a binding is not atomic
Exceptional == LostUpdate \/ MixedQuery \/ RepeatedRow \/ CutScan

Goes == IInv' /\ conf' = conf /\ (Bearable(conf) => Took \/ Exceptional)

LEMMA QueryCallStep ==
  ASSUME IInv, NEW t \in Threads, NEW k \in conf.keys, NEW fields \in FieldLists,
         NEW len \in 1 .. MaxScan,
         \/ IteratorScan(t, k, len, fields) \/ RangeScan(t, k, len, fields)
         \/ CursorScan(t, k, len, fields) \/ NearScan(t, k, len, fields)
         \/ ScanCompKeyRM(t, k, len, fields) \/ StartQuery(t, k, len, fields)
  PROVE  Goes
<1>1. StoreInv /\ WholeInv
  BY DEF IInv, TypeInv
<1>2. ASSUME UNCHANGED <<conf, entries, writer, pc, pending>>, AnswersRight,
             Bearable(conf) => ScanAnswer(k, len, fields) \/ Exceptional
      PROVE  Goes
  <2>1. IInv'
    BY <1>2, QuietStep
  <2>2. Bearable(conf) => Took \/ Exceptional
    BY <1>2 DEF Took
  <2>3. QED
    BY <1>2, <2>1, <2>2 DEF Goes
<1>3. CASE \/ IteratorScan(t, k, len, fields) \/ RangeScan(t, k, len, fields)
           \/ CursorScan(t, k, len, fields)
  BY <1>1, <1>2, <1>3, EntryScanEffect
<1>4. CASE NearScan(t, k, len, fields) /\ Stored # {}
  <2>1. len = 1 \/ RepeatedRow
    <3>1. len = 1 \/ len \in 2 .. MaxScan
      BY ScanAssumption
    <3>2. QED
      BY <1>4, <3>1 DEF RepeatedRow
  <2>2. /\ UNCHANGED <<conf, entries, writer, pc, pending>>
        /\ AnswersRight
        /\ len = 1 => ScanAnswer(k, len, fields)
    BY <1>1, <1>4, NearScanEffect
  <2>3. QED
    BY <1>2, <2>1, <2>2 DEF Exceptional
<1>5. CASE NearScan(t, k, len, fields) /\ Stored = {}
  <2>1. Throw(t) /\ Idle(t) /\ UNCHANGED <<conf, writer>>
    BY <1>5 DEF NearScan
  <2>2. writer' \in Threads \cup {NoThread}
    BY <2>1 DEF IInv, TypeInv, ControlInv
  <2>3. IInv' /\ UNCHANGED <<conf, entries, answer>>
    BY <2>1, <2>2, ThrowStep
  <2>4. QED
    BY <2>3 DEF Goes, Took
<1>6. CASE ScanCompKeyRM(t, k, len, fields)
  <2>1. fields = AllFields \/ CutScan
    BY <1>6 DEF CutScan
  <2>2. /\ UNCHANGED <<conf, entries, writer, pc, pending>>
        /\ AnswersRight
        /\ Bearable(conf) /\ fields = AllFields => ScanAnswer(k, len, fields)
    BY <1>1, <1>6, RowScanEffect
  <2>3. QED
    BY <1>2, <2>1, <2>2 DEF Exceptional
<1>7. CASE StartQuery(t, k, len, fields)
  <2>1. IInv' /\ UNCHANGED <<conf, entries, answer>>
    BY <1>7, StartQueryStep
  <2>2. QED
    BY <2>1 DEF Goes, Took
<1>8. QED
  BY <1>3, <1>4, <1>5, <1>6, <1>7

LEMMA UpdateCallStep ==
  ASSUME IInv, NEW t \in Threads, NEW k \in conf.keys, NEW w \in Writes,
         \/ UpdateAllFields(t, k, w) \/ UpdateGet(t, k, w)
         \/ BeginUpdate(t, k, w) \/ BatchUpdate(t, k, w)
         \/ SqlUpdate(t, k, w) \/ MergeUpdate(t, k, w)
  PROVE  Goes
<1>1. \/ UpdateAllFields(t, k, w) \/ SqlUpdate(t, k, w) \/ MergeUpdate(t, k, w)
      \/ BatchUpdate(t, k, w)
      => IInv' /\ conf' = conf /\ (Bearable(conf) => UpdateTook(k, w))
  BY UpdateAllFieldsStep, SqlUpdateStep, MergeUpdateStep, BatchUpdateStep
<1>2. UpdateGet(t, k, w) \/ BeginUpdate(t, k, w)
      => IInv' /\ conf' = conf /\ (UNCHANGED <<entries, answer>> \/ UpdateTook(k, w))
  BY UpdateGetStep, BeginUpdateStep
<1>3. UpdateTook(k, w) => Took
  BY DEF Took
<1>4. UNCHANGED <<entries, answer>> => Took
  BY DEF Took
<1>5. QED
  BY <1>1, <1>2, <1>3, <1>4 DEF Goes

LEMMA CallStep ==
  ASSUME IInv, NEW t \in Threads, NEW k \in conf.keys, Call(t, k)
  PROVE  Goes
<1>1. ASSUME NEW fields \in FieldLists, Read(t, k, fields) \/ ReadCompKeyRM(t, k, fields)
      PROVE  Goes
  <2>1. /\ UNCHANGED <<conf, entries, writer, pc, pending>>
        /\ AnswersRight
        /\ Bearable(conf) => ReadAnswer(k, fields)
    BY <1>1, ReadEffect DEF IInv, TypeInv
  <2>2. IInv'
    BY <2>1, QuietStep
  <2>3. Bearable(conf) => Took
    BY <2>1 DEF Took
  <2>4. QED
    BY <2>1, <2>2, <2>3 DEF Goes
<1>2. ASSUME NEW w \in FullWrites, Insert(t, k, w) PROVE Goes
  <2>1. IInv' /\ conf' = conf /\ (Bearable(conf) => InsertTook(k, w))
    BY <1>2, InsertStep
  <2>2. Bearable(conf) => Took
    BY <2>1 DEF Took
  <2>3. QED
    BY <2>1, <2>2 DEF Goes
<1>3. CASE Delete(t, k) \/ TxnDelete(t, k)
  <2>1. /\ IInv' /\ conf' = conf
        /\ Bearable(conf) => DeleteTook(k) \/ UNCHANGED <<entries, answer>>
    BY <1>3, DeleteStep, TxnDeleteStep
  <2>2. Bearable(conf) => Took
    BY <2>1 DEF Took
  <2>3. QED
    BY <2>1, <2>2 DEF Goes
<1>4. QED
  BY <1>1, <1>2, <1>3, QueryCallStep, UpdateCallStep DEF Call

LEMMA NextStep ==
  ASSUME IInv, [Next]_vars
  PROVE  Goes
<1>1. CASE UNCHANGED vars
  <2>1. UNCHANGED <<conf, entries, writer, pc, pending, answer>>
    BY <1>1 DEF vars
  <2>2. IInv'
    BY <2>1 DEF IInv, TypeInv, StoreInv, ControlInv, AnswerInv, WholeInv, WholeNow, Bearable,
                SharingInv, Fresh, Stored, CompleteInv, Complete, RowsComplete, Format, Decodes
  <2>3. QED
    BY <2>1, <2>2 DEF Goes, Took
<1>2. CASE Gone
  BY <1>1, <1>2 DEF Gone
<1>3. ASSUME NEW t \in Threads, StepQuery(t) PROVE Goes
  <2>1. /\ IInv'
        /\ UNCHANGED <<conf, entries>>
        /\ \/ UNCHANGED answer
           \/ MixedQuery
           \/ \E k \in conf.keys, len \in 1 .. MaxScan, fields \in FieldLists :
                ScanAnswer(k, len, fields)
    BY <1>3, StepQueryStep
  <2>2. Took \/ Exceptional
    BY <2>1 DEF Took, Exceptional
  <2>3. QED
    BY <2>1, <2>2 DEF Goes
<1>4. ASSUME NEW t \in Threads, FinishUpdate(t) PROVE Goes
  <2>1. /\ IInv' /\ conf' = conf
        /\ LostUpdate \/ \E k \in conf.keys, w \in Writes : UpdateTook(k, w)
    BY <1>4, FinishUpdateStep
  <2>2. Took \/ Exceptional
    BY <2>1 DEF Took, Exceptional
  <2>3. QED
    BY <2>1, <2>2 DEF Goes
<1>5. QED
  BY <1>1, <1>2, <1>3, <1>4, CallStep DEF Next

LEMMA InitHolds ==
  ASSUME Init
  PROVE  IInv
<1>1. DOMAIN entries = {} /\ conf \in Configs /\ answer = None
  <2>1. DOMAIN <<>> = {}
    OBVIOUS
  <2>2. QED
    BY <2>1 DEF Init
<1>2. \A t \in Threads : pc[t] = "idle" /\ pending[t] = None
  BY DEF Init
<1>3. StoreInv
  <2>1. IsFiniteSet({})
    BY FS_EmptySet
  <2>2. QED
    BY <1>1, <2>1 DEF StoreInv, Shaped
<1>4. ControlInv
  BY <1>2 DEF Init, ControlInv, PendingFits, States
<1>5. WholeInv
  BY <1>1 DEF WholeInv, WholeNow, Whole
<1>6. SharingInv /\ AnswerInv /\ CompleteInv
  BY <1>1, <1>2 DEF SharingInv, AnswerInv, CompleteInv, RowsComplete
<1>7. QED
  BY <1>3, <1>4, <1>5, <1>6 DEF IInv, TypeInv

\* The inductive invariant holds: whatever the binding and its clients, the
\* entries are those of records and every thread holds what its place in an
\* operation asks for; in LMDB the record an update holds is the stored one,
\* and the records of the row format are whole if its keys allow it.
THEOREM StoreInvariant == Spec => []IInv
<1>1. Init => IInv
  BY InitHolds
<1>2. IInv /\ [Next]_vars => IInv'
  BY NextStep DEF Goes
<1>3. QED
  BY <1>1, <1>2, PTL DEF Spec

\* Type correctness, of every binding with any clients: what is stored has the
\* form of the format, every field of a serialized row once and in its place,
\* whatever updates overtake each other; and a thread has an operation pending
\* exactly between two calls of it.
THEOREM StoreTypes == Spec => []TypeOK
<1>1. IInv => TypeOK
  <2> SUFFICES ASSUME IInv PROVE TypeOK
    OBVIOUS
  <2>1. StoreInv /\ ControlInv /\ AnswerInv
    BY DEF IInv, TypeInv
  <2>2. conf \in Configs /\ conf.keys \in SUBSET Keys
    BY <2>1, ConfTypes DEF StoreInv
  <2>3. Stored \subseteq IF Format = "row" THEN UNION {CompKeys(k) : k \in Keys} ELSE Keys
    <3>1. Stored \subseteq IF Format = "row" THEN UNION {CompKeys(k) : k \in conf.keys}
                           ELSE conf.keys
      BY <2>1 DEF StoreInv, Shaped, Stored
    <3>2. UNION {CompKeys(k) : k \in conf.keys} \subseteq UNION {CompKeys(k) : k \in Keys}
      BY <2>2
    <3>3. QED
      BY <2>2, <3>1, <3>2
  <2>4. ASSUME NEW t \in Threads
        PROVE  pc[t] \in {"idle", "thrown"} <=> pending[t] = None
    <3>1. pc[t] \in States /\ PendingFits(conf, pc[t], pending[t])
      BY <2>1 DEF ControlInv
    <3>2. pc[t] = "updating" => pending[t] # None
      BY <3>1, PendingForms DEF PendingFits
    <3>3. pc[t] = "scanning" => pending[t] # None
      BY <3>1, PendingForms DEF PendingFits
    <3>4. QED
      BY <3>1, <3>2, <3>3 DEF PendingFits, States
  <2>5. ASSUME NEW e \in Stored PROVE IsEntryOf(entries[e])
    <3>1. Format \in Formats /\ IsEntry(Format, entries[e])
      BY <2>1, ConfTypes DEF StoreInv, Shaped, Stored, Format
    <3>2. CASE Format = "single"
      <4> DEFINE row == DeserializeRow(entries[e])
      <4>1. IsRow(row)
        BY <3>1, <3>2 DEF IsEntry
      <4> HIDE DEF row
      <4>2. row \in Seq(NamedValues) /\ Len(row) = FieldCount
        BY <4>1 DEF IsRow, IsPrefix
      <4>3. row \in [1 .. FieldCount -> NamedValues]
        BY <4>2
      <4>4. \A i \in 1 .. FieldCount : row[i].name = i - 1
        BY <4>1, <4>2 DEF IsRow, IsPrefix
      <4>5. IsWholeRow(row)
        BY <4>3, <4>4 DEF IsWholeRow, NamedValues
      <4>6. QED
        BY <3>2, <4>5 DEF IsEntryOf, row
    <3>3. CASE Format # "single"
      BY <3>1, <3>3 DEF Formats, IsEntry, IsEntryOf
    <3>4. QED
      BY <3>2, <3>3
  <2>6. QED
    BY <2>1, <2>2, <2>3, <2>4, <2>5 DEF TypeOK, ControlInv, AnswerInv, States
<1>2. QED
  BY <1>1, StoreInvariant, PTL

\* Every record read or scanned has all the fields that were asked for, as the
\* asserts of DeserializeRow, DeserializeRowFilter and the loops of
\* ReadCompKeyRM and ScanCompKeyRM say, but for scans of the row format for
\* some of the fields.  Only the row format asks something of the clients for
\* it.
THEOREM RecordsComplete ==
  ASSUME \A c \in Configs : Bearable(c)
  PROVE  Spec => []RowsComplete
<1>1. IInv => RowsComplete
  <2> SUFFICES ASSUME IInv PROVE RowsComplete
    OBVIOUS
  <2>1. Bearable(conf)
    BY DEF IInv, TypeInv, StoreInv
  <2>2. QED
    BY <2>1 DEF IInv, CompleteInv
<1>2. QED
  BY <1>1, StoreInvariant, PTL

-----------------------------------------------------------------------------
(* The refinement.                                                         *)

\* The abstract store orders keys, and overlays records, as this module does.
LEMMA SameOrder == \A S, k, n : AS!Take(AS!From(S, k), n) = Take(From(S, k), n)
<1>1. \A a, b : AS!Less(a, b) <=> Less(a, b)
  BY DEF AS!Less, Less
<1>2. \A S : AS!Cardinality(S) = Cardinality(S)
  BY Zenon DEF AS!Cardinality, Cardinality
<1>3. \A S : AS!Sorted(S) = Sorted(S)
  <2> TAKE S
  <2> DEFINE A(a) == AS!Cardinality({b \in S : AS!Less(b, a)})
             C(a) == Cardinality({b \in S : Less(b, a)})
             m == AS!Cardinality(S)
             n == Cardinality(S)
  <2>1. \A a : {b \in S : AS!Less(b, a)} = {b \in S : Less(b, a)}
    BY <1>1
  <2>2. m = n /\ \A a : A(a) = C(a)
    BY <1>2, <2>1
  <2>3. AS!Sorted(S) = [i \in 1 .. m |-> CHOOSE a \in S : A(a) = i - 1]
    BY Zenon DEF AS!Sorted
  <2>4. Sorted(S) = [i \in 1 .. n |-> CHOOSE a \in S : C(a) = i - 1]
    BY Zenon DEF Sorted
  <2> HIDE DEF A, C, m, n
  <2>5. \A i : (CHOOSE a \in S : A(a) = i - 1) = CHOOSE a \in S : C(a) = i - 1
    BY <2>2
  <2>6. QED
    BY <2>2, <2>3, <2>4, <2>5
<1>4. \A S, k : {a \in S : ~ AS!Less(a, k)} = {a \in S : ~ Less(a, k)}
  BY <1>1
<1>5. \A S, k : AS!From(S, k) = From(S, k)
  BY <1>3, <1>4 DEF AS!From, From
<1>6. \A s, n : AS!Take(s, n) = Take(s, n)
  BY DEF AS!Take, Take
<1>7. QED
  BY <1>5, <1>6

LEMMA SameOverlay ==
  \A record, w : AS!FieldsOf(w) = Named(w) /\ AS!Overlay(record, w) = Overlaid(record, w)
BY Zenon DEF AS!FieldsOf, AS!Overlay, Overlaid, Named, ValueOf

LEMMA SameAnswer ==
  ASSUME NEW call, NEW status, NEW rows
  PROVE  AS!Answer(call, status, rows) <=> Reply(call, status, rows)
BY DEF AS!Answer, Reply

\* The records now and next
LEMMA RecordsNow ==
  ASSUME IInv, Bearable(conf)
  PROVE  Records = [k \in Keys |-> NowView(k)]
<1>1. Records = [k \in Keys |-> RawRecord(Format, entries, k)]
  BY Zenon DEF Records, RecordAt, RawRecord, Stored
<1>2. /\ Format \in Formats /\ conf.keys \in SUBSET Keys
      /\ Shaped(Format, conf.keys, entries) /\ Whole(Format, conf.keys, entries)
  BY ConfTypes DEF IInv, TypeInv, StoreInv, WholeInv, WholeNow, Format
<1>3. \A k \in Keys : RawRecord(Format, entries, k) = NowView(k)
  BY <1>2, ViewIsRecord DEF NowView
<1>4. QED
  BY <1>1, <1>3

LEMMA RecordsNext ==
  ASSUME IInv', Bearable(conf), conf' = conf
  PROVE  Records' = [k \in Keys |-> View(Format, conf.keys, entries', k)]
<1>1. Records' = [k \in Keys |-> RawRecord(Format', entries', k)]
  BY Zenon DEF Records, RecordAt, RawRecord, Stored
<1>2. Format' = Format
  BY DEF Format
<1>3. /\ Format \in Formats /\ conf.keys \in SUBSET Keys
      /\ Shaped(Format, conf.keys, entries') /\ Whole(Format, conf.keys, entries')
  BY <1>2, ConfTypes DEF IInv, TypeInv, StoreInv, WholeInv, WholeNow, Format
<1>4. \A k \in Keys : RawRecord(Format, entries', k) = View(Format, conf.keys, entries', k)
  BY <1>3, ViewIsRecord
<1>5. QED
  BY <1>1, <1>2, <1>4

LEMMA PresentNow ==
  ASSUME IInv, Bearable(conf)
  PROVE  AS!Present = NowHeld /\ NowHeld \subseteq Keys
<1>1. /\ Format \in Formats /\ conf.keys \in SUBSET Keys
      /\ Shaped(Format, conf.keys, entries)
  BY ConfTypes DEF IInv, TypeInv, StoreInv, Format
<1>2. /\ NowHeld \subseteq conf.keys
      /\ \A k \in Keys : NowView(k) # <<>> <=> k \in NowHeld
  BY <1>1, HeldIsPresent DEF NowHeld, NowView
<1>3. \A k \in Keys : Records[k] = NowView(k)
  BY RecordsNow
<1>4. AS!Present = {k \in Keys : Records[k] # <<>>}
  BY DEF AS!Present
<1>5. QED
  BY <1>1, <1>2, <1>3, <1>4

\* What the abstract store reads of a record
LEMMA RowNow ==
  ASSUME IInv, Bearable(conf), NEW k \in Keys, NEW fields
  PROVE  AS!Row(k, fields) = Columns(NowView(k), fields)
<1>1. Records[k] = NowView(k)
  BY RecordsNow
<1>2. QED
  BY <1>1 DEF AS!Row, Columns

LEMMA FoundHeld ==
  ASSUME IInv, Bearable(conf), NEW k \in conf.keys, NEW len \in Nat
  PROVE  \A i \in DOMAIN Found(k, len) : Found(k, len)[i] \in NowHeld
<1> DEFINE p == From(NowHeld, k)
<1>1. p \in Seq(NowHeld)
  <2>1. StoreInv /\ WholeNow
    BY DEF IInv, TypeInv, WholeInv
  <2>2. NowHeld \in SUBSET ByteStrings /\ IsFiniteSet(NowHeld)
    <3>1. CASE Format = "row"
      BY <2>1, <3>1, RowWalk, ConfTypes DEF StoreInv
    <3>2. CASE Format # "row"
      BY <2>1, <3>2, StoredKeys
    <3>3. QED
      BY <3>1, <3>2
  <2>3. k \in ByteStrings
    BY <2>1, ConfTypes DEF StoreInv
  <2>4. QED
    BY <2>2, <2>3, FromLists
<1> HIDE DEF p
<1>2. \A i \in DOMAIN Take(p, len) : Take(p, len)[i] \in NowHeld
  BY <1>1, TakeForm
<1>3. QED
  BY <1>2 DEF Found, p

LEMMA SameRecords ==
  ASSUME conf' = conf, entries' = entries
  PROVE  UNCHANGED <<Records, Decodes>>
<1>1. Records = [k \in Keys |-> RawRecord(Format, entries, k)]
  BY Zenon DEF Records, RecordAt, RawRecord, Stored
<1>2. Records' = [k \in Keys |-> RawRecord(Format', entries', k)]
  BY Zenon DEF Records, RecordAt, RawRecord, Stored
<1>3. QED
  BY <1>1, <1>2 DEF Format, Decodes

LEMMA ReadRefines ==
  ASSUME IInv, Bearable(conf), conf' = conf, entries' = entries, NEW k \in conf.keys,
         NEW fields \in FieldLists, ReadAnswer(k, fields)
  PROVE  AS!ARead(k, fields)
<1> DEFINE row == AS!Row(k, fields)
<1>1. UNCHANGED <<Records, Decodes>>
  BY SameRecords
<1>2. AS!Present = NowHeld /\ k \in Keys
  BY PresentNow, NowTypes
<1>3. row = Columns(NowView(k), fields)
  BY <1>2, RowNow
<1>4. <<Delivered(k, fields)>> \in AS!Handed(<<row>>)
  <2>1. CASE Decodes
    BY <1>3, <2>1 DEF AS!Handed, Delivered
  <2>2. CASE ~ Decodes
    <3>1. DOMAIN <<row>> = {1}
      OBVIOUS
    <3>2. [i \in DOMAIN <<row>> |-> <<>>] = <<<<>>>>
      BY <3>1
    <3> HIDE DEF row
    <3>3. AS!Handed(<<row>>) = {<<>>, <<<<>>>>}
      BY <2>2, <3>2 DEF AS!Handed
    <3>4. Delivered(k, fields) = <<>>
      BY <2>2 DEF Delivered
    <3>5. QED
      BY <3>3, <3>4
  <2>3. QED
    BY <2>1, <2>2
<1>5. CASE k \in NowHeld
  <2>1. Reply(<<"Read", k, fields>>, "kOK", <<Delivered(k, fields)>>)
    BY <1>5 DEF ReadAnswer
  <2>2. AS!Answer(<<"Read", k, fields>>, "kOK", <<Delivered(k, fields)>>)
    BY <2>1 DEF AS!Answer, Reply
  <2>3. QED
    BY <1>1, <1>2, <1>4, <1>5, <2>2 DEF AS!ARead
<1>6. CASE k \notin NowHeld
  <2>1. Reply(<<"Read", k, fields>>, "kNotFound", <<>>)
    BY <1>6 DEF ReadAnswer
  <2>2. QED
    BY <1>1, <1>2, <1>6, <2>1 DEF AS!ARead, AS!Answer, Reply
<1>7. QED
  BY <1>5, <1>6

LEMMA ScanRefines ==
  ASSUME IInv, Bearable(conf), conf' = conf, entries' = entries, NEW k \in conf.keys,
         NEW len \in 1 .. MaxScan, NEW fields \in FieldLists, ScanAnswer(k, len, fields)
  PROVE  AS!AScan(k, len, fields)
<1> DEFINE found == Found(k, len)
           rows == [i \in DOMAIN found |-> AS!Row(found[i], fields)]
           call == <<"Scan", k, len, fields>>
<1>1. UNCHANGED <<Records, Decodes>>
  BY SameRecords
<1>2. AS!Present = NowHeld /\ NowHeld \subseteq Keys
  BY PresentNow
<1>3. AS!Take(AS!From(AS!Present, k), len) = found
  BY <1>2, SameOrder DEF Found
<1>4. \A i \in DOMAIN found : AS!Row(found[i], fields) = Columns(NowView(found[i]), fields)
  <2>1. len \in Nat
    BY ScanAssumption
  <2>2. \A i \in DOMAIN found : found[i] \in Keys
    BY <1>2, <2>1, FoundHeld
  <2>3. QED
    BY <2>2, RowNow
<1>5. Decodes => FoundRows(k, len, fields) = rows
  BY <1>4 DEF FoundRows, Delivered
<1>6. ~ Decodes => FoundRows(k, len, fields) = [i \in DOMAIN rows |-> <<>>]
  BY DEF FoundRows, Delivered
<1> HIDE DEF rows
<1>7. FoundRows(k, len, fields) \in AS!Handed(rows) /\ (~ Decodes => <<>> \in AS!Handed(rows))
  BY <1>5, <1>6 DEF AS!Handed
<1>8. AS!AScan(k, len, fields)
        <=> /\ \/ \E r \in AS!Handed(rows) : AS!Answer(call, "kOK", r)
               \/ k \notin AS!Present /\ AS!Answer(call, "kNotFound", <<>>)
            /\ UNCHANGED <<Records, Decodes>>
  BY <1>3 DEF AS!AScan, rows
<1> HIDE DEF call
<1>9. \/ Reply(call, "kOK", FoundRows(k, len, fields))
      \/ ~ Decodes /\ Reply(call, "kOK", <<>>)
      \/ k \notin NowHeld /\ Reply(call, "kNotFound", <<>>)
  BY DEF ScanAnswer, call
<1>10. QED
  BY <1>1, <1>2, <1>7, <1>8, <1>9 DEF AS!Answer, Reply

\* One record changes.
LEMMA StoreRefines ==
  ASSUME IInv, IInv', Bearable(conf), conf' = conf, NEW k \in conf.keys, NEW record,
         Becomes(Format, conf.keys, entries, entries', k, record)
  PROVE  /\ AS!Store(k, record)
         /\ record = NowView(k) => UNCHANGED Records
         /\ UNCHANGED Decodes
<1> DEFINE now(j) == NowView(j)
           next(j) == View(Format, conf.keys, entries', j)
<1>1. Records = [j \in Keys |-> now(j)]
  BY RecordsNow
<1>2. Records' = [j \in Keys |-> next(j)]
  BY RecordsNext
<1>3. \A j \in Keys : next(j) = IF j = k THEN record ELSE now(j)
  BY DEF Becomes, NowView
<1>4. k \in Keys
  BY NowTypes
<1>5. now(k) = NowView(k)
  OBVIOUS
<1> HIDE DEF now, next
<1>6. Records' = [Records EXCEPT ![k] = record]
  BY <1>1, <1>2, <1>3, <1>4
<1>7. record = NowView(k) => Records' = Records
  BY <1>1, <1>2, <1>3, <1>5
<1>8. QED
  BY <1>6, <1>7 DEF AS!Store, Decodes

LEMMA UpdateRefines ==
  ASSUME IInv, IInv', Bearable(conf), conf' = conf, NEW k \in conf.keys,
         NEW w \in Writes, UpdateTook(k, w)
  PROVE  AS!AUpdate(k, w)
<1> DEFINE call == <<"Update", k, w>>
<1>1. AS!Present = NowHeld /\ k \in Keys /\ Records[k] = NowView(k)
  BY PresentNow, NowTypes, RecordsNow
<1>2. AS!FieldsOf(w) = Named(w) /\ AS!Overlay(Records[k], w) = Overlaid(NowView(k), w)
  BY <1>1, SameOverlay
<1>3. CASE /\ k \in NowHeld \/ Named(w) = FieldNames
           /\ Becomes(Format, conf.keys, entries, entries', k, Overlaid(NowView(k), w))
           /\ Reply(call, "kOK", <<>>)
  <2>1. AS!Store(k, Overlaid(NowView(k), w)) /\ UNCHANGED Decodes
    BY <1>3, StoreRefines
  <2>2. AS!Answer(call, "kOK", <<>>)
    BY <1>3 DEF AS!Answer, Reply
  <2>3. QED
    BY <1>1, <1>2, <1>3, <2>1, <2>2 DEF AS!AUpdate
<1>4. CASE /\ k \notin NowHeld
           /\ Becomes(Format, conf.keys, entries, entries', k, <<>>)
           /\ \E status \in {"kOK", "kNotFound"} : Reply(call, status, <<>>)
  <2>1. NowView(k) = <<>>
    BY <1>4, NowTypes
  <2>2. UNCHANGED <<Records, Decodes>>
    BY <1>4, <2>1, StoreRefines
  <2>3. \E status \in {"kOK", "kNotFound"} : AS!Answer(call, status, <<>>)
    BY <1>4 DEF AS!Answer, Reply
  <2>4. QED
    BY <1>1, <1>4, <2>2, <2>3 DEF AS!AUpdate
<1>5. QED
  BY <1>3, <1>4 DEF UpdateTook

LEMMA InsertRefines ==
  ASSUME IInv, IInv', Bearable(conf), conf' = conf, NEW k \in conf.keys,
         NEW w \in FullWrites, InsertTook(k, w)
  PROVE  AS!AInsert(k, w)
<1>1. AS!Overlay(<<>>, w) = Overlaid(<<>>, w)
  BY SameOverlay
<1>2. AS!Store(k, Overlaid(<<>>, w)) /\ UNCHANGED Decodes
  BY StoreRefines DEF InsertTook
<1>3. AS!Answer(<<"Insert", k, w>>, "kOK", <<>>)
  BY DEF InsertTook, AS!Answer, Reply
<1>4. QED
  BY <1>1, <1>2, <1>3 DEF AS!AInsert

LEMMA DeleteRefines ==
  ASSUME IInv, IInv', Bearable(conf), conf' = conf, NEW k \in conf.keys, DeleteTook(k)
  PROVE  AS!ADelete(k)
<1>1. AS!Store(k, <<>>) /\ UNCHANGED Decodes
  BY StoreRefines DEF DeleteTook
<1>2. AS!Answer(<<"Delete", k>>, "kOK", <<>>)
  BY DEF DeleteTook, AS!Answer, Reply
<1>3. QED
  BY <1>1, <1>2 DEF AS!ADelete

LEMMA StepRefines ==
  ASSUME IInv, IInv', Bearable(conf), [Next]_vars
  PROVE  [AS!ANext \/ Exceptional]_(AS!avars)
<1>1. conf' = conf /\ (Took \/ Exceptional)
  BY NextStep DEF Goes
<1>2. CASE UNCHANGED <<entries, answer>>
  <2>1. UNCHANGED <<Records, Decodes, answer>>
    BY <1>1, <1>2, SameRecords
  <2>2. QED
    BY <2>1 DEF AS!avars
<1>3. ASSUME NEW k \in conf.keys,
             \/ /\ entries' = entries
                /\ \E fields \in FieldLists :
                     \/ ReadAnswer(k, fields)
                     \/ \E len \in 1 .. MaxScan : ScanAnswer(k, len, fields)
             \/ \E w \in Writes : UpdateTook(k, w)
             \/ \E w \in FullWrites : InsertTook(k, w)
             \/ DeleteTook(k)
      PROVE  AS!ANext
  <2>1. k \in Keys
    BY NowTypes
  <2>2. CASE DeleteTook(k)
    BY <1>1, <2>1, <2>2, DeleteRefines DEF AS!ANext
  <2>3. ASSUME NEW w \in FullWrites, InsertTook(k, w) PROVE AS!ANext
    <3>1. w \in Writes
      BY DEF FullWrites
    <3>2. QED
      BY <1>1, <2>1, <2>3, <3>1, InsertRefines DEF AS!ANext
  <2>4. ASSUME NEW w \in Writes, UpdateTook(k, w) PROVE AS!ANext
    BY <1>1, <2>1, <2>4, UpdateRefines DEF AS!ANext
  <2>5. ASSUME NEW fields \in FieldLists, entries' = entries, ReadAnswer(k, fields)
        PROVE  AS!ANext
    BY <1>1, <2>1, <2>5, ReadRefines DEF AS!ANext
  <2>6. ASSUME NEW fields \in FieldLists, NEW len \in 1 .. MaxScan, entries' = entries,
               ScanAnswer(k, len, fields)
        PROVE  AS!ANext
    BY <1>1, <2>1, <2>6, ScanRefines DEF AS!ANext
  <2>7. QED
    BY <1>3, <2>2, <2>3, <2>4, <2>5, <2>6
<1>4. QED
  BY <1>1, <1>2, <1>3 DEF Took

LEMMA InitRefines ==
  ASSUME Init, Bearable(conf)
  PROVE  AS!AInit
<1>1. IInv
  BY InitHolds
<1>2. DOMAIN entries = {}
  <2>1. DOMAIN <<>> = {}
    OBVIOUS
  <2>2. QED
    BY <2>1 DEF Init
<1>3. \A k \in Keys : NowView(k) = <<>>
  <2>1. NowHeld = {}
    <3>1. \A k : CompKeys(k) # {}
      BY FieldTypes DEF CompKeys
    <3>2. QED
      BY <1>2, <3>1 DEF NowHeld, Held
  <2>2. QED
    BY <2>1 DEF NowView, View, NowHeld
<1>4. Records = [k \in Keys |-> <<>>]
  BY <1>1, <1>3, RecordsNow
<1>5. answer = <<>> /\ Decodes \in BOOLEAN
  BY DEF Init, None, Decodes
<1>6. QED
  BY <1>4, <1>5 DEF AS!AInit

-----------------------------------------------------------------------------
(* What overtakes an operation between two of its calls.                   *)

\* The pending operations of those in the middle of one stay.
Waiting ==
  \A t \in Threads : Amid(t, "updating") \/ Amid(t, "scanning") => pending'[t] = pending[t]

LEMMA QuietOvertakes ==
  ASSUME UNCHANGED <<conf, entries>>, Waiting
  PROVE  OvertakenByWrites
<1>1. ASSUME NEW t \in Threads, Amid(t, "updating"), Fresh(pending[t]) PROVE Fresh(pending[t])'
  BY <1>1 DEF Waiting, Fresh, Stored
<1>2. ASSUME NEW t \in Threads, Amid(t, "scanning"), Current(pending[t])
      PROVE  Current(pending[t])'
  BY <1>2 DEF Waiting, Current, Rows, Decode, Decodes, Format, Stored
<1>3. QED
  BY <1>1, <1>2 DEF OvertakenByWrites

Writing == {"Insert", "Update", "Delete"}

LEMMA WriteOvertakes ==
  ASSUME IInv, NEW k \in conf.keys, conf' = conf, Waiting, Wrote(Writing, k),
         conf.binding.update \in {"getPut", "txn"} => Keeps(entries, entries', k)
  PROVE  OvertakenByWrites
<1>1. ASSUME NEW t \in Threads, Amid(t, "updating"), Fresh(pending[t]), pending[t].key # k
      PROVE  Fresh(pending[t])'
  <2>1. pending'[t] = pending[t]
    BY <1>1 DEF Waiting
  <2>2. conf.binding.update \in {"getPut", "txn"}
    BY <1>1 DEF IInv, TypeInv, ControlInv, PendingFits, Amid
  <2>3. pending[t].key \in DOMAIN entries \ {k}
    BY <1>1 DEF Fresh, Stored
  <2>4. /\ pending[t].key \in DOMAIN entries'
        /\ entries'[pending[t].key] = entries[pending[t].key]
    BY <2>2, <2>3 DEF Keeps
  <2>5. QED
    BY <1>1, <2>1, <2>4 DEF Fresh, Stored
<1>2. ASSUME NEW t \in Threads, Amid(t, "updating"), Fresh(pending[t]), ~ Fresh(pending[t])'
      PROVE  Wrote(Writing, pending[t].key)
  BY <1>1, <1>2
<1>3. QED
  BY <1>2 DEF OvertakenByWrites, Writing

LEMMA CallOvertakes ==
  ASSUME IInv, NEW t \in Threads, NEW k \in conf.keys, Call(t, k)
  PROVE  OvertakenByWrites
<1>1. ASSUME UNCHANGED <<conf, entries, pending>> PROVE OvertakenByWrites
  BY <1>1, QuietOvertakes DEF Waiting
<1>2. ASSUME UNCHANGED <<conf, entries>>, Idle(t), NEW p, pending' = [pending EXCEPT ![t] = p]
      PROVE  OvertakenByWrites
  <2>1. Waiting
    BY <1>2 DEF Waiting, Amid, Idle, IInv, TypeInv, ControlInv
  <2>2. QED
    BY <1>2, <2>1, QuietOvertakes
<1>3. ASSUME UNCHANGED <<conf, pending>>, Wrote(Writing, k),
             conf.binding.update \in {"getPut", "txn"} => Keeps(entries, entries', k)
      PROVE  OvertakenByWrites
  BY <1>3, WriteOvertakes DEF Waiting
<1>4. ASSUME NEW data, Put(k, data) PROVE Keeps(entries, entries', k)
  BY <1>4 DEF Put, Keeps, Stored
<1>5. ASSUME NEW fields \in FieldLists, Read(t, k, fields) \/ ReadCompKeyRM(t, k, fields)
      PROVE  OvertakenByWrites
  BY <1>1, <1>5 DEF Read, ReadCompKeyRM
<1>6. ASSUME NEW fields \in FieldLists, NEW len \in 1 .. MaxScan,
             \/ IteratorScan(t, k, len, fields) \/ RangeScan(t, k, len, fields)
             \/ CursorScan(t, k, len, fields) \/ NearScan(t, k, len, fields)
             \/ ScanCompKeyRM(t, k, len, fields) \/ StartQuery(t, k, len, fields)
      PROVE  OvertakenByWrites
  <2>1. CASE StartQuery(t, k, len, fields)
    BY <1>2, <2>1 DEF StartQuery
  <2>2. CASE NearScan(t, k, len, fields)
    BY <1>1, <2>2 DEF NearScan, Throw
  <2>3. QED
    BY <1>1, <1>6, <2>1, <2>2 DEF IteratorScan, RangeScan, CursorScan, ScanCompKeyRM
<1>7. ASSUME NEW w \in Writes, UpdateGet(t, k, w) \/ BeginUpdate(t, k, w)
      PROVE  OvertakenByWrites
  <2>1. Idle(t) /\ conf' = conf
    BY <1>7 DEF UpdateGet, BeginUpdate, MayUpdate
  <2>2. CASE k \in Stored
    BY <1>2, <1>7, <2>1, <2>2 DEF UpdateGet, BeginUpdate, Hold
  <2>3. CASE k \notin Stored
    BY <1>1, <1>7, <2>1, <2>3 DEF UpdateGet, BeginUpdate, Throw
  <2>4. QED
    BY <2>2, <2>3
<1>8. ASSUME NEW w \in Writes,
             \/ UpdateAllFields(t, k, w) \/ BatchUpdate(t, k, w)
             \/ SqlUpdate(t, k, w) \/ MergeUpdate(t, k, w)
      PROVE  OvertakenByWrites
  <2>1. Reply(<<"Update", k, w>>, "kOK", <<>>) /\ UNCHANGED <<conf, pending>>
    BY <1>8 DEF UpdateAllFields, BatchUpdate, SqlUpdate, MergeUpdate
  <2>2. Wrote(Writing, k)
    BY <2>1 DEF Reply, Wrote, Writing
  <2>3. conf.binding.update \in {"getPut", "txn"} => Keeps(entries, entries', k)
    <3>1. CASE UpdateAllFields(t, k, w)
      BY <1>4, <3>1 DEF UpdateAllFields
    <3>2. QED
      BY <1>8, <3>1 DEF BatchUpdate, SqlUpdate, MergeUpdate
  <2>4. QED
    BY <1>3, <2>1, <2>2, <2>3
<1>9. ASSUME NEW w \in FullWrites, Insert(t, k, w) PROVE OvertakenByWrites
  <2>1. Reply(<<"Insert", k, w>>, "kOK", <<>>) /\ UNCHANGED <<conf, pending>>
    BY <1>9 DEF Insert
  <2>2. Wrote(Writing, k)
    BY <2>1 DEF Reply, Wrote, Writing
  <2>3. conf.binding.update \in {"getPut", "txn"} => Keeps(entries, entries', k)
    <3>1. Format = "row" => conf.binding.update = "batch"
      BY NowTypes DEF BindingRules, Format
    <3>2. QED
      BY <1>4, <1>9, <3>1 DEF Insert
  <2>4. QED
    BY <1>3, <2>1, <2>2, <2>3
<1>10. CASE Delete(t, k) \/ TxnDelete(t, k)
  <2>1. CASE Throw(t) /\ conf' = conf
    BY <1>1, <2>1 DEF Throw
  <2>2. CASE /\ Reply(<<"Delete", k>>, "kOK", <<>>) /\ UNCHANGED <<conf, pending>>
             /\ Format # "row" => Erase({k})
    <3>1. Wrote(Writing, k)
      BY <2>2 DEF Reply, Wrote, Writing
    <3>2. Format = "row" => conf.binding.update = "batch"
      BY NowTypes DEF BindingRules, Format
    <3>3. Erase({k}) => Keeps(entries, entries', k)
      BY DEF Erase, Keeps, Stored
    <3>4. QED
      BY <1>3, <2>2, <3>1, <3>2, <3>3
  <2>3. TxnDelete(t, k) => conf.binding.update = "txn"
    BY DEF TxnDelete
  <2>4. QED
    BY <1>10, <2>1, <2>2 DEF Delete, TxnDelete
<1>11. QED
  BY <1>5, <1>6, <1>7, <1>8, <1>9, <1>10 DEF Call

LEMMA NextOvertakes ==
  ASSUME IInv, [Next]_vars
  PROVE  [OvertakenByWrites]_vars
<1>1. SUFFICES ASSUME Next, ~ UNCHANGED vars PROVE OvertakenByWrites
  OBVIOUS
<1>2. ASSUME NEW t \in Threads, StepQuery(t) PROVE OvertakenByWrites
  <2>1. /\ UNCHANGED <<conf, entries>>
        /\ \A u \in Threads \ {t} : pending'[u] = pending[u]
        /\ Amid(t, "scanning") /\ Current(pending[t]) => Current(pending[t])'
    BY <1>2, StepQueryStep
  <2>2. ~ Amid(t, "updating")
    BY <1>2 DEF StepQuery, Amid
  <2>3. ASSUME NEW u \in Threads, Amid(u, "updating"), Fresh(pending[u])
        PROVE  Fresh(pending[u])'
    <3>1. pending'[u] = pending[u]
      BY <2>1, <2>2, <2>3
    <3>2. QED
      BY <2>1, <2>3, <3>1 DEF Fresh, Stored
  <2>4. ASSUME NEW u \in Threads, Amid(u, "scanning"), Current(pending[u])
        PROVE  Current(pending[u])'
    <3>1. CASE u = t
      BY <2>1, <2>4, <3>1
    <3>2. CASE u # t
      <4>1. pending'[u] = pending[u]
        BY <2>1, <3>2
      <4>2. QED
        BY <2>1, <2>4, <4>1 DEF Current, Rows, Decode, Decodes, Format, Stored
    <3>3. QED
      BY <3>1, <3>2
  <2>5. QED
    BY <2>3, <2>4 DEF OvertakenByWrites
<1>3. ASSUME NEW t \in Threads, FinishUpdate(t) PROVE OvertakenByWrites
  <2> DEFINE u == pending[t]
             data == SerializeRow(Modify(u.row, u.values))
  <2>1. /\ pc[t] = "updating" /\ conf' = conf
        /\ Put(u.key, data) /\ Reply(<<"Update", u.key, u.values>>, "kOK", <<>>)
        /\ pc' = [pc EXCEPT ![t] = "idle"]
        /\ pending' = [pending EXCEPT ![t] = None]
    BY <1>3 DEF FinishUpdate
  <2>2. u.key \in conf.keys
    BY <2>1, PendingForms DEF IInv, TypeInv, ControlInv, PendingFits
  <2> HIDE DEF u, data
  <2>3. Waiting
    BY <2>1 DEF Waiting, Amid, IInv, TypeInv, ControlInv
  <2>4. Wrote(Writing, u.key)
    BY <2>1 DEF Reply, Wrote, Writing
  <2>5. Keeps(entries, entries', u.key)
    BY <2>1 DEF Put, Keeps, Stored
  <2>6. QED
    BY <2>1, <2>2, <2>3, <2>4, <2>5, WriteOvertakes
<1>4. QED
  BY <1>1, <1>2, <1>3, CallOvertakes DEF Next, Gone

-----------------------------------------------------------------------------
(* The theorems.                                                           *)

\* The refinement, for any keys, values and number of threads that write and
\* scan as they please: every step of every binding is an operation of the
\* store of core/db.h, that takes effect as a whole and returns what it read,
\* unless an update puts back a record that was overtaken, a query goes on
\* after it was, WiredTiger repeats a row, or the row format is scanned for
\* some of the fields.  And an update is overtaken only by an operation of
\* another thread that writes the same key between its get and its put.
THEOREM StoreIsAtomic ==
  ASSUME \A c \in Configs : Bearable(c)
  PROVE  Spec => AtomicButOvertaken
<1>1. Init => AS!AInit
  BY InitRefines DEF Init
<1>2. IInv /\ IInv' /\ [Next]_vars =>
        [\/ AS!ANext
         \/ LostUpdate \/ MixedQuery \/ RepeatedRow \/ CutScan]_(AS!avars)
  BY StepRefines DEF IInv, TypeInv, StoreInv, Exceptional
<1>3. IInv /\ [Next]_vars => [OvertakenByWrites]_vars
  BY NextOvertakes
<1>4. QED
  BY <1>1, <1>2, <1>3, StoreInvariant, PTL DEF Spec, AtomicButOvertaken

\* With LMDB's write transactions, or the merge operator, there is no
\* exception: the binding implements the store of core/db.h, whatever its
\* clients do at the same time.  No update is lost, without anything assumed of
\* the others.  (Merging into a missing record has no defined behaviour and is
\* no step of the model.)
THEOREM TransactionsAreAtomic ==
  ASSUME \A c \in Configs : c.binding.update \in {"txn", "merge"}
  PROVE  Spec => IsAtomicStore
<1>1. ASSUME NEW c \in Configs
      PROVE  /\ Bearable(c) /\ c.binding.format # "row"
             /\ c.binding.scan \notin {"query", "near"}
  BY <1>1, ConfTypes DEF BindingRules, Bearable
<1>2. Init => AS!AInit
  BY <1>1, InitRefines DEF Init
<1>3. ASSUME IInv, IInv', [Next]_vars PROVE [AS!ANext]_(AS!avars)
  <2>1. /\ conf \in Configs
        /\ \A t \in Threads : PendingFits(conf, pc[t], pending[t])
    BY <1>3 DEF IInv, TypeInv, StoreInv, ControlInv
  <2>2. Bearable(conf) /\ [AS!ANext \/ Exceptional]_(AS!avars)
    BY <1>1, <1>3, <2>1, StepRefines
  <2>3. ~ LostUpdate
    BY <2>1 DEF LostUpdate
  <2>4. ~ MixedQuery
    BY <1>1, <2>1 DEF MixedQuery, PendingFits
  <2>5. ~ RepeatedRow /\ ~ CutScan
    BY <1>1, <2>1 DEF RepeatedRow, CutScan, NearScan, ScanCompKeyRM, Format
  <2>6. QED
    BY <2>2, <2>3, <2>4, <2>5 DEF Exceptional
<1>4. QED
  BY <1>2, <1>3, StoreInvariant, PTL DEF Spec, IsAtomicStore, AS!ASpec

=============================================================================
