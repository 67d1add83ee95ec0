------------------------------ MODULE SumProofs ------------------------------
(***************************************************************************)
(* Proofs about the shares of the client threads, for every number of      *)
(* threads and every total, and about sums over finite sets.               *)
(***************************************************************************)
EXTENDS OpShare, Functions, FiniteSetTheorems, TLAPS

\* Division with remainder.
LEMMA Division ==
  ASSUME NEW n \in Nat \ {0}, NEW a \in Nat
  PROVE  /\ a \div n \in Nat
         /\ a % n \in 0 .. n - 1
         /\ a = n * (a \div n) + (a % n)
  BY Z3

\* A larger factor makes a multiple of n larger by at least n.
LEMMA MultiplesApart ==
  ASSUME NEW n \in Nat \ {0}, NEW p \in Int, NEW q \in Int, p < q
  PROVE  n * p + n <= n * q
  BY Z3

\* There is only one remainder.
LEMMA RemainderUnique ==
  ASSUME NEW n \in Nat \ {0}, NEW a \in Nat, NEW q \in Int,
         NEW r \in 0 .. n - 1, a = n * q + r
  PROVE  a % n = r
<1> DEFINE p == a \div n
           s == a % n
<1>1. p \in Nat /\ s \in 0 .. n - 1 /\ a = n * p + s
  BY Division
<1> HIDE DEF p, s
<1>2. ~(p < q)
  <2>1. p < q => n * p + n <= n * q
    BY <1>1, MultiplesApart
  <2>2. QED
    BY <1>1, <2>1
<1>3. ~(q < p)
  <2>1. q < p => n * q + n <= n * p
    BY <1>1, MultiplesApart
  <2>2. QED
    BY <1>1, <2>1
<1>4. p = q
  BY <1>1, <1>2, <1>3
<1>5. QED
  BY <1>1, <1>4 DEF s

\* The shares of n threads cut 0 .. total - 1 into consecutive blocks.
THEOREM PartitionTheorem ==
  ASSUME NEW n \in Nat \ {0}, NEW total \in Nat
  PROVE  SharesPartition(total, n)
<1> DEFINE q == total \div n
           r == total % n
<1>1. q \in Nat /\ r \in 0 .. n - 1 /\ total = n * q + r
  BY Division
<1> HIDE DEF q, r
<1>2. Offset(total, n, 0) = 0
  BY <1>1 DEF Offset, q, r
<1>3. Offset(total, n, n) = total
  <2>1. ~(n < r)
    BY <1>1
  <2>2. Offset(total, n, n) = q * n + r
    BY <1>1, <2>1 DEF Offset, q, r
  <2>3. QED
    BY <1>1, <2>2
<1>4. ASSUME NEW i \in 0 .. n - 1
      PROVE  Offset(total, n, i + 1) = Offset(total, n, i) + Share(total, n, i)
  <2>1. Offset(total, n, i + 1) =
          q * (i + 1) + (IF i + 1 < r THEN i + 1 ELSE r)
    BY DEF Offset, q, r
  <2>2. Offset(total, n, i) = q * i + (IF i < r THEN i ELSE r)
    BY DEF Offset, q, r
  <2>3. Share(total, n, i) = q + (IF i < r THEN 1 ELSE 0)
    BY DEF Share, q, r
  <2>4. q * (i + 1) = q * i + q /\ q * i \in Int
    BY <1>1
  <2>5. QED
    BY <1>1, <2>1, <2>2, <2>3, <2>4
<1>5. QED
  BY <1>2, <1>3, <1>4 DEF SharesPartition

\* A smaller total never gives a larger share, so the warmup operations of a
\* thread are never more than its operations.
THEOREM MonotoneTheorem ==
  ASSUME NEW n \in Nat \ {0}, NEW less \in Nat, NEW total \in Nat
  PROVE  SharesMonotone(less, total, n)
<1> SUFFICES ASSUME less <= total, NEW i \in 0 .. n - 1
             PROVE  Share(less, n, i) <= Share(total, n, i)
  BY DEF SharesMonotone
<1> DEFINE p == less \div n
           q == total \div n
           x == less % n
           y == total % n
<1>1. /\ p \in Nat /\ x \in 0 .. n - 1 /\ less = n * p + x
      /\ q \in Nat /\ y \in 0 .. n - 1 /\ total = n * q + y
  BY Division
<1>2. /\ Share(less, n, i) = p + (IF i < x THEN 1 ELSE 0)
      /\ Share(total, n, i) = q + (IF i < y THEN 1 ELSE 0)
  BY DEF Share
<1> HIDE DEF p, q, x, y
<1>3. CASE p < q
  BY <1>1, <1>2, <1>3
<1>4. CASE p = q
  <2>1. x <= y
    BY <1>1, <1>4
  <2>2. QED
    BY <1>1, <1>2, <1>4, <2>1
<1>5. CASE q < p
  <2>1. n * q + n <= n * p
    BY <1>1, <1>5, MultiplesApart
  <2>2. QED
    BY <1>1, <2>1
<1>6. QED
  BY <1>1, <1>3, <1>4, <1>5

\* A share is a natural number.
LEMMA ShareType ==
  ASSUME NEW n \in Nat \ {0}, NEW total \in Nat, NEW i \in 0 .. n - 1
  PROVE  Share(total, n, i) \in Nat
<1>1. total \div n \in Nat
  BY Division
<1>2. QED
  BY <1>1 DEF Share

\* No share is larger than the total.
LEMMA ShareBelow ==
  ASSUME NEW n \in Nat \ {0}, NEW total \in Nat, NEW i \in 0 .. n - 1
  PROVE  Share(total, n, i) <= total
<1> DEFINE q == total \div n
           r == total % n
<1>1. q \in Nat /\ r \in 0 .. n - 1 /\ total = n * q + r
  BY Division
<1> HIDE DEF q, r
<1>2. q <= n * q
  BY <1>1, Z3
<1>3. Share(total, n, i) = q + (IF i < r THEN 1 ELSE 0)
  BY DEF Share, q, r
<1>4. QED
  BY <1>1, <1>2, <1>3

\* n more things are one more for each of n threads.
THEOREM GrowTheorem ==
  ASSUME NEW n \in Nat \ {0}, NEW total \in Nat
  PROVE  SharesGrow(total, n)
<1> DEFINE m == total + n
           p == total \div n
           q == m \div n
           s == p + 1
           x == total % n
           y == m % n
<1>1. m \in Nat /\ m = total + n
  OBVIOUS
<1> HIDE DEF m
<1>2. /\ p \in Nat /\ x \in 0 .. n - 1 /\ total = n * p + x
      /\ q \in Nat /\ y \in 0 .. n - 1 /\ m = n * q + y
  BY <1>1, Division
<1> HIDE DEF p, q, x, y
<1>3. s \in Int /\ n * s = n * p + n
  BY <1>2
<1> HIDE DEF s
<1>4. ~(s < q)
  <2>1. SUFFICES ASSUME s < q PROVE FALSE
    OBVIOUS
  <2>2. n * s + n <= n * q
    BY <1>2, <1>3, <2>1, MultiplesApart
  <2>3. QED
    BY <1>1, <1>2, <1>3, <2>2
<1>5. ~(q < s)
  <2>1. SUFFICES ASSUME q < s PROVE FALSE
    OBVIOUS
  <2>2. n * q + n <= n * s
    BY <1>2, <1>3, <2>1, MultiplesApart
  <2>3. QED
    BY <1>1, <1>2, <1>3, <2>2
<1>6. q = s
  BY <1>2, <1>3, <1>4, <1>5
<1>7. x = y
  BY <1>1, <1>2, <1>3, <1>6
<1>8. QED
  BY <1>2, <1>6, <1>7 DEF SharesGrow, Share, m, p, q, x, y, s

\* If the run has at least one operation per thread more than its warmup,
\* every thread comes to the warmup barrier: its warmup share is smaller than
\* its share of the operations.
THEOREM BarrierTheorem ==
  ASSUME NEW n \in Nat \ {0}, NEW warmup \in Nat, NEW ops \in Nat,
         warmup + n <= ops
  PROVE  \A i \in 0 .. n - 1 : Share(warmup, n, i) < Share(ops, n, i)
<1> TAKE i \in 0 .. n - 1
<1>1. Share(warmup + n, n, i) = Share(warmup, n, i) + 1
  BY GrowTheorem DEF SharesGrow
<1>2. Share(warmup + n, n, i) <= Share(ops, n, i)
  <2>1. warmup + n \in Nat
    OBVIOUS
  <2>2. SharesMonotone(warmup + n, ops, n)
    BY <2>1, MonotoneTheorem
  <2>3. QED
    BY <2>2 DEF SharesMonotone
<1>3. Share(warmup, n, i) \in Int /\ Share(ops, n, i) \in Int
  BY Division DEF Share
<1>4. QED
  BY <1>1, <1>2, <1>3

-----------------------------------------------------------------------------
(***************************************************************************)
(* Sums over finite sets.  SumFunctionOnSet(f, S) peels one chosen element *)
(* of S after the other; the lemmas say that the order does not matter.    *)
(***************************************************************************)

\* A collection of subsets of a finite set has a minimal member.
LEMMA MinimalSubset ==
  ASSUME NEW S, IsFiniteSet(S), NEW D \in SUBSET SUBSET S, D # {}
  PROVE  \E s \in D : \A t \in D : t \subseteq s => t = s
<1>1. IsWellFoundedOn(StrictSubsetOrdering(S), SUBSET S)
  BY FS_StrictSubsetOrderingWellFounded, FS_FiniteSubsetsOfFinite
<1>2. PICK s \in D : \A t \in D : ~ (<<t, s>> \in StrictSubsetOrdering(S))
  BY <1>1, WFMin
<1>3. \A t \in D : t \subseteq s => t = s
  BY <1>2 DEF StrictSubsetOrdering
<1>4. QED
  BY <1>3

\* The sum of f over a set, from the sums g over smaller sets
Peel(f, g, s) ==
  IF s = {} THEN 0
  ELSE LET x == CHOOSE x \in s : TRUE IN f[x] + g[s \ {x}]

\* g gives the sum of f over every subset of S.
IsSum(g, f, S) == g = [s \in SUBSET S |-> Peel(f, g, s)]

\* Two such functions agree.
LEMMA SumUnique ==
  ASSUME NEW f, NEW S, IsFiniteSet(S), NEW T, NEW g, NEW h,
         IsSum(g, f, S), IsSum(h, f, T), NEW s, s \subseteq S, s \subseteq T
  PROVE  g[s] = h[s]
<1> DEFINE D == {t \in SUBSET S : t \subseteq T /\ g[t] # h[t]}
<1>1. SUFFICES ASSUME D # {} PROVE FALSE
  OBVIOUS
<1>2. PICK t \in D : \A u \in D : u \subseteq t => u = t
  <2>1. D \in SUBSET SUBSET S
    OBVIOUS
  <2> HIDE DEF D
  <2>2. QED
    BY <1>1, <2>1, MinimalSubset
<1> DEFINE x == CHOOSE x \in t : TRUE
<1>3. g[t] = Peel(f, g, t) /\ h[t] = Peel(f, h, t)
  BY DEF IsSum
<1>4. t # {}
  BY <1>3 DEF Peel
<1>5. x \in t /\ g[t \ {x}] = h[t \ {x}]
  BY <1>2, <1>4
<1>6. QED
  BY <1>3, <1>4, <1>5 DEF Peel

\* There is such a function.
LEMMA SumExists ==
  ASSUME NEW f, NEW S, IsFiniteSet(S)
  PROVE  \E g : IsSum(g, f, S)
<1> DEFINE D == {T \in SUBSET S : ~ \E g : IsSum(g, f, T)}
<1>1. SUFFICES ASSUME D # {} PROVE FALSE
  OBVIOUS
<1>2. PICK T \in D : \A U \in D : U \subseteq T => U = T
  <2>1. D \in SUBSET SUBSET S
    OBVIOUS
  <2> HIDE DEF D
  <2>2. QED
    BY <1>1, <2>1, MinimalSubset
<1> DEFINE below(s) == CHOOSE g : IsSum(g, f, s)
           G == [s \in SUBSET T |->
                   IF s = {} THEN 0
                   ELSE LET x == CHOOSE x \in s : TRUE
                        IN  f[x] + below(s \ {x})[s \ {x}]]
<1>3. \A s \in SUBSET T : s # T => IsSum(below(s), f, s)
  BY <1>2
<1> HIDE DEF below
<1>4. ASSUME NEW s \in SUBSET T, s # T PROVE G[s] = below(s)[s]
  <2>1. below(s)[s] = Peel(f, below(s), s)
    BY <1>3, <1>4 DEF IsSum
  <2>2. CASE s = {}
    BY <2>1, <2>2 DEF Peel
  <2>3. CASE s # {}
    <3> DEFINE x == CHOOSE x \in s : TRUE
               r == s \ {x}
    <3>1. x \in s /\ r \in SUBSET T /\ r # T
      BY <1>4, <2>3
    <3>2. /\ IsFiniteSet(s) /\ r \subseteq s
          /\ IsSum(below(s), f, s) /\ IsSum(below(r), f, r)
      BY <1>3, <1>4, <3>1, FS_Subset
    <3> HIDE DEF r
    <3>3. below(s)[r] = below(r)[r]
      BY <3>2, SumUnique
    <3> USE DEF r
    <3>4. QED
      BY <2>1, <2>3, <3>3 DEF Peel
  <2>4. QED
    BY <2>2, <2>3
<1>5. IsSum(G, f, T)
  <2>1. ASSUME NEW s \in SUBSET T PROVE G[s] = Peel(f, G, s)
    <3>1. CASE s = {}
      BY <3>1 DEF Peel
    <3>2. CASE s # {}
      <4> DEFINE x == CHOOSE x \in s : TRUE
      <4>1. s \ {x} \in SUBSET T /\ s \ {x} # T
        BY <3>2
      <4>2. G[s \ {x}] = below(s \ {x})[s \ {x}]
        BY <1>4, <4>1
      <4>3. QED
        BY <3>2, <4>2 DEF Peel
    <3>3. QED
      BY <3>1, <3>2
  <2>2. G = [s \in SUBSET T |-> G[s]]
    OBVIOUS
  <2>3. QED
    BY <2>1, <2>2 DEF IsSum
<1>6. QED
  BY <1>2, <1>5

\* A sum is the chosen element's value and the sum over the rest.
LEMMA SumPeel ==
  ASSUME NEW f, NEW S, IsFiniteSet(S)
  PROVE  /\ S = {} => SumFunctionOnSet(f, S) = 0
         /\ S # {} =>
              LET x == CHOOSE x \in S : TRUE
              IN  SumFunctionOnSet(f, S) =
                    f[x] + SumFunctionOnSet(f, S \ {x})
<1> DEFINE iter(T) == CHOOSE g : IsSum(g, f, T)
<1>1. \A T : SumFunctionOnSet(f, T) = iter(T)[T]
  BY DEF SumFunctionOnSet, FoldFunctionOnSet, MapThenFoldSet, IsSum, Peel
<1>2. \A T \in SUBSET S : IsSum(iter(T), f, T)
  BY SumExists, FS_Subset
<1> HIDE DEF iter
<1>3. iter(S)[S] = Peel(f, iter(S), S)
  BY <1>2 DEF IsSum
<1>4. ASSUME S # {}
      PROVE  LET x == CHOOSE x \in S : TRUE
             IN  iter(S)[S] = f[x] + iter(S \ {x})[S \ {x}]
  <2> DEFINE x == CHOOSE x \in S : TRUE
  <2>1. iter(S)[S \ {x}] = iter(S \ {x})[S \ {x}]
    BY <1>2, SumUnique
  <2>2. QED
    BY <1>3, <1>4, <2>1 DEF Peel
<1>5. QED
  BY <1>1, <1>3, <1>4 DEF Peel

\* A sum of natural numbers is one.
LEMMA SumType ==
  ASSUME NEW f, NEW S, IsFiniteSet(S), \A x \in S : f[x] \in Nat
  PROVE  SumFunctionOnSet(f, S) \in Nat
<1> DEFINE D == {T \in SUBSET S : SumFunctionOnSet(f, T) \notin Nat}
<1>1. SUFFICES ASSUME D # {} PROVE FALSE
  OBVIOUS
<1>2. PICK T \in D : \A U \in D : U \subseteq T => U = T
  <2>1. D \in SUBSET SUBSET S
    OBVIOUS
  <2> HIDE DEF D
  <2>2. QED
    BY <1>1, <2>1, MinimalSubset
<1> DEFINE x == CHOOSE x \in T : TRUE
<1>3. IsFiniteSet(T)
  BY FS_Subset
<1>4. T # {} /\ SumFunctionOnSet(f, T) = f[x] + SumFunctionOnSet(f, T \ {x})
  <2>1. T # {}
    <3>1. T = {} => SumFunctionOnSet(f, T) = 0
      BY <1>3, SumPeel
    <3>2. QED
      BY <3>1
  <2>2. QED
    BY <1>3, <2>1, SumPeel
<1>5. x \in T /\ SumFunctionOnSet(f, T \ {x}) \in Nat
  BY <1>2, <1>4
<1>6. QED
  BY <1>4, <1>5

\* Any element may be taken out of a sum first.
LEMMA SumRemove ==
  ASSUME NEW f, NEW S, IsFiniteSet(S), \A x \in S : f[x] \in Nat,
         NEW a \in S
  PROVE  SumFunctionOnSet(f, S) = f[a] + SumFunctionOnSet(f, S \ {a})
<1> DEFINE Good(T, b) == SumFunctionOnSet(f, T) =
                           f[b] + SumFunctionOnSet(f, T \ {b})
           D == {T \in SUBSET S : \E b \in T : ~Good(T, b)}
<1>1. SUFFICES ASSUME D # {} PROVE FALSE
  OBVIOUS
<1>2. PICK T \in D : \A U \in D : U \subseteq T => U = T
  <2>1. D \in SUBSET SUBSET S
    OBVIOUS
  <2> HIDE DEF D
  <2>2. QED
    BY <1>1, <2>1, MinimalSubset
<1>3. PICK b \in T : ~Good(T, b)
  OBVIOUS
<1> DEFINE x == CHOOSE x \in T : TRUE
<1>4. x \in T /\ Good(T, x)
  <2>1. IsFiniteSet(T)
    BY FS_Subset
  <2>2. QED
    BY <2>1, SumPeel
<1>5. x # b
  BY <1>3, <1>4
<1> HIDE DEF x
<1>6. Good(T \ {x}, b) /\ Good(T \ {b}, x)
  BY <1>2, <1>3, <1>4, <1>5
<1>7. (T \ {x}) \ {b} = (T \ {b}) \ {x}
  OBVIOUS
<1>8. SumFunctionOnSet(f, (T \ {b}) \ {x}) \in Nat
  <2>1. IsFiniteSet((T \ {b}) \ {x}) /\ (T \ {b}) \ {x} \subseteq S
    BY FS_Subset
  <2>2. QED
    BY <2>1, SumType
<1>9. f[x] \in Nat /\ f[b] \in Nat
  BY <1>3, <1>4
<1>10. Good(T, b)
  <2>1. SumFunctionOnSet(f, T) =
          f[x] + (f[b] + SumFunctionOnSet(f, (T \ {b}) \ {x}))
    BY <1>4, <1>6, <1>7
  <2>2. SumFunctionOnSet(f, T \ {b}) =
          f[x] + SumFunctionOnSet(f, (T \ {b}) \ {x})
    BY <1>6
  <2>3. QED
    BY <1>8, <1>9, <2>1, <2>2
<1>11. QED
  BY <1>3, <1>10

\* Functions that are nowhere larger, element by element, have no larger sum.
LEMMA SumMonotone ==
  ASSUME NEW f, NEW g, NEW S, IsFiniteSet(S),
         \A x \in S : f[x] \in Nat /\ g[x] \in Nat /\ f[x] <= g[x]
  PROVE  SumFunctionOnSet(f, S) <= SumFunctionOnSet(g, S)
<1> DEFINE D == {T \in SUBSET S :
                   ~ (SumFunctionOnSet(f, T) <= SumFunctionOnSet(g, T))}
<1>1. SUFFICES ASSUME D # {} PROVE FALSE
  OBVIOUS
<1>2. PICK T \in D : \A U \in D : U \subseteq T => U = T
  <2>1. D \in SUBSET SUBSET S
    OBVIOUS
  <2> HIDE DEF D
  <2>2. QED
    BY <1>1, <2>1, MinimalSubset
<1>3. IsFiniteSet(T)
  BY FS_Subset
<1>4. T # {}
  <2>1. T = {} =>
          SumFunctionOnSet(f, T) = 0 /\ SumFunctionOnSet(g, T) = 0
    BY <1>3, SumPeel
  <2>2. QED
    BY <2>1
<1>5. PICK x \in T : TRUE
  BY <1>4
<1>6. /\ SumFunctionOnSet(f, T) = f[x] + SumFunctionOnSet(f, T \ {x})
      /\ SumFunctionOnSet(g, T) = g[x] + SumFunctionOnSet(g, T \ {x})
  BY <1>3, SumRemove
<1>7. SumFunctionOnSet(f, T \ {x}) <= SumFunctionOnSet(g, T \ {x})
  BY <1>2
<1>8. /\ SumFunctionOnSet(f, T \ {x}) \in Nat
      /\ SumFunctionOnSet(g, T \ {x}) \in Nat
  <2>1. IsFiniteSet(T \ {x}) /\ T \ {x} \subseteq S
    BY <1>3, FS_Subset
  <2>2. QED
    BY <2>1, SumType
<1>9. f[x] \in Nat /\ g[x] \in Nat /\ f[x] <= g[x]
  OBVIOUS
<1>10. SumFunctionOnSet(f, T) <= SumFunctionOnSet(g, T)
  BY <1>6, <1>7, <1>8, <1>9
<1>11. QED
  BY <1>10

\* Functions that agree on the set have the same sum.
LEMMA SumEqual ==
  ASSUME NEW f, NEW g, NEW S, IsFiniteSet(S),
         \A x \in S : f[x] \in Nat /\ g[x] = f[x]
  PROVE  SumFunctionOnSet(f, S) = SumFunctionOnSet(g, S)
<1>1. /\ SumFunctionOnSet(f, S) <= SumFunctionOnSet(g, S)
      /\ SumFunctionOnSet(g, S) <= SumFunctionOnSet(f, S)
  BY SumMonotone
<1>2. SumFunctionOnSet(f, S) \in Nat /\ SumFunctionOnSet(g, S) \in Nat
  BY SumType
<1>3. QED
  BY <1>1, <1>2

\* When one value of a function changes, its sum changes by as much.
LEMMA SumUpdate ==
  ASSUME NEW f, NEW g, NEW S, IsFiniteSet(S), NEW a \in S,
         \A x \in S : f[x] \in Nat /\ g[x] \in Nat,
         \A x \in S \ {a} : g[x] = f[x]
  PROVE  SumFunctionOnSet(g, S) = SumFunctionOnSet(f, S) + g[a] - f[a]
<1>1. IsFiniteSet(S \ {a})
  BY FS_Subset
<1>2. SumFunctionOnSet(f, S \ {a}) = SumFunctionOnSet(g, S \ {a})
  BY <1>1, SumEqual
<1>3. /\ SumFunctionOnSet(f, S) = f[a] + SumFunctionOnSet(f, S \ {a})
      /\ SumFunctionOnSet(g, S) = g[a] + SumFunctionOnSet(g, S \ {a})
  BY SumRemove
<1>4. SumFunctionOnSet(f, S \ {a}) \in Nat
  BY <1>1, SumType
<1>5. QED
  BY <1>2, <1>3, <1>4

\* A sum of zeros is zero.
LEMMA SumZero ==
  ASSUME NEW f, NEW S, IsFiniteSet(S), \A x \in S : f[x] = 0
  PROVE  SumFunctionOnSet(f, S) = 0
<1> DEFINE D == {T \in SUBSET S : SumFunctionOnSet(f, T) # 0}
<1>1. SUFFICES ASSUME D # {} PROVE FALSE
  OBVIOUS
<1>2. PICK T \in D : \A U \in D : U \subseteq T => U = T
  <2>1. D \in SUBSET SUBSET S
    OBVIOUS
  <2> HIDE DEF D
  <2>2. QED
    BY <1>1, <2>1, MinimalSubset
<1>3. IsFiniteSet(T)
  BY FS_Subset
<1> DEFINE x == CHOOSE x \in T : TRUE
<1>4. T # {} /\ SumFunctionOnSet(f, T) = f[x] + SumFunctionOnSet(f, T \ {x})
  BY <1>3, SumPeel
<1>5. x \in T /\ SumFunctionOnSet(f, T \ {x}) = 0
  BY <1>2, <1>4
<1>6. QED
  BY <1>4, <1>5

\* The shares of n threads add up to the total.
THEOREM SharesAddUp ==
  ASSUME NEW n \in Nat \ {0}, NEW total \in Nat, NEW f,
         \A i \in 0 .. n - 1 : f[i] = Share(total, n, i)
  PROVE  SumFunctionOnSet(f, 0 .. n - 1) = total
<1> DEFINE D == {k \in 0 .. n :
                   SumFunctionOnSet(f, 0 .. k - 1) # Offset(total, n, k)}
<1>1. ASSUME D # {} PROVE FALSE
  <2>1. PICK k \in D : \A j \in D : ~(j < k)
    <3>1. D \subseteq Nat
      OBVIOUS
    <3> HIDE DEF D
    <3>2. PICK k \in D : \A j \in D : ~ (<<j, k>> \in OpToRel(<, Nat))
      BY <1>1, <3>1, NatLessThanWellFounded, WFMin
    <3>3. QED
      BY <3>1, <3>2 DEF OpToRel
  <2>2. k # 0
    <3>1. SumFunctionOnSet(f, {}) = 0
      BY FS_EmptySet, SumPeel
    <3>2. 0 .. 0 - 1 = {} /\ Offset(total, n, 0) = 0
      BY PartitionTheorem DEF SharesPartition
    <3>3. QED
      BY <3>1, <3>2
  <2> DEFINE j == k - 1
  <2>3. /\ j \in 0 .. n - 1 /\ k = j + 1
        /\ SumFunctionOnSet(f, 0 .. j - 1) = Offset(total, n, j)
    BY <2>1, <2>2
  <2> HIDE DEF j
  <2>4. /\ 0 .. j = (0 .. j - 1) \cup {j} /\ j \notin 0 .. j - 1
        /\ (0 .. j) \ {j} = 0 .. j - 1
    BY <2>3
  <2>5. IsFiniteSet(0 .. j) /\ j \in 0 .. j
        /\ \A i \in 0 .. j : f[i] \in Nat
    <3>1. \A i \in 0 .. n - 1 : f[i] \in Nat
      BY ShareType
    <3>2. /\ IsFiniteSet(0 .. j) /\ j \in Nat
          /\ 0 .. j \subseteq 0 .. n - 1
      BY <2>3, FS_Interval
    <3>3. QED
      BY <3>1, <3>2
  <2>6. SumFunctionOnSet(f, 0 .. j) = f[j] + SumFunctionOnSet(f, 0 .. j - 1)
    <3> DEFINE T == 0 .. j
    <3>1. IsFiniteSet(T) /\ j \in T /\ \A i \in T : f[i] \in Nat
      BY <2>5
    <3>2. T \ {j} = 0 .. j - 1
      BY <2>4
    <3> HIDE DEF T
    <3>3. SumFunctionOnSet(f, T) = f[j] + SumFunctionOnSet(f, T \ {j})
      BY <3>1, SumRemove
    <3>4. QED
      BY <3>2, <3>3 DEF T
  <2>7. /\ Offset(total, n, j + 1) = Offset(total, n, j) + f[j]
        /\ f[j] \in Nat
    BY <2>3, <2>5, PartitionTheorem DEF SharesPartition
  <2>8. SumFunctionOnSet(f, 0 .. j - 1) \in Nat
    <3>1. IsFiniteSet(0 .. j - 1) /\ \A i \in 0 .. j - 1 : f[i] \in Nat
      BY <2>3, <2>5, FS_Interval
    <3>2. QED
      BY <3>1, SumType
  <2>9. k - 1 = j /\ SumFunctionOnSet(f, 0 .. k - 1) = Offset(total, n, k)
    BY <2>3, <2>6, <2>7, <2>8
  <2>10. QED
    BY <2>9
<1>2. SumFunctionOnSet(f, 0 .. n - 1) = Offset(total, n, n)
  BY <1>1
<1>3. QED
  BY <1>2, PartitionTheorem DEF SharesPartition
=============================================================================
