------------------------------- MODULE Lemmas -------------------------------
(***************************************************************************)
(* Facts about natural numbers and sequences that the proofs about the     *)
(* components share.                                                       *)
(*                                                                         *)
(* Induction goes by the least counterexample: the induction theorems of   *)
(* the library are stated for predicates, LeastNatural is for sets.        *)
(***************************************************************************)
EXTENDS Filter, FiniteSetsExt, Functions, FiniteSetTheorems, WellFoundedInduction, TLAPS

USE Zenon

\* Every set of natural numbers has a least element.
LEMMA LeastNatural ==
  ASSUME NEW S \in SUBSET Nat, S # {}
  PROVE  \E n \in S : \A m \in S : n <= m
<1> DEFINE T == {0 .. n : n \in S}
           R == StrictSubsetOrdering(Nat)
<1>1. T \subseteq FiniteSubsetsOf(Nat)
  <2>1. ASSUME NEW n \in S PROVE 0 .. n \in FiniteSubsetsOf(Nat)
    <3>1. 0 .. n \subseteq Nat
      BY SMT
    <3> QED BY SMT, <3>1, FS_Interval DEF FiniteSubsetsOf
  <2> QED BY <2>1
<1>2. T # {}
  OBVIOUS
<1>3. PICK x \in T : \A y \in T : <<y, x>> \notin R
  <2>1. IsWellFoundedOn(R, FiniteSubsetsOf(Nat))
    BY FS_StrictSubsetOrderingWellFounded
  <2> HIDE DEF R, T
  <2> QED BY <2>1, <1>1, <1>2, WFMin
<1>4. PICK n \in S : x = 0 .. n
  OBVIOUS
<1>5. ASSUME NEW m \in S, m < n PROVE FALSE
  <2>1. 0 .. m \in T /\ (0 .. m) \subseteq 0 .. n /\ 0 .. m # 0 .. n
    <3>1. n \in 0 .. n /\ n \notin 0 .. m
      BY SMT, <1>5
    <3> QED BY SMT, <3>1, <1>5
  <2> QED BY <2>1, <1>3, <1>4, <1>1 DEF StrictSubsetOrdering, FiniteSubsetsOf
<1> QED BY SMT, <1>5

\* A set of integers with an upper bound has a greatest element.
LEMMA GreatestInteger ==
  ASSUME NEW S \in SUBSET Int, S # {}, NEW b \in Int, \A s \in S : s <= b
  PROVE  \E n \in S : \A m \in S : m <= n
<1> DEFINE T == {b - s : s \in S}
<1>1. T \in SUBSET Nat /\ T # {}
  <2>1. ASSUME NEW s \in S PROVE b - s \in Nat
    <3>1. s \in Int /\ s <= b
      OBVIOUS
    <3> QED BY SMT, <3>1
  <2> QED BY <2>1
<1>2. PICK t \in T : \A u \in T : t <= u
  BY <1>1, LeastNatural
<1>3. PICK n \in S : t = b - n
  OBVIOUS
<1>4. ASSUME NEW m \in S PROVE m <= n
  <2>1. b - m \in T /\ m \in Int /\ n \in Int
    OBVIOUS
  <2>2. b - n <= b - m
    BY <2>1, <1>2, <1>3
  <2> QED BY SMT, <2>1, <2>2
<1> QED BY <1>4

\* What Max and Min of FiniteSetsExt choose.
LEMMA MaxIs ==
  ASSUME NEW S \in SUBSET Int, S # {}, NEW b \in Int, \A s \in S : s <= b
  PROVE  Max(S) \in S /\ \A m \in S : m <= Max(S)
BY GreatestInteger DEF Max

\* The minimum of a non-empty set of numbers is in it and below all of it.
LEMMA MinIs ==
  ASSUME NEW S \in SUBSET Nat, S # {}
  PROVE  Min(S) \in S /\ \A m \in S : Min(S) <= m
BY LeastNatural DEF Min

------------------------------------------------------------------------------
(* Unseen *)

\* The sequences its loop goes through.
Filtering(q, seen, n, f) ==
  f = [i \in 0 .. n |->
         IF i = 0 THEN << >>
         ELSE IF q[i] \in seen THEN f[i - 1]
         ELSE Append(f[i - 1], q[i])]

\* The sequences of the loop exist.
LEMMA FilteringExists ==
  ASSUME NEW q, NEW seen, NEW n \in Nat
  PROVE  \E f : Filtering(q, seen, n, f)
<1> DEFINE S == {k \in Nat : ~\E f : Filtering(q, seen, k, f)}
<1> SUFFICES ASSUME S # {} PROVE FALSE
  OBVIOUS
<1>1. PICK k \in S : \A m \in S : k <= m
  BY LeastNatural
<1>2. CASE k = 0
  <2>1. Filtering(q, seen, 0, [i \in 0 .. 0 |-> << >>])
    BY SMT DEF Filtering
  <2> QED BY <1>2, <2>1
<1>3. CASE k # 0
  <2>1. k - 1 \in Nat /\ k - 1 \notin S
    BY SMT, <1>1, <1>3
  <2>2. PICK f : Filtering(q, seen, k - 1, f)
    BY <2>1
  <2> DEFINE V(h, i) == IF i = 0 THEN << >>
                        ELSE IF q[i] \in seen THEN h[i - 1]
                        ELSE Append(h[i - 1], q[i])
             g == [i \in 0 .. k |-> V(f, i)]
  <2>3. ASSUME NEW i \in 0 .. k - 1 PROVE i \in 0 .. k /\ g[i] = f[i]
    <3>1. i \in 0 .. k /\ i \in 0 .. (k - 1)
      BY SMT, <2>1
    <3>2. f[i] = V(f, i)
      BY <2>2, <3>1 DEF Filtering
    <3> QED BY <3>1, <3>2
  <2>4. ASSUME NEW i \in 0 .. k PROVE V(g, i) = V(f, i)
    <3>1. CASE i = 0
      BY <3>1
    <3>2. CASE i # 0
      <4>1. i - 1 \in 0 .. k - 1
        BY SMT, <2>1, <3>2
      <4>2. g[i - 1] = f[i - 1]
        BY <4>1, <2>3
      <4> HIDE DEF g
      <4> QED BY <4>2
    <3> QED BY <3>1, <3>2
  <2>5. g = [i \in 0 .. k |-> V(g, i)]
    <3>1. \A i \in 0 .. k : g[i] = V(g, i)
      BY <2>4
    <3>2. g = [i \in 0 .. k |-> g[i]]
      OBVIOUS
    <3> HIDE DEF g
    <3> QED BY <3>1, <3>2
  <2>6. Filtering(q, seen, k, g)
    BY <2>5 DEF Filtering
  <2> QED BY <2>6
<1> QED BY <1>2, <1>3

\* What Unseen returns is the last of them.
LEMMA UnseenFiltering ==
  ASSUME NEW q, NEW seen, Len(q) \in Nat
  PROVE  \E f : Filtering(q, seen, Len(q), f) /\ Unseen(q, seen) = f[Len(q)]
<1>1. \E f : Filtering(q, seen, Len(q), f)
  BY FilteringExists
<1> DEFINE g == CHOOSE f : Filtering(q, seen, Len(q), f)
<1>2. Filtering(q, seen, Len(q), g)
  BY <1>1
<1>3. Unseen(q, seen) = g[Len(q)]
  BY DEF Unseen, Filtering
<1> QED BY <1>2, <1>3

\* What is left are the values not in seen, each as often as before if they
\* were distinct.
LEMMA UnseenFacts ==
  ASSUME NEW V, NEW q \in Seq(V), NEW seen
  PROVE  /\ Unseen(q, seen) \in Seq(V)
         /\ Len(Unseen(q, seen)) <= Len(q)
         /\ Range(Unseen(q, seen)) = Range(q) \ seen
         /\ IsInjective(q) => IsInjective(Unseen(q, seen))
<1>0. Len(q) \in Nat /\ DOMAIN q = 1 .. Len(q) /\ \A i \in 1 .. Len(q) : q[i] \in V
  BY SMT
<1>1. PICK f : Filtering(q, seen, Len(q), f) /\ Unseen(q, seen) = f[Len(q)]
  BY <1>0, UnseenFiltering
<1> DEFINE Good(w, k) ==
             /\ w \in Seq(V) /\ Len(w) <= k
             /\ \A i \in 1 .. Len(w) : w[i] \notin seen /\ \E j \in 1 .. k : q[j] = w[i]
             /\ \A j \in 1 .. k : q[j] \notin seen => \E i \in 1 .. Len(w) : w[i] = q[j]
             /\ IsInjective(q) => \A i, j \in 1 .. Len(w) : w[i] = w[j] => i = j
           S == {k \in 0 .. Len(q) : ~Good(f[k], k)}
<1>2. Good(<< >>, 0)
  BY SMT
<1>3. ASSUME NEW k \in 1 .. Len(q), NEW w, Good(w, k - 1), q[k] \in seen
      PROVE  Good(w, k)
  <2>1. k \in Nat /\ \A j \in 1 .. k : j = k \/ j \in 1 .. k - 1
    BY SMT, <1>0
  <2>2. \A j \in 1 .. k - 1 : j \in 1 .. k
    BY SMT, <2>1
  <2>3. w \in Seq(V) /\ Len(w) <= k
    BY SMT, <1>3, <2>1
  <2>4. \A i \in 1 .. Len(w) : w[i] \notin seen /\ \E j \in 1 .. k : q[j] = w[i]
    BY <1>3, <2>2
  <2>5. \A j \in 1 .. k : q[j] \notin seen => \E i \in 1 .. Len(w) : w[i] = q[j]
    BY <1>3, <2>1
  <2> QED BY <1>3, <2>3, <2>4, <2>5
<1>4. ASSUME NEW k \in 1 .. Len(q), NEW w, Good(w, k - 1), q[k] \notin seen
      PROVE  Good(Append(w, q[k]), k)
  <2>1. k \in Nat /\ q[k] \in V /\ w \in Seq(V) /\ Len(w) \in Nat /\ Len(w) <= k - 1
    BY SMT, <1>0, <1>4
  <2>2. PICK u : u = Append(w, q[k])
    OBVIOUS
  <2>3. /\ u \in Seq(V) /\ Len(u) = Len(w) + 1 /\ u[Len(w) + 1] = q[k]
        /\ \A i \in 1 .. Len(w) : u[i] = w[i]
    BY SMT, <2>1, <2>2
  <2>4. \A i \in 1 .. Len(u) : i \in 1 .. Len(w) \/ i = Len(w) + 1
    BY SMT, <2>1, <2>3
  <2>5. \A i \in 1 .. Len(w) : i \in 1 .. Len(u)
    BY SMT, <2>1, <2>3
  <2>6. \A j \in 1 .. k : j = k \/ j \in 1 .. k - 1
    BY SMT, <2>1
  <2>7. \A j \in 1 .. k - 1 : j \in 1 .. k /\ j # k /\ j \in DOMAIN q
    BY SMT, <1>0, <2>1
  <2>8. \A i \in 1 .. Len(u) : u[i] \notin seen /\ \E j \in 1 .. k : q[j] = u[i]
    BY SMT, <1>4, <2>1, <2>3, <2>4, <2>7
  <2>9. ASSUME NEW j \in 1 .. k, q[j] \notin seen PROVE \E i \in 1 .. Len(u) : u[i] = q[j]
    <3>1. CASE j = k
      <4>1. Len(w) + 1 \in 1 .. Len(u)
        BY SMT, <2>1, <2>3
      <4> QED BY <3>1, <4>1, <2>3
    <3>2. CASE j # k
      BY SMT, <1>4, <2>3, <2>5, <2>6, <2>9, <3>2
    <3> QED BY <3>1, <3>2
  <2>10. ASSUME IsInjective(q), NEW i \in 1 .. Len(u), NEW j \in 1 .. Len(u), u[i] = u[j]
         PROVE  i = j
    <3>1. ASSUME NEW h \in 1 .. Len(w) PROVE w[h] # q[k]
      <4>1. PICK j2 \in 1 .. k - 1 : q[j2] = w[h]
        BY <1>4, <3>1
      <4> QED BY <1>0, <2>7, <2>10, <4>1 DEF IsInjective
    <3> QED BY SMT, <1>4, <2>3, <2>4, <2>10, <3>1
  <2>11. Len(u) <= k
    BY SMT, <2>1, <2>3
  <2> QED BY <2>2, <2>3, <2>8, <2>9, <2>10, <2>11
<1> HIDE DEF Good
<1>5. ASSUME S # {} PROVE FALSE
  <2>1. S \in SUBSET Nat
    BY SMT, <1>0
  <2>2. PICK k \in S : \A m \in S : k <= m
    <3> HIDE DEF S
    <3> QED BY <1>5, <2>1, LeastNatural
  <2>3. k \in 0 .. Len(q) /\ k \in Nat /\ ~Good(f[k], k)
    BY SMT, <1>0
  <2>4. CASE k = 0
    <3>1. f[k] = << >>
      BY <1>1, <2>3, <2>4 DEF Filtering
    <3> QED BY <1>2, <2>3, <2>4, <3>1
  <2>5. CASE k # 0
    <3>1. k \in 1 .. Len(q) /\ k - 1 \in 0 .. Len(q) /\ k - 1 \notin S
      BY SMT, <1>0, <2>2, <2>3, <2>5
    <3>2. f[k] = IF q[k] \in seen THEN f[k - 1] ELSE Append(f[k - 1], q[k])
      BY <1>1, <2>3, <2>5 DEF Filtering
    <3>3. Good(f[k - 1], k - 1)
      BY <3>1
    <3>4. CASE q[k] \in seen
      BY <1>3, <2>3, <3>1, <3>2, <3>3, <3>4
    <3>5. CASE q[k] \notin seen
      BY <1>4, <2>3, <3>1, <3>2, <3>3, <3>5
    <3> QED BY <3>4, <3>5
  <2> QED BY <2>4, <2>5
<1>6. Good(Unseen(q, seen), Len(q))
  BY SMT, <1>0, <1>1, <1>5
<1>7. PICK w : w = Unseen(q, seen)
  OBVIOUS
<1>8. w \in Seq(V) /\ DOMAIN w = 1 .. Len(w)
  BY SMT, <1>6, <1>7 DEF Good
<1>9. Range(w) = Range(q) \ seen
  <2>1. /\ \A i \in 1 .. Len(w) : w[i] \notin seen /\ \E j \in 1 .. Len(q) : q[j] = w[i]
        /\ \A j \in 1 .. Len(q) : q[j] \notin seen => \E i \in 1 .. Len(w) : w[i] = q[j]
    BY <1>6, <1>7 DEF Good
  <2>2. \A x : x \in Range(w) <=> \E i \in 1 .. Len(w) : x = w[i]
    BY <1>8 DEF Range
  <2>3. \A x : x \in Range(q) <=> \E i \in 1 .. Len(q) : x = q[i]
    BY <1>0 DEF Range
  <2> QED BY ONLY SMTT(20), <2>1, <2>2, <2>3
<1> QED BY <1>6, <1>7, <1>8, <1>9 DEF Good, IsInjective

------------------------------------------------------------------------------
(* Sequences of distinct values *)

\* The values of a sequence, by their positions.
LEMMA RangeIs ==
  ASSUME NEW V, NEW q \in Seq(V)
  PROVE  /\ Range(q) \subseteq V
         /\ \A v : v \in Range(q) <=> \E i \in 1 .. Len(q) : v = q[i]
         /\ IsInjective(q) <=> \A i, j \in 1 .. Len(q) : q[i] = q[j] => i = j
         /\ IsFiniteSet(Range(q)) /\ Cardinality(Range(q)) <= Len(q)
         /\ IsInjective(q) => Cardinality(Range(q)) = Len(q)
<1>1. Len(q) \in Nat /\ DOMAIN q = 1 .. Len(q) /\ q \in [1 .. Len(q) -> V]
  BY SMT
<1>2. \A v : v \in Range(q) <=> \E i \in 1 .. Len(q) : v = q[i]
  BY <1>1 DEF Range
<1>3. Range(q) \subseteq V
  BY <1>1, <1>2
<1>4. IsInjective(q) <=> \A i, j \in 1 .. Len(q) : q[i] = q[j] => i = j
  BY <1>1 DEF IsInjective
<1>5. PICK n \in Nat : n = Len(q)
  BY <1>1
<1>6. IsFiniteSet(1 .. n) /\ Cardinality(1 .. n) = n
  <2>1. IsFiniteSet(1 .. n) /\ Cardinality(1 .. n) = IF 1 > n THEN 0 ELSE n - 1 + 1
    BY SMT, FS_Interval
  <2> QED BY SMT, <2>1
<1>7. q \in Surjection(1 .. n, Range(q))
  <2>1. q \in [1 .. n -> Range(q)]
    BY <1>1, <1>5 DEF Range
  <2>2. \A v \in Range(q) : \E i \in 1 .. n : q[i] = v
    BY <1>2, <1>5
  <2> QED BY <2>1, <2>2 DEF Surjection
<1>8. /\ IsFiniteSet(Range(q)) /\ Cardinality(Range(q)) <= n
      /\ Cardinality(Range(q)) = n <=> q \in Injection(1 .. n, Range(q))
  BY SMT, <1>6, <1>7, FS_Surjection
<1>9. ASSUME IsInjective(q) PROVE q \in Injection(1 .. n, Range(q))
  BY <1>4, <1>5, <1>7, <1>9 DEF Surjection, Injection, IsInjective
<1> QED BY <1>2, <1>3, <1>4, <1>5, <1>8, <1>9

\* One more value.
LEMMA AppendFacts ==
  ASSUME NEW V, NEW q \in Seq(V), NEW v \in V
  PROVE  /\ Append(q, v) \in Seq(V)
         /\ Range(Append(q, v)) = Range(q) \union {v}
         /\ IsInjective(q) /\ v \notin Range(q) => IsInjective(Append(q, v))
<1>1. PICK r : r = Append(q, v)
  OBVIOUS
<1>2. /\ r \in Seq(V) /\ Len(q) \in Nat /\ Len(r) = Len(q) + 1 /\ r[Len(q) + 1] = v
      /\ \A i \in 1 .. Len(q) : r[i] = q[i]
  BY SMT, <1>1
<1>3. \A i : i \in 1 .. Len(r) <=> (i \in 1 .. Len(q) \/ i = Len(q) + 1)
  BY SMT, <1>2
<1>4. Len(q) + 1 \in 1 .. Len(r)
  BY SMT, <1>2
<1>5. Range(r) = Range(q) \union {v}
  <2>1. /\ \A x : x \in Range(q) <=> \E i \in 1 .. Len(q) : x = q[i]
        /\ \A x : x \in Range(r) <=> \E i \in 1 .. Len(r) : x = r[i]
    BY <1>2, RangeIs
  <2> QED BY ONLY SMT, <2>1, <1>2, <1>3, <1>4
<1>6. ASSUME IsInjective(q), v \notin Range(q) PROVE IsInjective(r)
  <2>1. /\ \A i, j \in 1 .. Len(q) : q[i] = q[j] => i = j
        /\ \A i \in 1 .. Len(q) : q[i] # v
        /\ (\A i, j \in 1 .. Len(r) : r[i] = r[j] => i = j) => IsInjective(r)
    BY <1>2, <1>6, RangeIs
  <2> QED BY ONLY <2>1, <1>2, <1>3
<1> QED BY <1>1, <1>2, <1>5, <1>6

\* One sequence after another.
LEMMA JoinFacts ==
  ASSUME NEW V, NEW q \in Seq(V), NEW w \in Seq(V)
  PROVE  /\ q \o w \in Seq(V) /\ Len(q \o w) = Len(q) + Len(w)
         /\ Range(q \o w) = Range(q) \union Range(w)
         /\ IsInjective(q) /\ IsInjective(w) /\ Range(q) \cap Range(w) = {} => IsInjective(q \o w)
<1>1. PICK r : r = q \o w
  OBVIOUS
<1>2. /\ r \in Seq(V) /\ Len(q) \in Nat /\ Len(w) \in Nat /\ Len(r) = Len(q) + Len(w)
      /\ \A i \in 1 .. Len(r) : r[i] = IF i <= Len(q) THEN q[i] ELSE w[i - Len(q)]
  BY SMT, <1>1
<1>3. PICK n \in Nat, k \in Nat : n = Len(q) /\ k = Len(w)
  BY <1>2
<1>4. ASSUME NEW i \in 1 .. n + k
      PROVE  (i \in 1 .. n /\ r[i] = q[i]) \/ (i - n \in 1 .. k /\ i > n /\ r[i] = w[i - n])
  BY SMT, <1>2, <1>3
<1>5. \A i \in 1 .. n : i \in 1 .. n + k /\ r[i] = q[i]
  BY SMT, <1>2, <1>3
<1>6. ASSUME NEW i \in 1 .. k PROVE n + i \in 1 .. n + k /\ r[n + i] = w[i]
  <2>1. n + i \in 1 .. n + k /\ ~(n + i <= n) /\ (n + i) - n = i
    BY SMT
  <2>2. r[n + i] = IF n + i <= n THEN q[n + i] ELSE w[(n + i) - n]
    BY <1>2, <1>3, <2>1
  <2> QED BY <2>1, <2>2
<1>7. /\ \A x : x \in Range(q) <=> \E i \in 1 .. n : x = q[i]
      /\ \A x : x \in Range(w) <=> \E i \in 1 .. k : x = w[i]
      /\ \A x : x \in Range(r) <=> \E i \in 1 .. n + k : x = r[i]
  <2>1. /\ \A x : x \in Range(q) <=> \E i \in 1 .. Len(q) : x = q[i]
        /\ \A x : x \in Range(w) <=> \E i \in 1 .. Len(w) : x = w[i]
        /\ \A x : x \in Range(r) <=> \E i \in 1 .. Len(r) : x = r[i]
    BY <1>2, RangeIs
  <2>2. Len(r) = n + k
    BY <1>2, <1>3
  <2> QED BY ONLY <1>3, <2>1, <2>2
<1>8. Range(r) = Range(q) \union Range(w)
  BY ONLY SMT, <1>4, <1>5, <1>6, <1>7
<1>9. ASSUME IsInjective(q), IsInjective(w), Range(q) \cap Range(w) = {} PROVE IsInjective(r)
  <2>1. /\ \A i, j \in 1 .. n : q[i] = q[j] => i = j
        /\ \A i, j \in 1 .. k : w[i] = w[j] => i = j
        /\ (\A i, j \in 1 .. n + k : r[i] = r[j] => i = j) => IsInjective(r)
    BY ZenonT(40), <1>2, <1>3, <1>9, RangeIs
  <2>2. \A i \in 1 .. n, j \in 1 .. k : q[i] # w[j]
    BY <1>7, <1>9
  <2>3. ASSUME NEW i \in 1 .. n + k, NEW j \in 1 .. n + k, r[i] = r[j] PROVE i = j
    <3>1. CASE i \in 1 .. n /\ r[i] = q[i] /\ j \in 1 .. n /\ r[j] = q[j]
      BY <2>1, <2>3, <3>1
    <3>2. CASE i - n \in 1 .. k /\ r[i] = w[i - n] /\ j - n \in 1 .. k /\ r[j] = w[j - n]
      <4>1. i - n = j - n
        BY <2>1, <2>3, <3>2
      <4> QED BY SMT, <4>1
    <3> QED BY <1>4, <2>2, <2>3, <3>1, <3>2
  <2> QED BY <2>1, <2>3
<1> QED BY <1>1, <1>2, <1>8, <1>9

\* A sequence and its two parts.
LEMMA SplitFacts ==
  ASSUME NEW V, NEW q \in Seq(V), NEW k \in 0 .. Len(q)
  PROVE  /\ SubSeq(q, 1, k) \in Seq(V) /\ SubSeq(q, k + 1, Len(q)) \in Seq(V)
         /\ Len(SubSeq(q, 1, k)) = k /\ Len(SubSeq(q, k + 1, Len(q))) = Len(q) - k
         /\ Range(q) = Range(SubSeq(q, 1, k)) \union Range(SubSeq(q, k + 1, Len(q)))
         /\ IsInjective(q) => /\ IsInjective(SubSeq(q, 1, k))
                              /\ IsInjective(SubSeq(q, k + 1, Len(q)))
                              /\ Range(SubSeq(q, 1, k)) \cap Range(SubSeq(q, k + 1, Len(q))) = {}
<1>1. PICK a, b : a = SubSeq(q, 1, k) /\ b = SubSeq(q, k + 1, Len(q))
  OBVIOUS
<1>2. PICK n \in Nat : n = Len(q) /\ k \in Nat /\ k <= n
  BY SMT
<1>3. /\ a \in Seq(V) /\ Len(a) = k
      /\ \A i \in 1 .. k : a[i] = q[i]
  BY SMT, <1>1, <1>2
<1>4. /\ b \in Seq(V) /\ Len(b) = n - k
      /\ \A i \in 1 .. n - k : b[i] = q[k + i]
  BY SMT, <1>1, <1>2
<1>5. /\ \A x : x \in Range(q) <=> \E i \in 1 .. n : x = q[i]
      /\ \A x : x \in Range(a) <=> \E i \in 1 .. k : x = a[i]
      /\ \A x : x \in Range(b) <=> \E i \in 1 .. n - k : x = b[i]
  BY SMT, <1>2, <1>3, <1>4, RangeIs
<1>6. /\ \A i \in 1 .. n : i \in 1 .. k \/ (i - k \in 1 .. n - k /\ q[i] = b[i - k])
      /\ \A i \in 1 .. k : i \in 1 .. n
      /\ \A i \in 1 .. n - k : k + i \in 1 .. n
  <2>1. ASSUME NEW i \in 1 .. n, i > k PROVE i - k \in 1 .. n - k /\ q[i] = b[i - k]
    <3>1. i - k \in 1 .. n - k /\ k + (i - k) = i
      BY SMT, <1>2, <2>1
    <3> QED BY <1>4, <3>1
  <2> QED BY SMT, <1>2, <2>1
<1>7. Range(q) = Range(a) \union Range(b)
  <2>1. ASSUME NEW x \in Range(q) PROVE x \in Range(a) \union Range(b)
    BY SMT, <1>3, <1>5, <1>6
  <2>2. ASSUME NEW x \in Range(a) PROVE x \in Range(q)
    BY SMTT(20), <1>3, <1>5, <1>6
  <2>3. ASSUME NEW x \in Range(b) PROVE x \in Range(q)
    <3>1. PICK i \in 1 .. n - k : x = b[i]
      BY <1>5
    <3>2. k + i \in 1 .. n /\ x = q[k + i]
      BY <1>4, <1>6, <3>1
    <3> QED BY <1>5, <3>2
  <2> QED BY <2>1, <2>2, <2>3
<1>8. ASSUME IsInjective(q)
      PROVE  IsInjective(a) /\ IsInjective(b) /\ Range(a) \cap Range(b) = {}
  <2>1. /\ \A i, j \in 1 .. n : q[i] = q[j] => i = j
        /\ (\A i, j \in 1 .. k : a[i] = a[j] => i = j) => IsInjective(a)
        /\ (\A i, j \in 1 .. n - k : b[i] = b[j] => i = j) => IsInjective(b)
    <3>1. /\ \A i, j \in 1 .. Len(q) : q[i] = q[j] => i = j
          /\ (\A i, j \in 1 .. Len(a) : a[i] = a[j] => i = j) => IsInjective(a)
          /\ (\A i, j \in 1 .. Len(b) : b[i] = b[j] => i = j) => IsInjective(b)
      BY <1>3, <1>4, <1>8, RangeIs
    <3>2. Len(q) = n /\ Len(a) = k /\ Len(b) = n - k
      BY <1>2, <1>3, <1>4
    <3> QED BY ONLY <3>1, <3>2
  <2>2. \A i, j \in 1 .. k : a[i] = a[j] => i = j
    BY SMT, <1>3, <1>6, <2>1
  <2>3. ASSUME NEW i \in 1 .. n - k, NEW j \in 1 .. n - k, b[i] = b[j] PROVE i = j
    <3>1. k + i = k + j
      BY SMTT(20), <1>4, <1>6, <2>1, <2>3
    <3> QED BY SMT, <1>2, <3>1
  <2>4. ASSUME NEW i \in 1 .. k, NEW j \in 1 .. n - k, a[i] = b[j] PROVE FALSE
    <3>1. i \in 1 .. n /\ k + j \in 1 .. n /\ q[i] = q[k + j]
      BY <1>3, <1>4, <1>6, <2>4
    <3>2. i = k + j
      BY <2>1, <3>1
    <3> QED BY SMT, <1>2, <3>2
  <2> QED BY SMT, <1>5, <2>1, <2>2, <2>3, <2>4
<1> QED BY <1>1, <1>2, <1>3, <1>4, <1>7, <1>8
==============================================================================
