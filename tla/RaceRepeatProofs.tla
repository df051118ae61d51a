-------------------------- MODULE RaceRepeatProofs --------------------------
(***************************************************************************)
(* Proofs about RaceRepeat, for every command line, every history of the   *)
(* workspace and every census, manifest and pool size.                     *)
(***************************************************************************)
EXTENDS RaceRepeat, FiniteSetTheorems, SequenceTheorems, TLAPS

(***************************************************************************)
(* Least and greatest elements.                                            *)
(***************************************************************************)

LEMMA NatMin ==
    ASSUME NEW T \in SUBSET Nat, T # {}
    PROVE  \E x \in T : \A y \in T : x <= y
<1> DEFINE R == OpToRel(<, Nat)
<1>1. IsWellFoundedOn(R, Nat)
  BY NatLessThanWellFounded
<1> HIDE DEF R
<1>2. PICK x \in T : \A y \in T : ~(<<y, x>> \in R)
  BY <1>1, WFMin
<1>3. \A y \in T : ~(y < x)
  BY <1>2 DEF R, OpToRel
<1> QED  BY <1>3

\* The element with the fewest elements above it.
LEMMA FiniteMax ==
    ASSUME NEW S, IsFiniteSet(S), S # {}, S \subseteq Int
    PROVE  Max(S) \in S /\ \A y \in S : Max(S) >= y
<1> DEFINE Above(x) == {y \in S : y > x}
           T == {Cardinality(Above(x)) : x \in S}
<1>1. \A x \in S : IsFiniteSet(Above(x)) /\ Cardinality(Above(x)) \in Nat
  BY FS_Subset, FS_CardinalityType
<1>2. PICK x \in S : \A y \in S : Cardinality(Above(x)) <= Cardinality(Above(y))
  <2>1. T \in SUBSET Nat /\ T # {}
    BY <1>1
  <2> HIDE DEF T
  <2>2. PICK t \in T : \A u \in T : t <= u
    BY <2>1, NatMin
  <2> QED  BY <2>2 DEF T
<1>3. ASSUME NEW y \in S, y > x PROVE FALSE
  <2>0. x \in Int /\ y \in Int
    OBVIOUS
  <2>1. Above(y) \in SUBSET Above(x)
    <3> SUFFICES ASSUME NEW z \in S, z > y PROVE z > x
      OBVIOUS
    <3>1. z \in Int
      OBVIOUS
    <3> QED  BY <1>3, <2>0, <3>1
  <2>2. y \in Above(x) /\ y \notin Above(y)
    BY <1>3, <2>0
  <2>3. /\ Cardinality(Above(y)) <= Cardinality(Above(x))
        /\ Cardinality(Above(x)) = Cardinality(Above(y)) => Above(x) = Above(y)
    BY <1>1, <2>1, FS_Subset
  <2> HIDE DEF Above
  <2> QED  BY <1>1, <1>2, <2>2, <2>3
<1>4. \A y \in S : x >= y
  BY <1>3
<1> QED  BY <1>4 DEF Max

LEMMA FiniteMin ==
    ASSUME NEW S, IsFiniteSet(S), S # {}, S \subseteq Int
    PROVE  Min(S) \in S /\ \A y \in S : Min(S) <= y
<1> DEFINE f == [x \in S |-> 0 - x]
           T == {0 - x : x \in S}
<1>1. f \in Surjection(S, T)
  BY DEF Surjection
<1>2. IsFiniteSet(T) /\ T # {} /\ T \subseteq Int
  <2>1. IsFiniteSet(T)
    BY <1>1, FS_Surjection
  <2>2. T # {} /\ T \subseteq Int
    OBVIOUS
  <2> QED  BY <2>1, <2>2
<1> HIDE DEF T
<1>3. Max(T) \in T /\ \A y \in T : Max(T) >= y
  BY <1>2, FiniteMax
<1>4. PICK x \in S : Max(T) = 0 - x
  BY <1>3 DEF T
<1>5. \A y \in S : x <= y
  BY <1>3, <1>4 DEF T
<1> QED  BY <1>5 DEF Min

LEMMA IntervalCount ==
    ASSUME NEW n \in Nat
    PROVE  IsFiniteSet(1..n) /\ Cardinality(1..n) = n
<1>1. IsFiniteSet(1..n) /\ Cardinality(1..n) = IF 1 > n THEN 0 ELSE n - 1 + 1
  BY FS_Interval
<1> QED  BY <1>1

\* The values of a function on a finite set are a finite set.
LEMMA FiniteValues ==
    ASSUME NEW S, IsFiniteSet(S), NEW f
    PROVE  IsFiniteSet({f[x] : x \in S}) /\ Cardinality({f[x] : x \in S}) <= Cardinality(S)
<1> DEFINE g == [x \in S |-> f[x]]
<1>1. g \in Surjection(S, {f[x] : x \in S})
  BY DEF Surjection
<1> QED  BY <1>1, FS_Surjection

------------------------------------------------------------------------------
(***************************************************************************)
(* Sorting: the i-th element is the one with i - 1 elements before it.     *)
(***************************************************************************)

IsStrictOrder(S, B) ==
    /\ \A x \in S : <<x, x>> \notin B
    /\ \A x, y, z \in S : <<x, y>> \in B /\ <<y, z>> \in B => <<x, z>> \in B
    /\ \A x, y \in S : x = y \/ <<x, y>> \in B \/ <<y, x>> \in B

Before(S, B, e) == {x \in S : <<x, e>> \in B}

\* More elements are before a later element.
LEMMA BeforeGrows ==
    ASSUME NEW S, IsFiniteSet(S), NEW B, IsStrictOrder(S, B),
           NEW d \in S, NEW e \in S, <<d, e>> \in B
    PROVE  Cardinality(Before(S, B, d)) < Cardinality(Before(S, B, e))
<1>1. Before(S, B, d) \in SUBSET Before(S, B, e)
  BY DEF Before, IsStrictOrder
<1>2. d \in Before(S, B, e) /\ d \notin Before(S, B, d)
  BY DEF Before, IsStrictOrder
<1>3. IsFiniteSet(Before(S, B, e)) /\ IsFiniteSet(Before(S, B, d))
  BY FS_Subset DEF Before
<1>4. /\ Cardinality(Before(S, B, d)) <= Cardinality(Before(S, B, e))
      /\ Cardinality(Before(S, B, e)) = Cardinality(Before(S, B, d)) =>
            Before(S, B, e) = Before(S, B, d)
  BY <1>1, <1>3, FS_Subset
<1>5. Cardinality(Before(S, B, d)) \in Nat /\ Cardinality(Before(S, B, e)) \in Nat
  BY <1>3, FS_CardinalityType
<1> QED  BY <1>2, <1>4, <1>5

\* Every position is taken.
LEMMA Enumeration ==
    ASSUME NEW S, IsFiniteSet(S), NEW B, IsStrictOrder(S, B)
    PROVE  /\ \A e \in S : Cardinality(Before(S, B, e)) \in 0..(Cardinality(S) - 1)
           /\ \A i \in 1..Cardinality(S) : \E e \in S : Cardinality(Before(S, B, e)) = i - 1
<1> DEFINE n == Cardinality(S)
           f == [e \in S |-> Cardinality(Before(S, B, e))]
<1>1. n \in Nat
  BY FS_CardinalityType
<1>2. ASSUME NEW e \in S PROVE Cardinality(Before(S, B, e)) \in 0..(n - 1)
  <2>1. Before(S, B, e) \in SUBSET (S \ {e})
    BY DEF Before, IsStrictOrder
  <2>2. IsFiniteSet(S \ {e}) /\ Cardinality(S \ {e}) = n - 1
    BY FS_RemoveElement
  <2>3. IsFiniteSet(Before(S, B, e)) /\ Cardinality(Before(S, B, e)) <= n - 1
    BY <2>1, <2>2, FS_Subset
  <2>4. Cardinality(Before(S, B, e)) \in Nat
    BY <2>3, FS_CardinalityType
  <2> QED  BY <1>1, <2>3, <2>4
<1> HIDE DEF n
<1>3. ASSUME NEW d \in S, NEW e \in S,
             Cardinality(Before(S, B, d)) = Cardinality(Before(S, B, e))
      PROVE  d = e
  <2>1. ~(Cardinality(Before(S, B, d)) < Cardinality(Before(S, B, e)))
    BY <1>1, <1>2, <1>3
  <2>2. ~(Cardinality(Before(S, B, e)) < Cardinality(Before(S, B, d)))
    BY <1>1, <1>2, <1>3
  <2> QED  BY <2>1, <2>2, BeforeGrows DEF IsStrictOrder
<1>4. f \in Injection(S, 0..(n - 1))
  BY <1>2, <1>3 DEF Injection, IsInjective
<1>5. IsFiniteSet(0..(n - 1)) /\ Cardinality(0..(n - 1)) = n
  <2>1. /\ IsFiniteSet(0..(n - 1))
        /\ Cardinality(0..(n - 1)) = IF 0 > n - 1 THEN 0 ELSE (n - 1) - 0 + 1
    BY <1>1, FS_Interval
  <2> QED  BY <1>1, <2>1
<1>6. f \in Surjection(S, 0..(n - 1))
  BY <1>4, <1>5, FS_Injection DEF n
<1>7. \A i \in 1..n : i - 1 \in 0..(n - 1)
  BY <1>1
<1>8. \A i \in 1..n : \E e \in S : Cardinality(Before(S, B, e)) = i - 1
  BY <1>6, <1>7 DEF Surjection
<1> QED  BY <1>2, <1>8 DEF n

LEMMA FunctionLen ==
    ASSUME NEW n \in Nat, NEW S, NEW f \in [1..n -> S]
    PROVE  f \in Seq(S) /\ Len(f) = n
<1>1. f \in Seq(S)
  BY SeqDef
<1>2. Len(f) \in Nat /\ DOMAIN f = 1..Len(f)
  BY <1>1, LenProperties
<1>3. 1..Len(f) = 1..n
  BY <1>2
<1> QED  BY <1>1, <1>2, <1>3

\* slices.SortFunc by weight and then by identity: a permutation, heaviest first.
LEMMA DescendingSorts ==
    ASSUME NEW S, IsFiniteSet(S), NEW weight, NEW rank,
           \A e \in S : weight[e] \in Int /\ rank[e] \in Int,
           \A d, e \in S : rank[d] = rank[e] => d = e,
           NEW D, D = Descending(S, weight, rank)
    PROVE  /\ D \in Bijection(1..Cardinality(S), S) /\ Len(D) = Cardinality(S)
           /\ \A h, k \in 1..Cardinality(S) : h <= k => weight[D[h]] >= weight[D[k]]
<1> DEFINE n == Cardinality(S)
           B == {p \in S \X S : \/ weight[p[1]] > weight[p[2]]
                                \/ weight[p[1]] = weight[p[2]] /\ rank[p[1]] < rank[p[2]]}
<1>1. n \in Nat
  BY FS_CardinalityType
<1>2. \A x, y \in S : <<x, y>> \in B <=> \/ weight[x] > weight[y]
                                         \/ weight[x] = weight[y] /\ rank[x] < rank[y]
  OBVIOUS
<1> HIDE DEF B, n
<1>3. IsStrictOrder(S, B)
  BY <1>2 DEF IsStrictOrder
<1> DEFINE Earlier(e) == {x \in S : \/ weight[x] > weight[e]
                                    \/ weight[x] = weight[e] /\ rank[x] < rank[e]}
<1>4. \A e \in S : Earlier(e) = Before(S, B, e)
  BY <1>2 DEF Before
<1>5. D = [i \in 1..n |-> CHOOSE e \in S : Cardinality(Earlier(e)) = i - 1]
  BY DEF Descending, n
<1> HIDE DEF Earlier
<1>6. /\ \A e \in S : Cardinality(Before(S, B, e)) \in 0..(n - 1)
      /\ \A i \in 1..n : \E e \in S : Cardinality(Before(S, B, e)) = i - 1
  BY <1>3, Enumeration DEF n
<1>7. ASSUME NEW i \in 1..n PROVE D[i] \in S /\ Cardinality(Before(S, B, D[i])) = i - 1
  <2>1. D[i] = CHOOSE e \in S : Cardinality(Earlier(e)) = i - 1
    BY <1>5
  <2>2. \E e \in S : Cardinality(Earlier(e)) = i - 1
    BY <1>4, <1>6
  <2> QED  BY <1>4, <2>1, <2>2
<1>8. D \in [1..n -> S]
  BY <1>5, <1>7
<1>9. ASSUME NEW h \in 1..n, NEW k \in 1..n, <<D[h], D[k]>> \in B PROVE h < k
  <2>1. Cardinality(Before(S, B, D[h])) < Cardinality(Before(S, B, D[k]))
    BY <1>3, <1>7, <1>9, BeforeGrows
  <2>2. h - 1 < k - 1
    BY <1>7, <2>1
  <2> QED  BY <1>1, <2>2
<1>10. ASSUME NEW h \in 1..n, NEW k \in 1..n, D[h] = D[k] PROVE h = k
  <2>1. h - 1 = k - 1
    BY <1>7, <1>10
  <2> QED  BY <1>1, <2>1
<1>11. ASSUME NEW e \in S PROVE \E i \in 1..n : D[i] = e
  <2> DEFINE i == Cardinality(Before(S, B, e)) + 1
  <2>1. i \in 1..n /\ Cardinality(Before(S, B, e)) = i - 1
    BY <1>1, <1>6
  <2> HIDE DEF i
  <2>2. Cardinality(Before(S, B, D[i])) = Cardinality(Before(S, B, e)) /\ D[i] \in S
    BY <1>7, <2>1
  <2>3. Cardinality(Before(S, B, e)) \in Int
    BY <1>1, <1>6
  <2>4. <<D[i], e>> \notin B /\ <<e, D[i]>> \notin B
    BY <1>3, <2>2, <2>3, BeforeGrows
  <2> QED  BY <1>3, <2>1, <2>2, <2>4 DEF IsStrictOrder
<1>12. D \in Bijection(1..n, S)
  BY <1>8, <1>10, <1>11 DEF Bijection, Injection, Surjection, IsInjective
<1>13. ASSUME NEW h \in 1..n, NEW k \in 1..n, h <= k PROVE weight[D[h]] >= weight[D[k]]
  <2>1. CASE weight[D[h]] < weight[D[k]]
    <3>1. <<D[k], D[h]>> \in B
      BY <1>2, <1>7, <2>1
    <3> QED  BY <1>1, <1>9, <1>13, <3>1
  <2>2. weight[D[h]] \in Int /\ weight[D[k]] \in Int
    BY <1>7
  <2> QED  BY <2>1, <2>2
<1>14. Len(D) = n
  BY <1>1, <1>8, FunctionLen
<1> QED  BY <1>12, <1>13, <1>14 DEF n

\* The units of a process in the order of their identities: each of them once.
LEMMA InOrderLists ==
    ASSUME NEW U, IsFiniteSet(U), \A u \in U : Rank(U)[u] \in Nat,
           \A u, v \in U : Rank(U)[u] = Rank(U)[v] => u = v
    PROVE  /\ InOrder(U) \in Injection(1..Cardinality(U), Nat)
           /\ Len(InOrder(U)) = Cardinality(U)
<1> DEFINE ids == {Rank(U)[u] : u \in U}
           n == Cardinality(ids)
           B == {p \in ids \X ids : p[1] < p[2]}
           Lower(k) == {j \in ids : j < k}
           D == InOrder(U)
<1>1. IsFiniteSet(ids) /\ Cardinality(ids) = Cardinality(U)
  <2> DEFINE f == [u \in U |-> Rank(U)[u]]
  <2>1. f \in Surjection(U, ids) /\ f \in Injection(U, ids)
    BY DEF Surjection, Injection, IsInjective
  <2> QED  BY <2>1, FS_Surjection
<1>2. ids \subseteq Nat
  OBVIOUS
<1>3. D = [i \in 1..n |-> CHOOSE k \in ids : Cardinality(Lower(k)) = i - 1]
  BY DEF InOrder
<1> HIDE DEF ids, D
<1>4. n \in Nat
  BY <1>1, FS_CardinalityType
<1>5. \A x, y \in ids : <<x, y>> \in B <=> x < y
  OBVIOUS
<1> HIDE DEF B
<1>6. IsStrictOrder(ids, B)
  BY <1>2, <1>5 DEF IsStrictOrder
<1>7. \A k \in ids : Lower(k) = Before(ids, B, k)
  BY <1>5 DEF Before
<1> HIDE DEF Lower, n
<1>8. \A i \in 1..n : \E k \in ids : Cardinality(Before(ids, B, k)) = i - 1
  BY <1>1, <1>6, Enumeration DEF n
<1>9. ASSUME NEW i \in 1..n PROVE D[i] \in ids /\ Cardinality(Before(ids, B, D[i])) = i - 1
  <2>1. D[i] = CHOOSE k \in ids : Cardinality(Lower(k)) = i - 1
    BY <1>3
  <2>2. \E k \in ids : Cardinality(Lower(k)) = i - 1
    BY <1>7, <1>8
  <2> QED  BY <1>7, <2>1, <2>2
<1>10. D \in [1..n -> Nat]
  BY <1>2, <1>3, <1>9
<1>11. ASSUME NEW h \in 1..n, NEW k \in 1..n, D[h] = D[k] PROVE h = k
  <2>1. h - 1 = k - 1
    BY <1>9, <1>11
  <2> QED  BY <1>4, <2>1
<1>12. D \in Injection(1..n, Nat)
  BY <1>10, <1>11 DEF Injection, IsInjective
<1>13. Len(D) = n
  BY <1>4, <1>10, FunctionLen
<1> QED  BY <1>1, <1>12, <1>13 DEF n, D

------------------------------------------------------------------------------
(***************************************************************************)
(* Adding weights.                                                         *)
(***************************************************************************)

Tokens(weight, S) == UNION {{e} \X (1..weight[e]) : e \in S}

LEMMA TokensOfOne ==
    ASSUME NEW e, NEW n \in Nat
    PROVE  IsFiniteSet({e} \X (1..n)) /\ Cardinality({e} \X (1..n)) = n
<1>1. IsFiniteSet(1..n) /\ Cardinality(1..n) = n
  BY IntervalCount
<1>2. IsFiniteSet({e}) /\ Cardinality({e}) = 1
  BY FS_Singleton
<1>3. IsFiniteSet({e} \X (1..n)) /\ Cardinality({e} \X (1..n)) = Cardinality({e}) * Cardinality(1..n)
  BY <1>1, <1>2, FS_Product
<1> QED  BY <1>1, <1>2, <1>3

LEMMA TotalType ==
    ASSUME NEW weight, NEW S, IsFiniteSet(S), \A e \in S : weight[e] \in Nat
    PROVE  IsFiniteSet(Tokens(weight, S)) /\ Total(weight, S) \in Nat
<1> DEFINE f == [e \in S |-> {e} \X (1..weight[e])]
           T == {f[e] : e \in S}
<1>1. \A e \in S : IsFiniteSet(f[e])
  <2> SUFFICES ASSUME NEW e \in S PROVE IsFiniteSet({e} \X (1..weight[e]))
    OBVIOUS
  <2> QED  BY TokensOfOne
<1>2. Tokens(weight, S) = UNION T
  BY DEF Tokens
<1> HIDE DEF f
<1>3. IsFiniteSet(T) /\ \A t \in T : IsFiniteSet(t)
  BY <1>1, FiniteValues
<1> HIDE DEF T
<1>4. IsFiniteSet(Tokens(weight, S))
  BY <1>2, <1>3, FS_UNION
<1> QED  BY <1>4, FS_CardinalityType DEF Total, Tokens

LEMMA TotalEmpty ==
    ASSUME NEW weight PROVE Total(weight, {}) = 0
<1>1. Tokens(weight, {}) = {}
  BY DEF Tokens
<1> QED  BY <1>1, FS_EmptySet DEF Total, Tokens

LEMMA TotalAdd ==
    ASSUME NEW weight, NEW S, IsFiniteSet(S), \A e \in S : weight[e] \in Nat,
           NEW u, u \notin S, weight[u] \in Nat
    PROVE  Total(weight, S \cup {u}) = Total(weight, S) + weight[u]
<1> DEFINE T == {u} \X (1..weight[u])
           R == Tokens(weight, S)
<1>1. Tokens(weight, S \cup {u}) = R \cup T
  BY DEF Tokens
<1>2. R \cap T = {}
  BY DEF Tokens
<1>3. IsFiniteSet(T) /\ Cardinality(T) = weight[u]
  BY TokensOfOne
<1>4. IsFiniteSet(R) /\ Total(weight, S) = Cardinality(R) /\ Cardinality(R) \in Nat
  BY TotalType DEF Total, Tokens
<1>5. Total(weight, S \cup {u}) = Cardinality(Tokens(weight, S \cup {u}))
  BY DEF Total, Tokens
<1> HIDE DEF T, R
<1>6. Cardinality(R \cup T) = Cardinality(R) + Cardinality(T) - Cardinality(R \cap T)
  BY <1>3, <1>4, FS_Union
<1>7. Cardinality(R \cap T) = 0
  BY <1>2, FS_EmptySet
<1>8. Cardinality(R \cup T) = Cardinality(R) + weight[u]
  BY <1>3, <1>4, <1>6, <1>7
<1> QED  BY <1>1, <1>4, <1>5, <1>8

\* What has a member of positive weight has a positive total.
LEMMA TotalPositive ==
    ASSUME NEW weight, NEW S, IsFiniteSet(S), \A e \in S : weight[e] \in Nat \ {0}, S # {}
    PROVE  Total(weight, S) \in Nat \ {0}
<1>1. PICK u \in S : TRUE
  OBVIOUS
<1> DEFINE R == S \ {u}
<1>2. R \cup {u} = S /\ u \notin R /\ IsFiniteSet(R)
  BY FS_RemoveElement
<1>3. \A e \in R : weight[e] \in Nat
  OBVIOUS
<1> HIDE DEF R
<1>4. Total(weight, S) = Total(weight, R) + weight[u]
  BY <1>2, <1>3, TotalAdd
<1>5. Total(weight, R) \in Nat
  BY <1>2, <1>3, TotalType
<1>6. weight[u] \in Nat \ {0}
  OBVIOUS
<1> QED  BY <1>4, <1>5, <1>6

\* The scan for the first bin that no other bin undercuts.
LEMMA LightestIsLightest ==
    ASSUME NEW count \in Nat \ {0}, NEW load \in [1..count -> Nat]
    PROVE  /\ Lightest(load) \in 1..count
           /\ \A j \in 1..count : load[Lightest(load)] <= load[j]
<1> DEFINE L == {load[j] : j \in 1..count}
<1>1. L \in SUBSET Nat /\ L # {}
  <2>1. 1 \in 1..count
    OBVIOUS
  <2> QED  BY <2>1
<1> HIDE DEF L
<1>2. PICK m \in L : \A y \in L : m <= y
  BY <1>1, NatMin
<1> DEFINE T == {j \in 1..count : load[j] = m}
<1>3. T \in SUBSET Nat /\ T # {}
  BY <1>2 DEF L
<1> HIDE DEF T
<1>4. PICK i \in T : \A j \in T : i <= j
  BY <1>3, NatMin
<1>5. i \in 1..count /\ load[i] = m
  BY <1>4 DEF T
<1>6. ASSUME NEW j \in 1..count PROVE load[i] < load[j] \/ (load[i] = load[j] /\ i <= j)
  <2>1. m <= load[j] /\ load[j] \in Nat /\ m \in Nat
    BY <1>1, <1>2 DEF L
  <2>2. CASE load[j] = m
    BY <1>4, <1>5, <2>2 DEF T
  <2>3. CASE load[j] # m
    BY <1>5, <2>1, <2>3
  <2> QED  BY <2>2, <2>3
<1>7. /\ Lightest(load) \in 1..count
      /\ \A j \in 1..count : load[Lightest(load)] < load[j]
                               \/ (load[Lightest(load)] = load[j] /\ Lightest(load) <= j)
  BY <1>5, <1>6 DEF Lightest
<1> QED  BY <1>7

------------------------------------------------------------------------------
(***************************************************************************)
(* The greedy allocation.                                                  *)
(***************************************************************************)

PutLightest(allocation, e, weight, count) ==
    [allocation EXCEPT ![Lightest([j \in 1..count |-> Total(weight, allocation[j])])] = @ \cup {e}]

\* What the loop of both allocators keeps: the first k elements are distributed,
\* no bin has two while another has none, and a bin without its lightest
\* element is no heavier than any other.
Fair(order, weight, count, k, a) ==
    /\ a \in [1..count -> SUBSET {order[h] : h \in 1..k}]
    /\ \A h \in 1..k : \E i \in 1..count : order[h] \in a[i]
    /\ \A i, j \in 1..count : i # j => a[i] \cap a[j] = {}
    /\ (\A i \in 1..count : a[i] # {}) \/ (\A i \in 1..count : \A x, y \in a[i] : x = y)
    /\ \A i, j \in 1..count : \A e \in a[i] :
          (\A x \in a[i] : weight[e] <= weight[x]) =>
             Total(weight, a[i]) - weight[e] <= Total(weight, a[j])

\* One turn of the loop keeps it, because the elements come heaviest first.
LEMMA FairPut ==
    ASSUME NEW S, NEW n \in Nat, NEW order \in Injection(1..n, S), NEW weight,
           \A e \in S : weight[e] \in Nat \ {0},
           \A h, k \in 1..n : h <= k => weight[order[h]] >= weight[order[k]],
           NEW count \in Nat \ {0}, NEW k \in 1..n, NEW a, Fair(order, weight, count, k - 1, a)
    PROVE  Fair(order, weight, count, k, PutLightest(a, order[k], weight, count))
<1> DEFINE e == order[k]
           load == [j \in 1..count |-> Total(weight, a[j])]
           i == Lightest(load)
           b == PutLightest(a, e, weight, count)
           Old == {order[h] : h \in 1..(k - 1)}
           New == {order[h] : h \in 1..k}
<1>1. e \in S /\ order \in [1..n -> S] /\ \A h \in 1..n : order[h] = e => h = k
  BY DEF Injection, IsInjective
<1>2. Old \subseteq S /\ New = Old \cup {e} /\ e \notin Old /\ IsFiniteSet(Old)
  <2>1. 1..k = (1..(k - 1)) \cup {k} /\ 1..(k - 1) \subseteq 1..n /\ k \notin 1..(k - 1)
    OBVIOUS
  <2>2. IsFiniteSet(1..(k - 1))
    BY FS_Interval
  <2>3. IsFiniteSet(Old)
    BY <2>2, FiniteValues
  <2>4. New = Old \cup {e}
    BY <2>1
  <2>5. Old \subseteq S /\ e \notin Old
    BY <1>1, <2>1
  <2> QED  BY <2>3, <2>4, <2>5
<1>3. /\ a \in [1..count -> SUBSET Old]
      /\ \A h \in 1..(k - 1) : \E j \in 1..count : order[h] \in a[j]
      /\ \A g, j \in 1..count : g # j => a[g] \cap a[j] = {}
      /\ (\A j \in 1..count : a[j] # {}) \/ (\A j \in 1..count : \A x, y \in a[j] : x = y)
      /\ \A g, j \in 1..count : \A d \in a[g] :
            (\A x \in a[g] : weight[d] <= weight[x]) =>
               Total(weight, a[g]) - weight[d] <= Total(weight, a[j])
  BY DEF Fair
<1>4. \A x \in Old : weight[x] >= weight[e] /\ weight[x] \in Nat \ {0}
  <2> SUFFICES ASSUME NEW h \in 1..(k - 1) PROVE weight[order[h]] >= weight[e] /\ weight[order[h]] \in Nat \ {0}
    OBVIOUS
  <2>1. h \in 1..n /\ h <= k
    OBVIOUS
  <2> QED  BY <1>1, <2>1
<1>5. weight[e] \in Nat \ {0}
  BY <1>1
<1> HIDE DEF e, Old, New
<1>6. \A j \in 1..count : IsFiniteSet(a[j]) /\ Total(weight, a[j]) \in Nat
  <2> SUFFICES ASSUME NEW j \in 1..count PROVE IsFiniteSet(a[j]) /\ Total(weight, a[j]) \in Nat
    OBVIOUS
  <2>1. a[j] \in SUBSET Old
    BY <1>3
  <2>2. IsFiniteSet(a[j])
    BY <1>2, <2>1, FS_Subset
  <2>3. \A x \in a[j] : weight[x] \in Nat
    BY <1>4, <2>1
  <2> QED  BY <2>2, <2>3, TotalType
<1>7. load \in [1..count -> Nat]
  BY <1>6
<1>8. i \in 1..count /\ \A j \in 1..count : Total(weight, a[i]) <= Total(weight, a[j])
  <2> HIDE DEF load
  <2>1. i \in 1..count /\ \A j \in 1..count : load[i] <= load[j]
    BY <1>7, LightestIsLightest
  <2> HIDE DEF i
  <2> QED  BY <2>1 DEF load
<1>9. /\ b \in [1..count -> SUBSET New] /\ b[i] = a[i] \cup {e}
      /\ \A j \in 1..count : j # i => b[j] = a[j]
  <2>1. b = [a EXCEPT ![i] = @ \cup {e}]
    BY DEF PutLightest
  <2> HIDE DEF b, i
  <2> QED  BY <1>2, <1>3, <1>8, <2>1
<1> HIDE DEF b, i, load
<1>10. Total(weight, b[i]) = Total(weight, a[i]) + weight[e]
  <2>1. e \notin a[i] /\ IsFiniteSet(a[i]) /\ \A x \in a[i] : weight[x] \in Nat
    BY <1>2, <1>3, <1>4, <1>6, <1>8
  <2>2. Total(weight, a[i] \cup {e}) = Total(weight, a[i]) + weight[e]
    BY <1>5, <2>1, TotalAdd
  <2> QED  BY <1>9, <2>2
<1>11. \A h \in 1..k : \E j \in 1..count : order[h] \in b[j]
  <2> SUFFICES ASSUME NEW h \in 1..k PROVE \E j \in 1..count : order[h] \in b[j]
    OBVIOUS
  <2>1. CASE h = k
    BY <1>8, <1>9, <2>1 DEF e
  <2>2. CASE h # k
    <3>1. h \in 1..(k - 1)
      BY <2>2
    <3>2. PICK j \in 1..count : order[h] \in a[j]
      BY <1>3, <3>1
    <3>3. order[h] \in b[j]
      BY <1>9, <3>2
    <3> QED  BY <3>3
  <2> QED  BY <2>1, <2>2
<1>12. \A g, j \in 1..count : g # j => b[g] \cap b[j] = {}
  <2>1. \A j \in 1..count : e \notin a[j]
    BY <1>2, <1>3
  <2> QED  BY <1>3, <1>8, <1>9, <2>1
<1>13. (\A j \in 1..count : b[j] # {}) \/ (\A j \in 1..count : \A x, y \in b[j] : x = y)
  <2> SUFFICES ASSUME NEW g \in 1..count, b[g] = {}
               PROVE  \A j \in 1..count : \A x, y \in b[j] : x = y
    OBVIOUS
  <2>1. g # i /\ a[g] = {}
    BY <1>9
  <2>2. Total(weight, a[g]) = 0
    BY <2>1, TotalEmpty
  <2>3. Total(weight, a[i]) = 0
    BY <1>6, <1>8, <2>2
  <2>4. a[i] = {}
    <3> SUFFICES ASSUME a[i] # {} PROVE FALSE
      OBVIOUS
    <3>1. \A x \in a[i] : weight[x] \in Nat \ {0}
      BY <1>3, <1>4, <1>8
    <3>2. Total(weight, a[i]) \in Nat \ {0}
      BY <1>6, <1>8, <3>1, TotalPositive
    <3> QED  BY <2>3, <3>2
  <2>5. \A j \in 1..count : \A x, y \in a[j] : x = y
    BY <1>3, <2>1
  <2> QED  BY <1>9, <2>4, <2>5
<1>14. \A j \in 1..count : Total(weight, a[j]) <= Total(weight, b[j]) /\ Total(weight, b[j]) \in Nat
  <2> SUFFICES ASSUME NEW j \in 1..count
               PROVE  Total(weight, a[j]) <= Total(weight, b[j]) /\ Total(weight, b[j]) \in Nat
    OBVIOUS
  <2>1. CASE j = i
    BY <1>5, <1>6, <1>10, <2>1
  <2>2. CASE j # i
    BY <1>6, <1>9, <2>2
  <2> QED  BY <2>1, <2>2
<1>15. ASSUME NEW g \in 1..count, NEW j \in 1..count, NEW d \in b[g],
              \A x \in b[g] : weight[d] <= weight[x]
       PROVE  Total(weight, b[g]) - weight[d] <= Total(weight, b[j])
  <2>1. CASE g = i
    <3>1. d \in Old \cup {e} /\ e \in b[g]
      BY <1>3, <1>8, <1>9, <2>1
    <3>2. weight[d] = weight[e]
      BY <1>4, <1>5, <1>15, <3>1
    <3>3. Total(weight, b[g]) - weight[d] = Total(weight, a[i])
      BY <1>5, <1>6, <1>8, <1>10, <2>1, <3>2
    <3>4. Total(weight, a[i]) <= Total(weight, a[j])
      BY <1>8
    <3>5. Total(weight, a[i]) \in Nat /\ Total(weight, a[j]) \in Nat /\ Total(weight, b[j]) \in Nat
      BY <1>6, <1>8, <1>14
    <3> QED  BY <1>14, <3>3, <3>4, <3>5
  <2>2. CASE g # i
    <3>1. b[g] = a[g]
      BY <1>9, <2>2
    <3>2. Total(weight, a[g]) - weight[d] <= Total(weight, a[j])
      BY <1>3, <1>15, <3>1
    <3>3. weight[d] \in Nat
      BY <1>3, <1>4, <3>1
    <3>4. Total(weight, a[g]) \in Nat /\ Total(weight, a[j]) \in Nat /\ Total(weight, b[j]) \in Nat
      BY <1>6, <1>14
    <3> QED  BY <1>14, <3>1, <3>2, <3>3, <3>4
  <2> QED  BY <2>1, <2>2
<1> QED  BY <1>9, <1>11, <1>12, <1>13, <1>15 DEF Fair, b, e, New

\* What the loop leaves behind is fair.
LEMMA GreedyIsFair ==
    ASSUME NEW S, NEW n \in Nat, NEW order \in Injection(1..n, S), Len(order) = n, NEW weight,
           \A e \in S : weight[e] \in Nat \ {0},
           \A h, k \in 1..n : h <= k => weight[order[h]] >= weight[order[k]],
           NEW count \in Nat \ {0}
    PROVE  Fair(order, weight, count, n, Greedy(order, weight, count))
<1> DEFINE empty == [i \in 1..count |-> {}]
           Put(allocation, e) ==
              {[allocation EXCEPT ![i] = @ \cup {e}] :
                 i \in {Lightest([j \in 1..count |-> Total(weight, allocation[j])])}}
           F(k, B) == UNION {Put(allocation, order[k]) : allocation \in B}
           bins == CHOOSE bins : bins = [k \in 0..Len(order) |->
                      IF k = 0 THEN {empty} ELSE F(k, bins[k - 1])]
<1>1. Greedy(order, weight, count) = CHOOSE allocation \in bins[Len(order)] : TRUE
  BY DEF Greedy
<1>2. \A k \in 1..n : \A a : F(k, {a}) = {PutLightest(a, order[k], weight, count)}
  BY DEF PutLightest
<1> HIDE DEF F
<1> DEFINE P(m) == \E g : g = [k \in 0..m |-> IF k = 0 THEN {empty} ELSE F(k, g[k - 1])]
<1>3. P(n)
  <2> SUFFICES ASSUME ~P(n) PROVE FALSE
    OBVIOUS
  <2> DEFINE Bad == {m \in 0..n : ~P(m)}
  <2>1. Bad \in SUBSET Nat /\ Bad # {}
    <3> HIDE DEF P
    <3> QED  OBVIOUS
  <2> HIDE DEF Bad
  <2>2. PICK m \in Bad : \A y \in Bad : m <= y
    BY <2>1, NatMin
  <2>3. m \in 0..n /\ ~P(m)
    BY <2>2 DEF Bad
  <2>4. CASE m = 0
    <3> DEFINE g == [k \in 0..0 |-> {empty}]
    <3>1. g = [k \in 0..0 |-> IF k = 0 THEN {empty} ELSE F(k, g[k - 1])]
      OBVIOUS
    <3> QED  BY <2>3, <2>4, <3>1
  <2>5. CASE m # 0
    <3>1. m - 1 \in 0..n /\ ~(m <= m - 1)
      BY <2>3, <2>5
    <3>2. P(m - 1)
      <4> HIDE DEF P
      <4> QED  BY <2>2, <3>1 DEF Bad
    <3>3. PICK g : g = [k \in 0..(m - 1) |-> IF k = 0 THEN {empty} ELSE F(k, g[k - 1])]
      BY <3>2
    <3> DEFINE h == [k \in 0..m |-> IF k = m THEN F(m, g[m - 1]) ELSE g[k]]
    <3>4. ASSUME NEW k \in 0..m PROVE h[k] = IF k = 0 THEN {empty} ELSE F(k, h[k - 1])
      <4> HIDE DEF P
      <4>1. CASE k = m
        BY <2>3, <2>5, <4>1
      <4>2. CASE k # m
        <5>1. k \in 0..(m - 1) /\ h[k] = g[k]
          BY <2>3, <4>2
        <5>2. g[k] = IF k = 0 THEN {empty} ELSE F(k, g[k - 1])
          BY <3>3, <5>1
        <5>3. k # 0 => h[k - 1] = g[k - 1]
          BY <2>3, <5>1
        <5> HIDE DEF h
        <5> QED  BY <5>1, <5>2, <5>3
      <4> QED  BY <4>1, <4>2
    <3>5. h = [k \in 0..m |-> h[k]]
      OBVIOUS
    <3>6. h = [k \in 0..m |-> IF k = 0 THEN {empty} ELSE F(k, h[k - 1])]
      <4> HIDE DEF h, P
      <4> QED  BY <3>4, <3>5
    <3> HIDE DEF h
    <3> QED  BY <2>3, <3>6
  <2> QED  BY <2>4, <2>5
<1>4. bins = [k \in 0..n |-> IF k = 0 THEN {empty} ELSE F(k, bins[k - 1])]
  BY <1>3
<1> HIDE DEF bins, P
<1> DEFINE Q(k) == \E a : bins[k] = {a} /\ Fair(order, weight, count, k, a)
<1>5. Q(n)
  <2> SUFFICES ASSUME ~Q(n) PROVE FALSE
    OBVIOUS
  <2> DEFINE Bad == {m \in 0..n : ~Q(m)}
  <2>1. Bad \in SUBSET Nat /\ Bad # {}
    <3> HIDE DEF Q
    <3> QED  OBVIOUS
  <2> HIDE DEF Bad
  <2>2. PICK m \in Bad : \A y \in Bad : m <= y
    BY <2>1, NatMin
  <2>3. m \in 0..n /\ ~Q(m)
    BY <2>2 DEF Bad
  <2>4. CASE m = 0
    <3>1. bins[0] = {empty}
      BY <1>4
    <3>2. Fair(order, weight, count, 0, empty)
      BY DEF Fair
    <3> QED  BY <2>3, <2>4, <3>1, <3>2
  <2>5. CASE m # 0
    <3>1. m - 1 \in 0..n /\ ~(m <= m - 1) /\ m \in 1..n
      BY <2>3, <2>5
    <3>2. Q(m - 1)
      <4> HIDE DEF Q
      <4> QED  BY <2>2, <3>1 DEF Bad
    <3>3. PICK a : bins[m - 1] = {a} /\ Fair(order, weight, count, m - 1, a)
      BY <3>2
    <3>4. bins[m] = F(m, bins[m - 1])
      BY <1>4, <2>3, <2>5
    <3>5. bins[m] = {PutLightest(a, order[m], weight, count)}
      BY <1>2, <3>1, <3>3, <3>4
    <3>6. Fair(order, weight, count, m, PutLightest(a, order[m], weight, count))
      BY <3>1, <3>3, FairPut
    <3> QED  BY <2>3, <3>5, <3>6
  <2> QED  BY <2>4, <2>5
<1>6. PICK a : bins[n] = {a} /\ Fair(order, weight, count, n, a)
  BY <1>5
<1>7. Greedy(order, weight, count) = a
  BY <1>1, <1>6
<1> QED  BY <1>6, <1>7

\* The contract of both allocators: they partition S, leave no bin empty, and a
\* bin without its lightest element is no heavier than another.
Allocates(G, S, weight, count) ==
    /\ G \in [1..count -> SUBSET S]
    /\ UNION {G[i] : i \in 1..count} = S
    /\ \A i, j \in 1..count : i # j => G[i] \cap G[j] = {}
    /\ \A i \in 1..count : G[i] # {}
    /\ \A i, j \in 1..count :
          Total(weight, G[i]) - Min({weight[e] : e \in G[i]}) <= Total(weight, G[j])

LEMMA GreedyAllocates ==
    ASSUME NEW S, IsFiniteSet(S), NEW weight, NEW rank,
           \A e \in S : weight[e] \in Nat \ {0} /\ rank[e] \in Int,
           \A d, e \in S : rank[d] = rank[e] => d = e,
           NEW count \in 1..Cardinality(S)
    PROVE  Allocates(Greedy(Descending(S, weight, rank), weight, count), S, weight, count)
<1> DEFINE n == Cardinality(S)
           order == Descending(S, weight, rank)
           G == Greedy(order, weight, count)
<1>1. n \in Nat /\ count \in Nat \ {0} /\ count <= n
  BY FS_CardinalityType
<1>2. /\ order \in Bijection(1..n, S) /\ Len(order) = n
      /\ \A h, k \in 1..n : h <= k => weight[order[h]] >= weight[order[k]]
  <2>1. \A e \in S : weight[e] \in Int /\ rank[e] \in Int
    OBVIOUS
  <2> QED  BY <2>1, DescendingSorts
<1> HIDE DEF n, order
<1>3. order \in Injection(1..n, S) /\ order \in [1..n -> S] /\ \A e \in S : \E h \in 1..n : order[h] = e
  BY <1>2 DEF Bijection, Injection, Surjection
<1>4. Fair(order, weight, count, n, G)
  BY <1>1, <1>2, <1>3, GreedyIsFair
<1> HIDE DEF G
<1>5. {order[h] : h \in 1..n} = S
  BY <1>3
<1>6. G \in [1..count -> SUBSET S]
  BY <1>4, <1>5 DEF Fair
<1>7. \A e \in S : \E i \in 1..count : e \in G[i]
  BY <1>3, <1>4 DEF Fair
<1>8. UNION {G[i] : i \in 1..count} = S
  BY <1>6, <1>7
<1>9. \A i, j \in 1..count : i # j => G[i] \cap G[j] = {}
  BY <1>4 DEF Fair
<1>10. \A i \in 1..count : G[i] # {}
  <2> SUFFICES ASSUME NEW j \in 1..count, G[j] = {} PROVE FALSE
    OBVIOUS
  <2>1. \A i \in 1..count : \A x, y \in G[i] : x = y
    BY <1>4 DEF Fair
  <2> DEFINE bins == (1..count) \ {j}
             f == [e \in S |-> CHOOSE i \in 1..count : e \in G[i]]
  <2>2. \A e \in S : f[e] \in 1..count /\ e \in G[f[e]]
    BY <1>7
  <2> HIDE DEF f
  <2>3. f \in [S -> bins]
    <3>1. f = [e \in S |-> f[e]]
      BY DEF f
    <3> QED  BY <2>2, <3>1
  <2>4. f \in Injection(S, bins)
    BY <2>1, <2>2, <2>3 DEF Injection, IsInjective
  <2>5. IsFiniteSet(1..count) /\ Cardinality(1..count) = count
    BY <1>1, IntervalCount
  <2>6. IsFiniteSet(bins) /\ Cardinality(bins) = count - 1
    BY <2>5, FS_RemoveElement
  <2> HIDE DEF bins
  <2>7. n <= count - 1
    BY <2>4, <2>6, FS_Injection DEF n
  <2> QED  BY <1>1, <2>7
<1>11. ASSUME NEW i \in 1..count, NEW j \in 1..count
       PROVE  Total(weight, G[i]) - Min({weight[e] : e \in G[i]}) <= Total(weight, G[j])
  <2> DEFINE W == {weight[e] : e \in G[i]}
  <2>1. G[i] \in SUBSET S /\ G[i] # {}
    BY <1>6, <1>10
  <2>2. IsFiniteSet(G[i])
    BY <2>1, FS_Subset
  <2>3. IsFiniteSet(W) /\ W # {} /\ W \subseteq Int
    <3>1. IsFiniteSet(W)
      BY <2>2, FiniteValues
    <3> QED  BY <2>1, <3>1
  <2> HIDE DEF W
  <2>4. Min(W) \in W /\ \A y \in W : Min(W) <= y
    BY <2>3, FiniteMin
  <2>5. PICK e \in G[i] : Min(W) = weight[e]
    BY <2>4 DEF W
  <2>6. \A x \in G[i] : weight[e] <= weight[x]
    BY <2>4, <2>5 DEF W
  <2>7. Total(weight, G[i]) - weight[e] <= Total(weight, G[j])
    BY <1>4, <2>6 DEF Fair
  <2> QED  BY <2>5, <2>7 DEF W
<1>12. Allocates(G, S, weight, count)
  BY <1>6, <1>8, <1>9, <1>10, <1>11 DEF Allocates
<1> QED  BY <1>12 DEF G, order

------------------------------------------------------------------------------
(***************************************************************************)
(* Weights are positive.                                                   *)
(***************************************************************************)

\* The median exists, and is one of the durations.
LEMMA MedianIsDuration ==
    ASSUME NEW n \in Nat \ {0}, NEW d \in [1..n -> Nat \ {0}]
    PROVE  UpperMedian(d) \in Nat \ {0}
<1> DEFINE V == {d[i] : i \in 1..n}
           UpTo(v) == {i \in 1..n : d[i] <= v}
           Under(v) == {i \in 1..n : d[i] < v}
           half == n \div 2
           Half == {v \in V : Cardinality(UpTo(v)) > half}
<1>1. IsFiniteSet(1..n) /\ Cardinality(1..n) = n
  BY IntervalCount
<1>2. half \in Nat /\ half < n
  OBVIOUS
<1>3. IsFiniteSet(V) /\ V # {} /\ V \subseteq Nat \ {0}
  <2>1. IsFiniteSet(V)
    BY <1>1, FiniteValues
  <2>2. 1 \in 1..n
    OBVIOUS
  <2> QED  BY <2>1, <2>2
<1>4. \A v \in Nat : /\ Cardinality(UpTo(v)) \in Nat /\ Cardinality(Under(v)) \in Nat
  <2> SUFFICES ASSUME NEW v \in Nat
               PROVE  Cardinality(UpTo(v)) \in Nat /\ Cardinality(Under(v)) \in Nat
    OBVIOUS
  <2>1. UpTo(v) \in SUBSET (1..n) /\ Under(v) \in SUBSET (1..n)
    OBVIOUS
  <2>2. IsFiniteSet(UpTo(v)) /\ IsFiniteSet(Under(v))
    BY <1>1, <2>1, FS_Subset
  <2> QED  BY <2>2, FS_CardinalityType
<1>5. Half # {}
  <2>1. Max(V) \in V /\ \A y \in V : Max(V) >= y
    <3> HIDE DEF V
    <3>1. V \subseteq Int
      BY <1>3
    <3> QED  BY <1>3, <3>1, FiniteMax
  <2>2. UpTo(Max(V)) = 1..n
    BY <2>1
  <2> HIDE DEF UpTo, V, half
  <2> QED  BY <1>1, <1>2, <2>1, <2>2
<1>6. Half \in SUBSET Nat
  BY <1>3
<1> HIDE DEF Half
<1>7. PICK v \in Half : \A y \in Half : v <= y
  BY <1>5, <1>6, NatMin
<1>8. v \in V /\ v \in Nat /\ Cardinality(UpTo(v)) > half
  BY <1>3, <1>7 DEF Half
<1>9. Cardinality(Under(v)) <= half
  <2>1. CASE Under(v) = {}
    <3> HIDE DEF Under, half
    <3> QED  BY <1>2, <2>1, FS_EmptySet
  <2>2. CASE Under(v) # {}
    <3> DEFINE L == {y \in V : y < v}
    <3>1. L \in SUBSET V /\ L # {} /\ L \subseteq Int
      BY <1>3, <2>2
    <3>2. IsFiniteSet(L)
      BY <1>3, <3>1, FS_Subset
    <3>3. Max(L) \in L /\ \A y \in L : Max(L) >= y
      <4> HIDE DEF L
      <4> QED  BY <3>1, <3>2, FiniteMax
    <3>4. Max(L) \in V /\ Max(L) < v /\ Max(L) \in Nat
      BY <1>3, <3>3
    <3>5. Under(v) = UpTo(Max(L))
      <4>1. \A i \in 1..n : d[i] \in V /\ d[i] \in Nat
        OBVIOUS
      <4>2. \A i \in 1..n : d[i] < v => d[i] <= Max(L)
        BY <1>3, <3>3, <3>4, <4>1
      <4>3. \A i \in 1..n : d[i] <= Max(L) => d[i] < v
        <5> HIDE DEF L, V
        <5> QED  BY <1>8, <3>4, <4>1
      <4> QED  BY <4>2, <4>3
    <3> HIDE DEF L
    <3>6. Max(L) \notin Half
      BY <1>7, <1>8, <3>4
    <3>7. ~(Cardinality(UpTo(Max(L))) > half)
      BY <3>4, <3>6 DEF Half
    <3>8. Cardinality(UpTo(Max(L))) \in Nat
      BY <1>4, <3>4
    <3> HIDE DEF UpTo, Under, half
    <3> QED  BY <1>2, <3>5, <3>7, <3>8
  <2> QED  BY <2>1, <2>2
<1>10. DOMAIN d = 1..n /\ Len(d) = n
  BY FunctionLen
<1>11. UpperMedian(d) = CHOOSE u \in V : Cardinality(Under(u)) <= half /\ Cardinality(UpTo(u)) > half
  BY <1>10 DEF UpperMedian
<1> HIDE DEF V, Under, UpTo, half
<1>12. UpperMedian(d) \in V
  BY <1>8, <1>9, <1>11
<1> QED  BY <1>3, <1>12

LEMMA MaxOfTwo ==
    ASSUME NEW a \in Int, NEW b \in Int
    PROVE  Max({a, b}) = IF a >= b THEN a ELSE b
<1>1. CASE a >= b
  BY <1>1 DEF Max
<1>2. CASE ~(a >= b)
  BY <1>2 DEF Max
<1> QED  BY <1>1, <1>2

\* TimingManifest.Validate never rejects what BuildTimingManifest measured.
LEMMA ManifestWeights ==
    ASSUME NEW samples, IsSamples(samples)
    PROVE  /\ DOMAIN BuildTimingManifest(samples) = DOMAIN samples[1]
           /\ \A m \in DOMAIN samples[1] : BuildTimingManifest(samples)[m].weight \in Nat \ {0}
<1>1. DOMAIN BuildTimingManifest(samples) = DOMAIN samples[1]
  BY DEF BuildTimingManifest
<1>2. ASSUME NEW m \in DOMAIN samples[1]
      PROVE  BuildTimingManifest(samples)[m].weight \in Nat \ {0}
  <2> DEFINE n == Len(samples)
             top == [i \in DOMAIN samples |-> Max({samples[i][m].top, 1})]
             Nested(i) == {samples[i][m].nested[c] : c \in DOMAIN samples[i][m].nested}
             all == UNION {Nested(i) : i \in DOMAIN samples}
             longest == Max({0} \cup all)
  <2>1. BuildTimingManifest(samples)[m].weight = Max({UpperMedian(top), longest})
    BY DEF BuildTimingManifest
  <2>2. n \in Nat \ {0} /\ DOMAIN samples = 1..n
    BY DEF IsSamples
  <2>3. \A i \in 1..n : /\ m \in DOMAIN samples[i]
                        /\ samples[i][m].top \in Nat
                        /\ IsFiniteSet(DOMAIN samples[i][m].nested)
                        /\ \A c \in DOMAIN samples[i][m].nested : samples[i][m].nested[c] \in Nat
    BY <2>2 DEF IsSamples
  <2> HIDE DEF n
  <2>4. top \in [1..n -> Nat \ {0}]
    <3> SUFFICES ASSUME NEW i \in 1..n PROVE Max({samples[i][m].top, 1}) \in Nat \ {0}
      BY <2>2
    <3>1. samples[i][m].top \in Nat
      BY <2>3
    <3> QED  BY <3>1, MaxOfTwo
  <2> HIDE DEF top
  <2>5. UpperMedian(top) \in Nat \ {0}
    BY <2>2, <2>4, MedianIsDuration
  <2>6. \A i \in 1..n : IsFiniteSet(Nested(i)) /\ Nested(i) \subseteq Nat
    BY <2>3, FiniteValues
  <2>7. IsFiniteSet(all) /\ all \subseteq Nat
    <3> DEFINE f == [i \in 1..n |-> Nested(i)]
               T == {f[i] : i \in 1..n}
    <3>1. all = UNION T
      BY <2>2
    <3>2. \A i \in 1..n : IsFiniteSet(f[i]) /\ f[i] \subseteq Nat
      BY <2>6
    <3> HIDE DEF f, all
    <3>3. IsFiniteSet(T)
      <4>1. IsFiniteSet(1..n)
        BY <2>2, IntervalCount
      <4> QED  BY <4>1, FiniteValues
    <3>4. \A t \in T : IsFiniteSet(t) /\ t \subseteq Nat
      BY <3>2
    <3> HIDE DEF T
    <3>5. IsFiniteSet(UNION T)
      BY <3>3, <3>4, FS_UNION
    <3> QED  BY <3>1, <3>4, <3>5
  <2> HIDE DEF all
  <2>8. longest \in Nat
    <3>1. IsFiniteSet({0} \cup all)
      BY <2>7, FS_Singleton, FS_Union
    <3>2. {0} \cup all # {} /\ {0} \cup all \subseteq Nat
      BY <2>7
    <3>3. longest \in {0} \cup all
      BY <3>1, <3>2, FiniteMax
    <3> QED  BY <3>2, <3>3
  <2> HIDE DEF longest
  <2> QED  BY <2>1, <2>5, <2>8, MaxOfTwo
<1> QED  BY <1>1, <1>2

\* A test that the manifest does not know gets a positive weight too.
LEMMA ResolvedWeights ==
    ASSUME NEW manifest, IsFiniteSet(DOMAIN manifest), DOMAIN manifest # {},
           \A m \in DOMAIN manifest : manifest[m].weight \in Nat \ {0}, NEW census
    PROVE  LET weight == Weight(Resolve(manifest, census))
           IN  DOMAIN weight = census /\ \A m \in census : weight[m] \in Nat \ {0}
<1> DEFINE f == [k \in DOMAIN manifest |-> manifest[k].weight]
           V == {f[k] : k \in DOMAIN manifest}
           top == Max({manifest[k].weight : k \in DOMAIN manifest})
<1>1. {manifest[k].weight : k \in DOMAIN manifest} = V
  OBVIOUS
<1>2. V # {} /\ V \subseteq Nat \ {0}
  OBVIOUS
<1>3. IsFiniteSet(V)
  <2> HIDE DEF f
  <2> QED  BY FiniteValues
<1> HIDE DEF V
<1>4. top \in Nat \ {0}
  <2>1. V \subseteq Int
    BY <1>2
  <2> QED  BY <1>1, <1>2, <1>3, <2>1, FiniteMax
<1> HIDE DEF top
<1>5. Resolve(manifest, census) = [m \in census |->
         IF m \in DOMAIN manifest THEN manifest[m] ELSE [weight |-> top, nested |-> 0]]
  BY DEF Resolve, top
<1> QED  BY <1>4, <1>5 DEF Weight

------------------------------------------------------------------------------
(***************************************************************************)
(* The plan.                                                               *)
(***************************************************************************)

UnitOf(entries, shards, mode, i, s) ==
    [mode |-> mode, iteration |-> i, shard |-> s, members |-> AllocateLPT(entries, shards)[s],
     weight |-> Total(Weight(entries), AllocateLPT(entries, shards)[s])]

LEMMA UnitsOfPlan ==
    ASSUME NEW entries, NEW shards, NEW repeat, NEW u
    PROVE  u \in buildWorkUnits(entries, shards, repeat) <=>
              \E mode \in Modes : \E i \in Iterations(mode, repeat) : \E s \in 1..shards :
                 u = UnitOf(entries, shards, mode, i, s)
BY DEF buildWorkUnits, UnitOf

\* What the planner works on: positive weights for a finite census of test
\* names, and no more shards than tests.
Workable(entries, census, shards, repeat) ==
    /\ IsFiniteSet(census) /\ census \subseteq Int
    /\ DOMAIN entries = census
    /\ \A m \in census : Weight(entries)[m] \in Nat \ {0}
    /\ shards \in 1..Cardinality(census) /\ repeat \in Nat \ {0}

LEMMA ShardsAllocate ==
    ASSUME NEW entries, NEW census, NEW shards, NEW repeat,
           Workable(entries, census, shards, repeat)
    PROVE  Allocates(AllocateLPT(entries, shards), census, Weight(entries), shards)
<1> DEFINE weight == Weight(entries)
           ids == [m \in DOMAIN entries |-> m]
<1>1. IsFiniteSet(census) /\ DOMAIN entries = census /\ shards \in 1..Cardinality(census)
  BY DEF Workable
<1>2. \A m \in census : weight[m] \in Nat \ {0} /\ ids[m] \in Int /\ ids[m] = m
  BY DEF Workable
<1>3. AllocateLPT(entries, shards) = Greedy(Descending(census, weight, ids), weight, shards)
  BY <1>1 DEF AllocateLPT
<1> HIDE DEF weight, ids
<1>4. Allocates(Greedy(Descending(census, weight, ids), weight, shards), census, weight, shards)
  BY <1>1, <1>2, GreedyAllocates
<1> QED  BY <1>3, <1>4 DEF weight

\* Every unit has members of its own and a positive weight.
LEMMA UnitWeights ==
    ASSUME NEW entries, NEW census, NEW shards, NEW repeat,
           Workable(entries, census, shards, repeat), NEW s \in 1..shards
    PROVE  /\ AllocateLPT(entries, shards)[s] # {}
           /\ AllocateLPT(entries, shards)[s] \subseteq census
           /\ Total(Weight(entries), AllocateLPT(entries, shards)[s]) \in Nat \ {0}
<1> DEFINE A == AllocateLPT(entries, shards)
<1>1. A[s] \in SUBSET census /\ A[s] # {}
  BY ShardsAllocate DEF Allocates
<1>2. IsFiniteSet(census) /\ \A m \in census : Weight(entries)[m] \in Nat \ {0}
  BY DEF Workable
<1>3. IsFiniteSet(A[s])
  BY <1>1, <1>2, FS_Subset
<1>4. \A m \in A[s] : Weight(entries)[m] \in Nat \ {0}
  BY <1>1, <1>2
<1>5. Total(Weight(entries), A[s]) \in Nat \ {0}
  BY <1>1, <1>3, <1>4, TotalPositive
<1> QED  BY <1>1, <1>5

LEMMA FinitePlan ==
    ASSUME NEW entries, NEW shards \in Nat, NEW repeat \in Nat \ {0}
    PROVE  IsFiniteSet(buildWorkUnits(entries, shards, repeat))
<1> DEFINE U == buildWorkUnits(entries, shards, repeat)
           D == (Modes \X (1..repeat)) \X (1..shards)
           f == [p \in D |-> UnitOf(entries, shards, p[1][1], p[1][2], p[2])]
           V == {f[p] : p \in D}
<1>1. IsFiniteSet(Modes)
  <2>1. IsFiniteSet({"normal"}) /\ IsFiniteSet({"race"})
    BY FS_Singleton
  <2>2. IsFiniteSet({"normal"} \cup {"race"})
    BY <2>1, FS_Union
  <2>3. Modes = {"normal"} \cup {"race"}
    BY DEF Modes
  <2> QED  BY <2>2, <2>3
<1>2. IsFiniteSet(1..repeat) /\ IsFiniteSet(1..shards)
  BY IntervalCount
<1>3. IsFiniteSet(Modes \X (1..repeat))
  BY <1>1, <1>2, FS_Product
<1>4. IsFiniteSet(D)
  BY <1>2, <1>3, FS_Product
<1>5. ASSUME NEW u \in U PROVE u \in V
  <2>1. PICK mode \in Modes : \E i \in Iterations(mode, repeat) : \E s \in 1..shards :
                                 u = UnitOf(entries, shards, mode, i, s)
    BY UnitsOfPlan
  <2>2. PICK i \in Iterations(mode, repeat), s \in 1..shards : u = UnitOf(entries, shards, mode, i, s)
    BY <2>1
  <2>3. i \in 1..repeat
    BY DEF Iterations
  <2>4. <<<<mode, i>>, s>> \in D
    BY <2>3
  <2>5. f[<<<<mode, i>>, s>>] = u
    BY <2>2, <2>4
  <2> HIDE DEF f, D
  <2> QED  BY <2>4, <2>5
<1>6. U \in SUBSET V
  BY <1>5
<1>7. IsFiniteSet(V)
  <2> HIDE DEF f, D
  <2> QED  BY <1>4, FiniteValues
<1> HIDE DEF V, U
<1>8. IsFiniteSet(U)
  BY <1>6, <1>7, FS_Subset
<1> QED  BY <1>8 DEF U

\* The planner's own check never rejects what the planner made.
LEMMA PlanIsValid ==
    ASSUME NEW entries, NEW census, NEW shards, NEW repeat,
           Workable(entries, census, shards, repeat)
    PROVE  validateWorkUnits(buildWorkUnits(entries, shards, repeat), census, repeat, shards)
<1> DEFINE U == buildWorkUnits(entries, shards, repeat)
           A == AllocateLPT(entries, shards)
<1>1. shards \in Nat
  BY FS_CardinalityType DEF Workable
<1>2. Allocates(A, census, Weight(entries), shards)
  BY ShardsAllocate
<1>3. ASSUME NEW mode \in Modes, NEW i \in Iterations(mode, repeat)
      PROVE  LET here == {u \in U : u.mode = mode /\ u.iteration = i}
             IN  /\ UNION {u.members : u \in here} = census
                 /\ \A u, v \in here : u # v => u.members \cap v.members = {}
                 /\ \A u \in here : u.members # {} /\ u.weight > 0
                 /\ Cardinality(here) = shards
  <2> DEFINE here == {u \in U : u.mode = mode /\ u.iteration = i}
             g == [s \in 1..shards |-> UnitOf(entries, shards, mode, i, s)]
  <2>1. \A s \in 1..shards : /\ g[s].mode = mode /\ g[s].iteration = i /\ g[s].shard = s
                             /\ g[s].members = A[s]
                             /\ g[s].weight = Total(Weight(entries), A[s])
    BY DEF UnitOf
  <2>2. \A s \in 1..shards : g[s] \in here
    <3> SUFFICES ASSUME NEW s \in 1..shards PROVE g[s] \in U
      BY <2>1
    <3>1. g[s] = UnitOf(entries, shards, mode, i, s)
      OBVIOUS
    <3> QED  BY <3>1, UnitsOfPlan
  <2>3. \A u \in here : \E s \in 1..shards : u = g[s]
    <3> SUFFICES ASSUME NEW u \in here PROVE \E s \in 1..shards : u = g[s]
      OBVIOUS
    <3>1. PICK m \in Modes : \E j \in Iterations(m, repeat) : \E s \in 1..shards :
                                u = UnitOf(entries, shards, m, j, s)
      BY UnitsOfPlan
    <3>2. PICK j \in Iterations(m, repeat), s \in 1..shards : u = UnitOf(entries, shards, m, j, s)
      BY <3>1
    <3>3. m = mode /\ j = i
      BY <3>2 DEF UnitOf
    <3> QED  BY <3>2, <3>3
  <2> HIDE DEF here, A
  <2>4. g \in [1..shards -> here] /\ \A s, t \in 1..shards : g[s] = g[t] => s = t
    BY <2>1, <2>2
  <2> HIDE DEF g
  <2>5. g \in Surjection(1..shards, here) /\ g \in Injection(1..shards, here)
    BY <2>3, <2>4 DEF Surjection, Injection, IsInjective
  <2>6. Cardinality(here) = shards
    <3>1. IsFiniteSet(1..shards) /\ Cardinality(1..shards) = shards
      BY <1>1, IntervalCount
    <3> QED  BY <2>5, <3>1, FS_Surjection
  <2>7. UNION {u.members : u \in here} = UNION {A[s] : s \in 1..shards}
    BY <2>1, <2>2, <2>3
  <2>8. UNION {u.members : u \in here} = census
    BY <1>2, <2>7 DEF Allocates
  <2>9. \A u, v \in here : u # v => u.members \cap v.members = {}
    <3> SUFFICES ASSUME NEW u \in here, NEW v \in here, u # v PROVE u.members \cap v.members = {}
      OBVIOUS
    <3>1. PICK s \in 1..shards, t \in 1..shards : u = g[s] /\ v = g[t]
      BY <2>3
    <3>2. s # t
      BY <3>1
    <3>3. A[s] \cap A[t] = {}
      BY <1>2, <3>2 DEF Allocates
    <3> QED  BY <2>1, <3>1, <3>3
  <2>10. \A u \in here : u.members # {} /\ u.weight > 0
    <3> SUFFICES ASSUME NEW u \in here PROVE u.members # {} /\ u.weight > 0
      OBVIOUS
    <3>1. PICK s \in 1..shards : u = g[s]
      BY <2>3
    <3>2. A[s] # {} /\ Total(Weight(entries), A[s]) \in Nat \ {0}
      BY UnitWeights DEF A
    <3> QED  BY <2>1, <3>1, <3>2
  <2> QED  BY <2>6, <2>8, <2>9, <2>10 DEF here
<1> QED  BY <1>3 DEF validateWorkUnits

\* Units of a plan have different identities.
LEMMA RanksDiffer ==
    ASSUME NEW in, IsInput(in), IsLexical(in), NEW entries,
           NEW V \in SUBSET buildWorkUnits(entries, in.shards, in.repeat)
    PROVE  /\ IsFiniteSet(V)
           /\ \A u \in V : Rank(V)[u] \in Nat
           /\ \A u, v \in V : Rank(V)[u] = Rank(V)[v] => u = v
<1> DEFINE U == buildWorkUnits(entries, in.shards, in.repeat)
<1>1. in.shards \in Nat \ {0} /\ in.repeat \in Nat \ {0}
  BY DEF IsInput
<1>2. \A u \in V : \E mode \in Modes, i \in 1..in.repeat, s \in 1..in.shards :
                      u = UnitOf(entries, in.shards, mode, i, s)
  <2> SUFFICES ASSUME NEW u \in V
               PROVE  \E mode \in Modes, i \in 1..in.repeat, s \in 1..in.shards :
                         u = UnitOf(entries, in.shards, mode, i, s)
    OBVIOUS
  <2>1. PICK mode \in Modes : \E i \in Iterations(mode, in.repeat) : \E s \in 1..in.shards :
                                 u = UnitOf(entries, in.shards, mode, i, s)
    BY UnitsOfPlan
  <2>2. PICK i \in Iterations(mode, in.repeat), s \in 1..in.shards :
           u = UnitOf(entries, in.shards, mode, i, s)
    BY <2>1
  <2>3. i \in 1..in.repeat
    BY <1>1 DEF Iterations
  <2> QED  BY <2>2, <2>3
<1>3. IsFiniteSet(V)
  BY <1>1, FinitePlan, FS_Subset
<1>4. ASSUME NEW u \in V, NEW v \in V
      PROVE  Rank(V)[u] \in Nat /\ (Rank(V)[u] = Rank(V)[v] => u = v)
  <2>1. PICK m \in Modes, i \in 1..in.repeat, s \in 1..in.shards :
           u = UnitOf(entries, in.shards, m, i, s)
    BY <1>2
  <2>2. PICK n \in Modes, j \in 1..in.repeat, t \in 1..in.shards :
           v = UnitOf(entries, in.shards, n, j, t)
    BY <1>2
  <2>3. Rank(V)[u] = LexicalPosition(m, i, s) /\ Rank(V)[v] = LexicalPosition(n, j, t)
    BY <2>1, <2>2 DEF Rank, UnitOf
  <2>4. /\ LexicalPosition(m, i, s) \in Nat
        /\ LexicalPosition(m, i, s) = LexicalPosition(n, j, t) => m = n /\ i = j /\ s = t
    BY DEF IsLexical
  <2> QED  BY <2>1, <2>2, <2>3, <2>4
<1> QED  BY <1>3, <1>4

\* Every number of groups up to the number of units partitions the plan evenly.
LEMMA GroupsAllocate ==
    ASSUME NEW in, IsInput(in), IsLexical(in), NEW entries, NEW census,
           Workable(entries, census, in.shards, in.repeat),
           NEW U, U = buildWorkUnits(entries, in.shards, in.repeat),
           NEW count \in 1..Cardinality(U)
    PROVE  Allocates(WorkGroups(U, count), U, effectiveGroupWeight(U), count)
<1> DEFINE weight == effectiveGroupWeight(U)
<1>1. /\ IsFiniteSet(U)
      /\ \A u \in U : Rank(U)[u] \in Nat
      /\ \A u, v \in U : Rank(U)[u] = Rank(U)[v] => u = v
  <2> HIDE DEF weight
  <2>1. U \in SUBSET buildWorkUnits(entries, in.shards, in.repeat)
    OBVIOUS
  <2>2. IsFiniteSet(U)
    BY FinitePlan DEF IsInput
  <2>3. \A u \in U : Rank(U)[u] \in Nat
    BY <2>1, RanksDiffer
  <2>4. \A u, v \in U : Rank(U)[u] = Rank(U)[v] => u = v
    BY <2>1, RanksDiffer, Zenon
  <2> QED  BY <2>2, <2>3, <2>4
<1>2. ASSUME NEW u \in U PROVE weight[u] \in Nat \ {0}
  <2>1. PICK mode \in Modes : \E i \in Iterations(mode, in.repeat) : \E s \in 1..in.shards :
                                 u = UnitOf(entries, in.shards, mode, i, s)
    BY UnitsOfPlan
  <2>2. PICK i \in Iterations(mode, in.repeat), s \in 1..in.shards :
           u = UnitOf(entries, in.shards, mode, i, s)
    BY <2>1
  <2>3. u.weight \in Nat \ {0}
    BY <2>2, UnitWeights DEF UnitOf
  <2> DEFINE w == IF u.mode = "race" THEN 4 * u.weight ELSE u.weight
  <2>4. w \in Nat
    BY <2>3
  <2>5. weight[u] = Max({1, w})
    BY DEF effectiveGroupWeight
  <2> HIDE DEF w, weight
  <2> QED  BY <2>4, <2>5, MaxOfTwo
<1>3. WorkGroups(U, count) = Greedy(Descending(U, weight, Rank(U)), weight, count)
  BY DEF WorkGroups
<1> HIDE DEF weight
<1>4. \A u \in U : weight[u] \in Nat \ {0} /\ Rank(U)[u] \in Int
  BY <1>1, <1>2
<1>5. Allocates(Greedy(Descending(U, weight, Rank(U)), weight, count), U, weight, count)
  BY <1>1, <1>4, GreedyAllocates
<1> QED  BY <1>3, <1>5 DEF weight

\* Shards of one iteration are balanced.
LEMMA ShardsBalanced ==
    ASSUME NEW entries, NEW census, NEW shards, NEW repeat,
           Workable(entries, census, shards, repeat),
           NEW u \in buildWorkUnits(entries, shards, repeat),
           NEW v \in buildWorkUnits(entries, shards, repeat)
    PROVE  u.weight - Min({Weight(entries)[m] : m \in u.members}) <= v.weight
<1> DEFINE A == AllocateLPT(entries, shards)
<1>1. ASSUME NEW x \in buildWorkUnits(entries, shards, repeat)
      PROVE  \E s \in 1..shards : x.members = A[s] /\ x.weight = Total(Weight(entries), A[s])
  <2>1. PICK mode \in Modes : \E i \in Iterations(mode, repeat) : \E s \in 1..shards :
                                 x = UnitOf(entries, shards, mode, i, s)
    BY UnitsOfPlan
  <2> QED  BY <2>1 DEF UnitOf
<1>2. Allocates(A, census, Weight(entries), shards)
  BY ShardsAllocate
<1> HIDE DEF A
<1>3. PICK s \in 1..shards : u.members = A[s] /\ u.weight = Total(Weight(entries), A[s])
  BY <1>1
<1>4. PICK t \in 1..shards : v.weight = Total(Weight(entries), A[t])
  BY <1>1
<1>5. Total(Weight(entries), A[s]) - Min({Weight(entries)[e] : e \in A[s]})
         <= Total(Weight(entries), A[t])
  BY <1>2 DEF Allocates
<1> QED  BY <1>3, <1>4, <1>5

------------------------------------------------------------------------------
(***************************************************************************)
(* The inductive invariant.                                                *)
(***************************************************************************)

Planning == {"start", "timing", "timing-digest", "normal", "race", "plan", "select"}

TypeOK ==
    /\ input \in Inputs /\ ws \in 0..MaxEdits /\ started \in Int
    /\ timing \in [manifest : Int, digest : Int] /\ built \in [Modes -> Int]
    /\ pc \in Planning \cup {"execute", "final", "accepted", "failed"}

\* Each read of the workspace saw a version no older than the read before it.
Reading ==
    /\ pc \notin {"start", "failed"} => started \in 0..ws
    /\ pc \notin {"start", "failed", "timing"} => timing.manifest \in started..ws
    /\ pc \notin {"start", "failed", "timing", "timing-digest"} =>
          timing.digest \in timing.manifest..ws
    /\ pc \notin {"start", "failed", "timing", "timing-digest", "normal"} =>
          built["normal"] \in timing.digest..ws
    /\ pc \notin {"start", "failed", "timing", "timing-digest", "normal", "race"} =>
          built["race"] \in built["normal"]..ws
    /\ pc = "accepted" => started = ws

Planned ==
    pc = "select" =>
       /\ Plannable
       /\ plan = buildWorkUnits(Resolve(Manifest, Census("normal")), input.shards, input.repeat)

\* Nothing was executed yet.
Fresh ==
    pc \in Planning =>
       /\ next = 1 /\ feeder = "feeding" /\ cancelled = FALSE
       /\ results = {} /\ firstErr = NoError

Outcomes == {"passed", "failed", "timed-out", "inexact", "unwritable", "canceled"}
States == {"idle", "running", "sending", "failing", "ended"}

PoolTypes ==
    /\ Len(selected) \in Nat \ {0} /\ selected \in Injection(1..Len(selected), Nat)
    /\ next \in 1..(Len(selected) + 1)
    /\ runs = [i \in 1..Len(selected) |-> IF i < next THEN 1 ELSE 0]
    /\ feeder \in {"feeding", "closed"} /\ cancelled \in BOOLEAN
    /\ \E c \in 1..input.workers :
          worker \in [1..c -> [state : States, unit : Nat, status : Outcomes \cup {"none"}]]

\* The feeder gives up, and a worker ends or cancels, only for a reason.
PoolOrder ==
    /\ feeder = "closed" => next > Len(selected) \/ cancelled
    /\ cancelled => firstErr # NoError
    /\ \A w \in DOMAIN worker :
          /\ Pool(w) = "ended" => feeder = "closed"
          /\ Pool(w) = "failing" => firstErr # NoError
          /\ Pool(w) = "sending" => worker[w].status \in Outcomes
          /\ Pool(w) = "sending" /\ worker[w].status = "canceled" => firstErr # NoError

PassedUnit(i) == [unit |-> selected[i], status |-> "passed"]

Held(i) == \E w \in DOMAIN worker : Pool(w) \in {"running", "sending"} /\ worker[w].unit = selected[i]

\* Without an error, a unit that was handed out is in a worker's hands or its
\* result was received, and nothing else was received.
PoolAccounts ==
    /\ \A w \in DOMAIN worker : Pool(w) \in {"running", "sending"} =>
          \E i \in 1..(next - 1) : worker[w].unit = selected[i]
    /\ firstErr = NoError =>
          /\ \A r \in results : \E i \in 1..(next - 1) : r = PassedUnit(i)
          /\ \A i \in 1..(next - 1) : PassedUnit(i) \in results \/ Held(i)

Executing == pc = "execute" => PoolTypes /\ PoolOrder /\ PoolAccounts

Executed ==
    pc \in {"final", "accepted"} =>
       /\ \A i \in DOMAIN selected : runs[i] = 1
       /\ results = {[unit |-> selected[i], status |-> "passed"] : i \in DOMAIN selected}

Blame == firstErr.status # "canceled"

IInv == TypeOK /\ Reading /\ Planned /\ Fresh /\ Executing /\ Executed /\ Blame

------------------------------------------------------------------------------
(***************************************************************************)
(* The plan of a state.                                                    *)
(***************************************************************************)

Entries == Resolve(Manifest, Census("normal"))

LEMMA InputIs ==
    TypeOK => /\ IsInput(input) /\ IsLexical(input) /\ MaxEdits \in Nat
              /\ ws \in Nat /\ ws <= MaxEdits
BY InputsAssumption, MaxEditsAssumption DEF TypeOK

\* What is plannable is workable.
LEMMA PlanIsWorkable ==
    ASSUME TypeOK, Reading, pc \in {"plan", "select"}, Plannable
    PROVE  Workable(Entries, Census("normal"), input.shards, input.repeat)
<1> DEFINE samples == Tree(timing.manifest).samples
<1>1. IsInput(input) /\ ws \in Nat /\ ws <= MaxEdits /\ MaxEdits \in Nat
  BY InputIs
<1>2. timing.manifest \in 0..MaxEdits /\ built["normal"] \in 0..MaxEdits
  <2>1. started \in 0..ws /\ timing.manifest \in started..ws
    BY DEF Reading
  <2>2. timing.digest \in timing.manifest..ws /\ built["normal"] \in timing.digest..ws
    BY DEF Reading
  <2>3. timing.manifest \in 0..ws
    BY <1>1, <2>1
  <2>4. built["normal"] \in 0..ws
    BY <1>1, <2>2, <2>3
  <2> QED  BY <1>1, <2>3, <2>4
<1>3. IsSamples(samples) /\ IsFiniteSet(Census("normal")) /\ Census("normal") \subseteq Int
  BY <1>1, <1>2 DEF IsInput, Tree, Census, Modes
<1>4. /\ DOMAIN Manifest = DOMAIN samples[1]
      /\ \A m \in DOMAIN samples[1] : Manifest[m].weight \in Nat \ {0}
  BY <1>3, ManifestWeights DEF Manifest
<1>5. IsFiniteSet(DOMAIN samples[1]) /\ DOMAIN samples[1] # {}
  BY <1>3 DEF IsSamples
<1> HIDE DEF samples
<1>6. /\ DOMAIN Weight(Entries) = Census("normal")
      /\ \A m \in Census("normal") : Weight(Entries)[m] \in Nat \ {0}
  BY <1>4, <1>5, ResolvedWeights DEF Entries
<1>7. DOMAIN Entries = Census("normal")
  BY DEF Entries, Resolve
<1>8. input.shards \in Nat \ {0} /\ input.repeat \in Nat \ {0}
  BY <1>1 DEF IsInput
<1>9. input.shards \in 1..Cardinality(Census("normal"))
  <2>1. input.shards <= Cardinality(Census("normal"))
    BY DEF Plannable
  <2>2. Cardinality(Census("normal")) \in Nat
    BY <1>3, FS_CardinalityType
  <2> QED  BY <1>8, <2>1, <2>2
<1> QED  BY <1>3, <1>6, <1>7, <1>8, <1>9 DEF Workable

LEMMA PlanHasGroups ==
    ASSUME TypeOK, Reading, Planned, pc = "select", NEW count \in 1..Cardinality(plan)
    PROVE  Allocates(WorkGroups(plan, count), plan, effectiveGroupWeight(plan), count)
<1>1. Workable(Entries, Census("normal"), input.shards, input.repeat)
  BY PlanIsWorkable DEF Planned
<1>2. plan = buildWorkUnits(Entries, input.shards, input.repeat)
  BY DEF Planned, Entries
<1>3. IsInput(input) /\ IsLexical(input)
  BY InputIs
<1> QED  BY <1>1, <1>2, <1>3, GroupsAllocate

LEMMA PlanHolds == TypeOK /\ Reading /\ Planned => PlanIsExactAndBalanced
<1> SUFFICES ASSUME TypeOK, Reading, Planned PROVE PlanIsPartitioned /\ LoadIsBalanced
  BY DEF PlanIsExactAndBalanced
<1>1. pc \notin {"invalid-plan", "empty-group"}
  BY DEF TypeOK, Planning
<1>2. PlanIsPartitioned
  <2> SUFFICES ASSUME pc = "select", NEW count \in 1..Cardinality(plan)
               PROVE  LET groups == WorkGroups(plan, count)
                      IN  /\ UNION {groups[i] : i \in 1..count} = plan
                          /\ \A i, j \in 1..count : i # j => groups[i] \cap groups[j] = {}
                          /\ \A i \in 1..count : groups[i] # {}
    BY <1>1 DEF PlanIsPartitioned
  <2> QED  BY PlanHasGroups DEF Allocates
<1>3. LoadIsBalanced
  <2> SUFFICES ASSUME pc = "select"
               PROVE  /\ \A u, v \in {x \in plan : x.mode = "normal" /\ x.iteration = 1} :
                            u.weight - Min({Weight(Entries)[m] : m \in u.members}) <= v.weight
                      /\ input.group # <<>> /\ input.group[2] <= Cardinality(plan) =>
                            LET weight == effectiveGroupWeight(plan)
                                groups == WorkGroups(plan, input.group[2])
                            IN  \A i, j \in DOMAIN groups :
                                   Total(weight, groups[i]) - Min({weight[u] : u \in groups[i]})
                                      <= Total(weight, groups[j])
    BY DEF LoadIsBalanced, Entries
  <2>1. ASSUME NEW u \in plan, NEW v \in plan
        PROVE  u.weight - Min({Weight(Entries)[m] : m \in u.members}) <= v.weight
    <3>1. Workable(Entries, Census("normal"), input.shards, input.repeat)
      BY PlanIsWorkable DEF Planned
    <3>2. plan = buildWorkUnits(Entries, input.shards, input.repeat)
      BY DEF Planned, Entries
    <3> QED  BY <3>1, <3>2, ShardsBalanced
  <2>2. ASSUME input.group # <<>>, input.group[2] <= Cardinality(plan)
        PROVE  LET weight == effectiveGroupWeight(plan)
                   groups == WorkGroups(plan, input.group[2])
               IN  \A i, j \in DOMAIN groups :
                      Total(weight, groups[i]) - Min({weight[u] : u \in groups[i]})
                         <= Total(weight, groups[j])
    <3> DEFINE count == input.group[2]
               weight == effectiveGroupWeight(plan)
               groups == WorkGroups(plan, count)
    <3>1. count \in 1..Cardinality(plan)
      <4>1. count \in Nat /\ input.group[1] \in 1..count
        BY <2>2, InputIs DEF IsInput
      <4>2. Cardinality(plan) \in Nat
        BY InputIs, FinitePlan, FS_CardinalityType DEF Planned, IsInput
      <4> QED  BY <2>2, <4>1, <4>2
    <3>2. Allocates(groups, plan, weight, count)
      BY <3>1, PlanHasGroups
    <3> HIDE DEF count, weight, groups
    <3>3. \A i, j \in DOMAIN groups :
             Total(weight, groups[i]) - Min({weight[u] : u \in groups[i]}) <= Total(weight, groups[j])
      BY <3>2 DEF Allocates
    <3> QED  BY <3>3 DEF groups, weight, count
  <2> QED  BY <2>1, <2>2
<1> QED  BY <1>2, <1>3

------------------------------------------------------------------------------
(***************************************************************************)
(* Steps outside of the pool.                                              *)
(***************************************************************************)

LEMMA InitIInv == Init => IInv
<1> SUFFICES ASSUME Init PROVE IInv
  OBVIOUS
<1>1. TypeOK
  BY MaxEditsAssumption DEF Init, TypeOK, Planning
<1>2. Reading /\ Planned /\ Fresh /\ Executing /\ Executed
  BY DEF Init, Reading, Planned, Fresh, Executing, Executed
<1>3. Blame
  BY DEF Init, Blame, NoError
<1> QED  BY <1>1, <1>2, <1>3 DEF IInv

\* Nothing that the invariant speaks of changes.
LEMMA UnchangedIInv ==
    ASSUME IInv, UNCHANGED <<input, started, timing, built, plan, selected, pool, pc>>,
           ws' \in 0..MaxEdits, ws' >= ws, pc = "accepted" => ws' = ws
    PROVE  IInv'
<1> USE DEF pool
<1>1. TypeOK'
  BY DEF IInv, TypeOK
<1>2. Reading'
  <2>1. ws \in Int /\ ws' \in Int /\ started \in Int
    BY MaxEditsAssumption DEF IInv, TypeOK
  <2>2. \A lo, x \in Int : x \in lo..ws => x \in lo..ws'
    BY <2>1
  <2>3. built["normal"] \in Int /\ built["race"] \in Int /\ timing.manifest \in Int /\ timing.digest \in Int
    BY DEF IInv, TypeOK, Modes
  <2> QED  BY <2>1, <2>2, <2>3 DEF IInv, Reading
<1>3. Planned'
  BY DEF IInv, Planned, Plannable, Census, Manifest, Tree
<1>4. Fresh'
  BY DEF IInv, Fresh
<1>5. Executing'
  BY DEF IInv, Executing, PoolTypes, PoolOrder, PoolAccounts, PassedUnit, Held, Pool
<1>6. Executed' /\ Blame'
  BY DEF IInv, Executed, Blame
<1> QED  BY <1>1, <1>2, <1>3, <1>4, <1>5, <1>6 DEF IInv

\* The command gives up.
LEMMA FailsIInv ==
    ASSUME IInv, NEW from, Fails(from) PROVE IInv'
<1>1. pc' = "failed" /\ UNCHANGED <<input, ws, started, timing, built, plan, selected, pool>>
  BY DEF Fails, Step
<1>2. TypeOK'
  BY <1>1 DEF IInv, TypeOK
<1>3. Reading' /\ Planned' /\ Executing' /\ Executed'
  BY <1>1 DEF Reading, Planned, Executing, Executed
<1>4. Fresh'
  BY <1>1 DEF Fresh, Planning
<1>5. Blame'
  BY <1>1 DEF IInv, Blame, pool
<1> QED  BY <1>2, <1>3, <1>4, <1>5 DEF IInv

\* The reads that precede the plan.
LEMMA ReadIInv ==
    ASSUME IInv,
           \/ InitialDigest \/ LoadTimingManifest \/ DigestTiming
           \/ \E mode \in Modes : BuildBinary(mode)
    PROVE  IInv'
<1>1. pc \in Planning \ {"plan", "select"} /\ pc' \in Planning \ {"start", "select"} /\ UNCHANGED <<input, ws, pool>>
  BY DEF InitialDigest, LoadTimingManifest, DigestTiming, BuildBinary, Step, Planning, Modes
<1>2. ws \in 0..MaxEdits /\ ws \in Int /\ ws >= 0 /\ timing \in [manifest : Int, digest : Int]
      /\ built \in [Modes -> Int] /\ started \in Int
  BY MaxEditsAssumption DEF IInv, TypeOK
<1>3. TypeOK' /\ Reading'
  <2>1. CASE InitialDigest
    BY <1>1, <1>2, <2>1 DEF InitialDigest, Step, IInv, TypeOK, Reading
  <2>2. CASE LoadTimingManifest
    BY <1>1, <1>2, <2>2 DEF LoadTimingManifest, Step, IInv, TypeOK, Reading
  <2>3. CASE DigestTiming
    BY <1>1, <1>2, <2>3 DEF DigestTiming, Step, IInv, TypeOK, Reading
  <2>4. CASE BuildBinary("normal")
    BY <1>1, <1>2, <2>4 DEF BuildBinary, Step, IInv, TypeOK, Reading, Modes
  <2>5. CASE BuildBinary("race")
    BY <1>1, <1>2, <2>5 DEF BuildBinary, Step, IInv, TypeOK, Reading, Modes
  <2> QED  BY <2>1, <2>2, <2>3, <2>4, <2>5 DEF Modes
<1>4. Fresh'
  BY <1>1 DEF IInv, Fresh, pool
<1>5. Planned' /\ Executing' /\ Executed'
  BY <1>1 DEF Planned, Executing, Executed, Planning
<1>6. Blame'
  BY <1>1 DEF IInv, Blame, pool
<1> QED  BY <1>3, <1>4, <1>5, <1>6 DEF IInv

LEMMA NewPlanIInv == ASSUME IInv, NewPlan PROVE IInv'
<1>1. Workable(Entries, Census("normal"), input.shards, input.repeat)
  BY PlanIsWorkable DEF IInv, NewPlan
<1>2. validateWorkUnits(buildWorkUnits(Entries, input.shards, input.repeat), Census("normal"),
                        input.repeat, input.shards)
  BY <1>1, PlanIsValid
<1>3. /\ pc = "plan" /\ Plannable /\ pc' = "select"
      /\ plan' = buildWorkUnits(Entries, input.shards, input.repeat)
      /\ UNCHANGED <<input, ws, started, timing, built, selected, pool>>
  BY <1>2 DEF NewPlan, Step, Entries
<1>4. TypeOK'
  BY <1>3 DEF IInv, TypeOK, Planning
<1>5. Reading'
  BY <1>3 DEF IInv, Reading
<1>6. Planned'
  BY <1>3 DEF Planned, Entries, Plannable, Census, Manifest, Tree
<1>7. Fresh'
  BY <1>3 DEF IInv, Fresh, Planning, pool
<1>8. Executing' /\ Executed' /\ Blame'
  BY <1>3 DEF IInv, Executing, Executed, Blame, pool
<1> QED  BY <1>4, <1>5, <1>6, <1>7, <1>8 DEF IInv

\* The units of this process, never none.
LEMMA GroupIsUsable ==
    ASSUME IInv, pc = "select", input.group # <<>> => input.group[2] <= Cardinality(plan),
           NEW group, group = IF input.group = <<>> THEN plan
                              ELSE WorkGroups(plan, input.group[2])[input.group[1]]
    PROVE  /\ group # {} /\ Cardinality(group) \in Nat \ {0}
           /\ InOrder(group) \in Injection(1..Cardinality(group), Nat)
           /\ Len(InOrder(group)) = Cardinality(group)
<1>1. plan = buildWorkUnits(Entries, input.shards, input.repeat)
  BY DEF IInv, Planned, Entries
<1>2. IsInput(input) /\ IsLexical(input)
  BY InputIs DEF IInv
<1>3. IsFiniteSet(plan)
  BY <1>1, <1>2, FinitePlan DEF IsInput
<1>4. group \in SUBSET plan /\ group # {}
  <2>1. CASE input.group = <<>>
    <3>1. 1 \in 1..input.shards /\ 1 \in Iterations("normal", input.repeat) /\ "normal" \in Modes
      BY <1>2 DEF IsInput, Iterations, Modes
    <3>2. UnitOf(Entries, input.shards, "normal", 1, 1) \in plan
      BY <1>1, <3>1, UnitsOfPlan
    <3> QED  BY <2>1, <3>2
  <2>2. CASE input.group # <<>>
    <3> DEFINE count == input.group[2]
               i == input.group[1]
    <3>1. count \in Nat /\ i \in 1..count
      BY <1>2, <2>2 DEF IsInput
    <3>2. Cardinality(plan) \in Nat
      BY <1>3, FS_CardinalityType
    <3>3. count \in 1..Cardinality(plan)
      BY <2>2, <3>1, <3>2
    <3>4. Allocates(WorkGroups(plan, count), plan, effectiveGroupWeight(plan), count)
      BY <3>3, PlanHasGroups DEF IInv
    <3>5. WorkGroups(plan, count)[i] \in SUBSET plan /\ WorkGroups(plan, count)[i] # {}
      BY <3>1, <3>4 DEF Allocates
    <3> QED  BY <2>2, <3>5
  <2> QED  BY <2>1, <2>2
<1>5. group \in SUBSET buildWorkUnits(Entries, input.shards, input.repeat)
  BY <1>1, <1>4
<1>6. IsFiniteSet(group)
  BY <1>3, <1>4, FS_Subset
<1>7. Cardinality(group) \in Nat \ {0}
  BY <1>4, <1>6, FS_CardinalityType, FS_EmptySet
<1>8. \A V \in SUBSET buildWorkUnits(Entries, input.shards, input.repeat) :
         /\ \A u \in V : Rank(V)[u] \in Nat
         /\ \A u, v \in V : Rank(V)[u] = Rank(V)[v] => u = v
  BY <1>2, RanksDiffer
<1>9. /\ \A u \in group : Rank(group)[u] \in Nat
      /\ \A u, v \in group : Rank(group)[u] = Rank(group)[v] => u = v
  BY <1>5, <1>8
<1>10. /\ InOrder(group) \in Injection(1..Cardinality(group), Nat)
       /\ Len(InOrder(group)) = Cardinality(group)
  BY <1>6, <1>9, InOrderLists
<1> QED  BY <1>4, <1>7, <1>10

LEMMA SelectIInv == ASSUME IInv, SelectWorkGroup PROVE IInv'
<1> DEFINE group == IF input.group = <<>> THEN plan
                    ELSE WorkGroups(plan, input.group[2])[input.group[1]]
           n == Cardinality(group)
           c == Min({input.workers, n})
<1>1. pc = "select" /\ (input.group # <<>> => input.group[2] <= Cardinality(plan))
  BY DEF SelectWorkGroup
<1>2. /\ group # {} /\ n \in Nat \ {0}
      /\ InOrder(group) \in Injection(1..n, Nat) /\ Len(InOrder(group)) = n
  BY <1>1, GroupIsUsable
<1>3. /\ pc' = "execute" /\ selected' = InOrder(group)
      /\ worker' = [w \in 1..c |-> Ready] /\ runs' = [i \in 1..n |-> 0]
      /\ UNCHANGED <<input, ws, started, timing, built, plan, next, feeder, cancelled, results, firstErr>>
  BY <1>2 DEF SelectWorkGroup
<1> HIDE DEF group
<1>4. c \in 1..input.workers
  <2>1. input.workers \in Nat \ {0}
    BY InputIs DEF IInv, IsInput
  <2>2. c = input.workers \/ c = n
    BY <1>2, <2>1 DEF Min
  <2>3. c <= input.workers /\ c \in Nat \ {0}
    BY <1>2, <2>1 DEF Min
  <2> QED  BY <2>1, <2>3
<1> HIDE DEF n, c
<1>5. next = 1 /\ feeder = "feeding" /\ cancelled = FALSE /\ results = {} /\ firstErr = NoError
  BY <1>1 DEF IInv, Fresh, Planning
<1>6. TypeOK'
  BY <1>3 DEF IInv, TypeOK
<1>7. Reading'
  BY <1>1, <1>3 DEF IInv, Reading
<1>8. PoolTypes'
  <2>1. Ready \in [state : States, unit : Nat, status : Outcomes \cup {"none"}]
    BY DEF Ready, States
  <2>2. \E d \in 1..input'.workers :
           worker' \in [1..d -> [state : States, unit : Nat, status : Outcomes \cup {"none"}]]
    BY <1>3, <1>4, <2>1
  <2>3. runs' = [i \in 1..n |-> IF i < next' THEN 1 ELSE 0]
    BY <1>2, <1>3, <1>5
  <2>4. next' \in 1..(n + 1)
    BY <1>2, <1>3, <1>5
  <2> QED  BY <1>2, <1>3, <1>5, <2>2, <2>3, <2>4 DEF PoolTypes
<1>9. PoolOrder' /\ PoolAccounts'
  BY <1>3, <1>5 DEF PoolOrder, PoolAccounts, Pool, Ready
<1>10. Planned' /\ Fresh' /\ Executed'
  BY <1>3 DEF Planned, Fresh, Planning, Executed
<1>11. Blame'
  BY <1>3 DEF IInv, Blame
<1> QED  BY <1>3, <1>6, <1>7, <1>8, <1>9, <1>10, <1>11 DEF IInv, Executing

LEMMA FinalIInv == ASSUME IInv, FinalDigest PROVE IInv'
<1>1. /\ pc = "final" /\ pc' \in {"accepted", "failed"} /\ (pc' = "accepted" => ws = started)
      /\ UNCHANGED <<input, ws, started, timing, built, plan, selected, pool>>
  BY DEF FinalDigest, Step
<1>2. TypeOK'
  BY <1>1 DEF IInv, TypeOK
<1>3. Reading'
  BY <1>1 DEF IInv, Reading
<1>4. Planned' /\ Fresh' /\ Executing'
  BY <1>1 DEF Planned, Fresh, Planning, Executing
<1>5. Executed' /\ Blame'
  BY <1>1 DEF IInv, Executed, Blame, pool
<1> QED  BY <1>2, <1>3, <1>4, <1>5 DEF IInv

\* The pool returns without an error only when every unit's result is there.
LEMMA ExecutePlanIInv == ASSUME IInv, executePlan PROVE IInv'
<1>1. /\ pc = "execute" /\ \A w \in DOMAIN worker : Pool(w) = "ended"
      /\ UNCHANGED <<input, ws, started, timing, built, plan, selected, pool>>
  BY DEF executePlan
<1> DEFINE n == Len(selected)
           all == {[unit |-> selected[i], status |-> "passed"] : i \in DOMAIN selected}
<1>2. PoolTypes /\ PoolOrder /\ PoolAccounts
  BY <1>1 DEF IInv, Executing
<1>3. n \in Nat \ {0} /\ selected \in Injection(1..n, Nat) /\ DOMAIN selected = 1..n
  BY <1>2 DEF PoolTypes, Injection
<1>4. ASSUME firstErr = NoError
      PROVE  results = all /\ Cardinality(results) = n /\ \A i \in DOMAIN selected : runs[i] = 1
  <2>1. DOMAIN worker # {}
    <3>1. PICK c \in 1..input.workers : DOMAIN worker = 1..c
      BY <1>2 DEF PoolTypes
    <3>2. input.workers \in Nat
      BY InputIs DEF IInv, IsInput
    <3>3. 1 \in 1..c
      BY <3>2
    <3> QED  BY <3>1, <3>3
  <2>2. feeder = "closed" /\ ~cancelled
    BY <1>1, <1>2, <1>4, <2>1 DEF PoolOrder
  <2>3. next > n /\ next \in 1..(n + 1)
    BY <1>2, <2>2 DEF PoolOrder, PoolTypes
  <2>4. 1..(next - 1) = 1..n
    BY <1>3, <2>3
  <2>5. \A i \in 1..n : ~Held(i)
    BY <1>1 DEF Held
  <2>6. /\ \A r \in results : \E i \in 1..n : r = PassedUnit(i)
        /\ \A i \in 1..n : PassedUnit(i) \in results
    BY <1>2, <1>4, <2>4, <2>5 DEF PoolAccounts
  <2>7. results = all
    BY <1>3, <2>6 DEF PassedUnit
  <2>8. \A i \in DOMAIN selected : runs[i] = 1
    BY <1>2, <1>3, <2>3 DEF PoolTypes
  <2>9. Cardinality(all) = n
    <3> DEFINE f == [i \in 1..n |-> [unit |-> selected[i], status |-> "passed"]]
    <3>1. \A i, j \in 1..n : f[i] = f[j] => i = j
      BY <1>3 DEF Injection, IsInjective
    <3>2. f \in [1..n -> all] /\ \A r \in all : \E i \in 1..n : f[i] = r
      BY <1>3
    <3> HIDE DEF f, all
    <3>3. f \in Surjection(1..n, all) /\ f \in Injection(1..n, all)
      BY <3>1, <3>2 DEF Injection, Surjection, IsInjective
    <3>4. IsFiniteSet(1..n) /\ Cardinality(1..n) = n
      BY <1>3, IntervalCount
    <3> QED  BY <3>3, <3>4, FS_Surjection
  <2> QED  BY <2>7, <2>8, <2>9
<1>5. pc' \in {"failed", "final"} /\ (pc' = "final" => firstErr = NoError)
  BY <1>4 DEF executePlan
<1>6. TypeOK'
  BY <1>1, <1>5 DEF IInv, TypeOK
<1>7. Reading'
  BY <1>1, <1>5 DEF IInv, Reading
<1>8. Planned' /\ Fresh' /\ Executing'
  BY <1>5 DEF Planned, Fresh, Planning, Executing
<1>9. Executed'
  BY <1>1, <1>4, <1>5 DEF Executed, pool
<1>10. Blame'
  BY <1>1 DEF IInv, Blame, pool
<1> QED  BY <1>6, <1>7, <1>8, <1>9, <1>10 DEF IInv

------------------------------------------------------------------------------
(***************************************************************************)
(* Steps of the pool.                                                      *)
(***************************************************************************)

Worker == [state : States, unit : Nat, status : Outcomes \cup {"none"}]

\* A step of the pool leaves the rest of the command alone.
LEMMA PoolFrame ==
    ASSUME IInv, pc = "execute", UNCHANGED <<input, ws, started, timing, built, plan, selected, pc>>,
           PoolTypes', PoolOrder', PoolAccounts', Blame'
    PROVE  IInv'
<1>1. TypeOK'
  BY DEF IInv, TypeOK
<1>2. Reading'
  BY DEF IInv, Reading
<1>3. Planned' /\ Fresh' /\ Executing' /\ Executed'
  BY DEF Planned, Fresh, Planning, Executing, Executed
<1> QED  BY <1>1, <1>2, <1>3 DEF IInv

LEMMA PoolFacts ==
    ASSUME IInv, pc = "execute"
    PROVE  /\ PoolTypes /\ PoolOrder /\ PoolAccounts /\ Blame
           /\ worker \in [DOMAIN worker -> Worker]
           /\ Len(selected) \in Nat \ {0} /\ selected \in [1..Len(selected) -> Nat]
           /\ next \in 1..(Len(selected) + 1)
BY DEF IInv, Executing, PoolTypes, Worker, Injection

\* One worker changes, and its new state is of the right type.
LEMMA OneWorker ==
    ASSUME IInv, pc = "execute", UNCHANGED <<input, selected>>,
           NEW w \in DOMAIN worker, NEW x \in Worker, worker' = [worker EXCEPT ![w] = x],
           feeder' = feeder, cancelled' \in BOOLEAN, next' \in 1..(Len(selected) + 1),
           runs' = [i \in 1..Len(selected) |-> IF i < next' THEN 1 ELSE 0]
    PROVE  /\ PoolTypes' /\ DOMAIN worker' = DOMAIN worker /\ worker'[w] = x
           /\ \A v \in DOMAIN worker : v # w => worker'[v] = worker[v]
<1>1. PICK c \in 1..input.workers : worker \in [1..c -> Worker]
  BY PoolFacts DEF PoolTypes, Worker
<1>2. worker' \in [1..c -> Worker] /\ DOMAIN worker' = DOMAIN worker /\ worker'[w] = x
      /\ \A v \in DOMAIN worker : v # w => worker'[v] = worker[v]
  BY <1>1
<1>3. PoolTypes'
  BY <1>1, <1>2, PoolFacts DEF PoolTypes, Worker
<1> QED  BY <1>2, <1>3

LEMMA FeederStopsIInv == ASSUME IInv, FeederStops PROVE IInv'
<1>1. /\ pc = "execute" /\ (next > Len(selected) \/ cancelled) /\ feeder' = "closed"
      /\ UNCHANGED <<input, ws, started, timing, built, plan, selected, next, worker,
                     cancelled, results, firstErr, runs, pc>>
  BY DEF FeederStops
<1>2. PoolTypes'
  BY <1>1, PoolFacts DEF PoolTypes
<1>3. PoolOrder'
  BY <1>1, PoolFacts DEF PoolOrder, Pool
<1>4. PoolAccounts' /\ Blame'
  BY <1>1, PoolFacts DEF PoolAccounts, PassedUnit, Held, Pool, Blame
<1> QED  BY <1>1, <1>2, <1>3, <1>4, PoolFrame

LEMMA FeedJobIInv == ASSUME IInv, NEW w \in DOMAIN worker, FeedJob(w) PROVE IInv'
<1> DEFINE x == [worker[w] EXCEPT !.state = "running", !.unit = selected[next]]
<1>1. /\ pc = "execute" /\ feeder = "feeding" /\ next <= Len(selected) /\ worker[w].state = "idle"
      /\ worker' = [worker EXCEPT ![w] = x] /\ next' = next + 1
      /\ runs' = [runs EXCEPT ![next] = @ + 1]
      /\ UNCHANGED <<input, ws, started, timing, built, plan, selected, feeder, cancelled, results, firstErr, pc>>
  BY DEF FeedJob, Pool
<1>2. /\ PoolTypes /\ PoolOrder /\ PoolAccounts /\ Blame /\ worker[w] \in Worker
      /\ Len(selected) \in Nat \ {0} /\ selected \in [1..Len(selected) -> Nat]
      /\ next \in 1..(Len(selected) + 1)
  BY <1>1, PoolFacts
<1>3. next \in 1..Len(selected) /\ next' \in 1..(Len(selected) + 1)
      /\ next \in 1..(next' - 1) /\ 1..(next - 1) \subseteq 1..(next' - 1)
  BY <1>1, <1>2
<1>4. x \in Worker /\ x.state = "running" /\ x.unit = selected[next]
  BY <1>2, <1>3 DEF Worker, States
<1> HIDE DEF x
<1>5. runs' = [i \in 1..Len(selected) |-> IF i < next' THEN 1 ELSE 0]
  <2>1. runs = [i \in 1..Len(selected) |-> IF i < next THEN 1 ELSE 0]
    BY <1>2 DEF PoolTypes
  <2>2. ASSUME NEW i \in 1..Len(selected) PROVE runs'[i] = IF i < next' THEN 1 ELSE 0
    <3>1. CASE i = next
      BY <1>1, <1>3, <2>1, <3>1
    <3>2. CASE i # next
      <4>1. runs'[i] = runs[i]
        BY <1>1, <2>1, <3>2
      <4>2. i < next <=> i < next'
        BY <1>1, <1>2, <3>2
      <4> QED  BY <2>1, <4>1, <4>2
    <3> QED  BY <3>1, <3>2
  <2>3. runs' = [i \in 1..Len(selected) |-> runs'[i]]
    BY <1>1, <2>1
  <2> QED  BY <2>2, <2>3
<1>6. cancelled' \in BOOLEAN
  BY <1>1, <1>2 DEF PoolTypes
<1>7. /\ PoolTypes' /\ DOMAIN worker' = DOMAIN worker /\ worker'[w] = x
      /\ \A v \in DOMAIN worker : v # w => worker'[v] = worker[v]
  BY <1>1, <1>3, <1>4, <1>5, <1>6, OneWorker
<1>8. PoolOrder'
  BY <1>1, <1>2, <1>4, <1>7 DEF PoolOrder, Pool
<1>9. PoolAccounts'
  <2>1. ASSUME NEW v \in DOMAIN worker', Pool(v)' \in {"running", "sending"}
        PROVE  \E i \in 1..(next' - 1) : worker'[v].unit = selected'[i]
    <3>1. CASE v = w
      BY <1>1, <1>3, <1>4, <1>7, <3>1
    <3>2. CASE v # w
      BY <1>1, <1>2, <1>3, <1>7, <2>1, <3>2 DEF PoolAccounts, Pool
    <3> QED  BY <3>1, <3>2
  <2>2. ASSUME firstErr' = NoError, NEW r \in results'
        PROVE  \E i \in 1..(next' - 1) : r = PassedUnit(i)'
    BY <1>1, <1>2, <1>3, <2>2 DEF PoolAccounts, PassedUnit
  <2>3. ASSUME firstErr' = NoError, NEW i \in 1..(next' - 1)
        PROVE  PassedUnit(i)' \in results' \/ Held(i)'
    <3>1. CASE i = next
      BY <1>1, <1>4, <1>7, <3>1 DEF Held, Pool
    <3>2. CASE i # next
      <4>1. i \in 1..(next - 1)
        BY <1>1, <1>2, <2>3, <3>2
      <4>2. PassedUnit(i) \in results \/ Held(i)
        BY <1>1, <1>2, <2>3, <4>1 DEF PoolAccounts
      <4>3. Held(i) => Held(i)'
        BY <1>1, <1>7 DEF Held, Pool
      <4> QED  BY <1>1, <4>2, <4>3 DEF PassedUnit
    <3> QED  BY <3>1, <3>2
  <2> QED  BY <2>1, <2>2, <2>3 DEF PoolAccounts
<1>10. Blame'
  BY <1>1, <1>2 DEF Blame
<1> QED  BY <1>1, <1>7, <1>8, <1>9, <1>10, PoolFrame

LEMMA ExecuteUnitIInv ==
    ASSUME IInv, NEW w \in DOMAIN worker, NEW status \in Statuses, executeWorkUnit(w, status)
    PROVE  IInv'
<1> DEFINE x == [worker[w] EXCEPT !.state = "sending", !.status = status]
<1>1. /\ pc = "execute" /\ worker[w].state = "running"
      /\ worker' = [worker EXCEPT ![w] = x]
      /\ UNCHANGED <<input, ws, started, timing, built, plan, selected, next, feeder,
                     cancelled, results, firstErr, runs, pc>>
  BY DEF executeWorkUnit, Pool
<1>2. /\ PoolTypes /\ PoolOrder /\ PoolAccounts /\ Blame /\ worker[w] \in Worker
      /\ Len(selected) \in Nat \ {0} /\ next \in 1..(Len(selected) + 1)
  BY <1>1, PoolFacts
<1>3. status \in Outcomes /\ (status = "canceled" => cancelled)
  BY DEF Statuses, Outcomes
<1>4. x \in Worker /\ x.state = "sending" /\ x.status = status /\ x.unit = worker[w].unit
  BY <1>2, <1>3 DEF Worker, States
<1> HIDE DEF x
<1>5. runs' = [i \in 1..Len(selected) |-> IF i < next' THEN 1 ELSE 0] /\ cancelled' \in BOOLEAN
  BY <1>1, <1>2 DEF PoolTypes
<1>6. /\ PoolTypes' /\ DOMAIN worker' = DOMAIN worker /\ worker'[w] = x
      /\ \A v \in DOMAIN worker : v # w => worker'[v] = worker[v]
  BY <1>1, <1>2, <1>4, <1>5, OneWorker
<1>7. PoolOrder'
  BY <1>1, <1>2, <1>3, <1>4, <1>6 DEF PoolOrder, Pool
<1>8. PoolAccounts'
  <2>1. \A v \in DOMAIN worker : /\ Pool(v)' \in {"running", "sending"} <=> Pool(v) \in {"running", "sending"}
                                 /\ worker'[v].unit = worker[v].unit
    BY <1>1, <1>4, <1>6 DEF Pool
  <2>2. \A i : Held(i)' <=> Held(i)
    BY <1>1, <1>6, <2>1 DEF Held
  <2> QED  BY <1>1, <1>2, <1>6, <2>1, <2>2 DEF PoolAccounts, PassedUnit
<1>9. Blame'
  BY <1>1, <1>2 DEF Blame
<1> QED  BY <1>1, <1>6, <1>7, <1>8, <1>9, PoolFrame

\* A result is received before its worker cancels the others.
LEMMA SendOutcomeIInv == ASSUME IInv, NEW w \in DOMAIN worker, SendOutcome(w) PROVE IInv'
<1> DEFINE o == [unit |-> worker[w].unit, status |-> worker[w].status]
           x == IF Erroneous(o.status) THEN [worker[w] EXCEPT !.state = "failing"] ELSE Ready
<1>1. /\ pc = "execute" /\ worker[w].state = "sending"
      /\ results' = (IF o.status = "unwritable" THEN results ELSE results \cup {o})
      /\ firstErr' = (IF Erroneous(o.status) /\ firstErr = NoError THEN o ELSE firstErr)
      /\ worker' = [worker EXCEPT ![w] = x]
      /\ UNCHANGED <<input, ws, started, timing, built, plan, selected, next, feeder, cancelled, runs, pc>>
  BY DEF SendOutcome, Pool
<1>2. /\ PoolTypes /\ PoolOrder /\ PoolAccounts /\ Blame /\ worker[w] \in Worker
      /\ Len(selected) \in Nat \ {0} /\ next \in 1..(Len(selected) + 1)
  BY <1>1, PoolFacts
<1>3. o.status \in Outcomes /\ (o.status = "canceled" => firstErr # NoError)
  BY <1>1, <1>2 DEF PoolOrder, Pool
<1>4. /\ x \in Worker /\ x.state \in {"failing", "idle"}
      /\ x.state = "failing" <=> o.status # "passed"
  <2>1. CASE o.status = "passed"
    BY <2>1 DEF Erroneous, Ready, Worker, States
  <2>2. CASE o.status # "passed"
    BY <1>2, <2>2 DEF Erroneous, Worker, States
  <2> QED  BY <2>1, <2>2
<1>5. o # NoError /\ (o.status # "passed" => firstErr' # NoError)
      /\ (firstErr # NoError => firstErr' # NoError) /\ firstErr'.status # "canceled"
  <2>1. o # NoError
    BY <1>3 DEF NoError, Outcomes
  <2> QED  BY <1>1, <1>2, <1>3, <2>1 DEF Erroneous, Blame
<1>6. PICK k \in 1..(next - 1) : o.unit = selected[k]
  BY <1>1, <1>2 DEF PoolAccounts, Pool
<1>7. o.status = "passed" => o = PassedUnit(k)
  BY <1>6 DEF PassedUnit
<1> HIDE DEF x
<1>8. runs' = [i \in 1..Len(selected) |-> IF i < next' THEN 1 ELSE 0] /\ cancelled' \in BOOLEAN
  BY <1>1, <1>2 DEF PoolTypes
<1>9. /\ PoolTypes' /\ DOMAIN worker' = DOMAIN worker /\ worker'[w] = x
      /\ \A v \in DOMAIN worker : v # w => worker'[v] = worker[v]
  BY <1>1, <1>2, <1>4, <1>8, OneWorker
<1>10. PoolOrder'
  BY <1>1, <1>2, <1>4, <1>5, <1>9 DEF PoolOrder, Pool
<1>11. PoolAccounts'
  <2>1. ASSUME NEW v \in DOMAIN worker', Pool(v)' \in {"running", "sending"}
        PROVE  v # w /\ \E i \in 1..(next' - 1) : worker'[v].unit = selected'[i]
    BY <1>1, <1>2, <1>4, <1>9, <2>1 DEF PoolAccounts, Pool
  <2>2. ASSUME firstErr' = NoError
        PROVE  firstErr = NoError /\ o.status = "passed" /\ results' = results \cup {PassedUnit(k)}
    BY <1>1, <1>5, <1>7, <2>2
  <2>3. ASSUME firstErr' = NoError, NEW r \in results'
        PROVE  \E i \in 1..(next' - 1) : r = PassedUnit(i)'
    BY <1>1, <1>2, <2>2, <2>3 DEF PoolAccounts, PassedUnit
  <2>4. ASSUME firstErr' = NoError, NEW i \in 1..(next' - 1)
        PROVE  PassedUnit(i)' \in results' \/ Held(i)'
    <3>1. PassedUnit(i) \in results \/ Held(i)
      BY <1>1, <1>2, <2>2, <2>4 DEF PoolAccounts
    <3>2. CASE PassedUnit(i) \in results
      BY <1>1, <2>2, <2>4, <3>2 DEF PassedUnit
    <3>3. CASE Held(i)
      <4>1. PICK v \in DOMAIN worker : Pool(v) \in {"running", "sending"} /\ worker[v].unit = selected[i]
        BY <3>3 DEF Held
      <4>2. CASE v = w
        <5>1. PassedUnit(i) = o
          BY <2>2, <2>4, <4>1, <4>2 DEF PassedUnit
        <5> QED  BY <1>1, <1>7, <2>2, <2>4, <5>1 DEF PassedUnit
      <4>3. CASE v # w
        BY <1>1, <1>9, <4>1, <4>3 DEF Held, Pool
      <4> QED  BY <4>2, <4>3
    <3> QED  BY <3>1, <3>2, <3>3
  <2> QED  BY <2>1, <2>3, <2>4 DEF PoolAccounts
<1>12. Blame'
  BY <1>5 DEF Blame
<1> QED  BY <1>1, <1>9, <1>10, <1>11, <1>12, PoolFrame

\* A worker that holds no unit changes to another state without one.
LEMMA LetGo ==
    ASSUME IInv, pc = "execute", NEW w \in DOMAIN worker, NEW x \in Worker,
           worker[w].state \notin {"running", "sending"}, x.state \notin {"running", "sending"},
           DOMAIN worker' = DOMAIN worker, worker'[w] = x,
           \A v \in DOMAIN worker : v # w => worker'[v] = worker[v],
           UNCHANGED <<selected, next, results, firstErr>>
    PROVE  PoolAccounts'
<1>1. PoolAccounts
  BY PoolFacts
<1>2. \A v \in DOMAIN worker : /\ Pool(v)' \in {"running", "sending"} <=> Pool(v) \in {"running", "sending"}
                               /\ Pool(v) \in {"running", "sending"} => worker'[v].unit = worker[v].unit
  BY DEF Pool
<1>3. \A i : Held(i)' <=> Held(i)
  BY <1>2 DEF Held
<1> QED  BY <1>1, <1>2, <1>3 DEF PoolAccounts, PassedUnit

LEMMA CancelIInv == ASSUME IInv, NEW w \in DOMAIN worker, Cancel(w) PROVE IInv'
<1>1. /\ pc = "execute" /\ worker[w].state = "failing" /\ cancelled' = TRUE
      /\ worker' = [worker EXCEPT ![w] = Ready]
      /\ UNCHANGED <<input, ws, started, timing, built, plan, selected, next, feeder,
                     results, firstErr, runs, pc>>
  BY DEF Cancel, Pool
<1>2. PoolTypes /\ PoolOrder /\ Blame /\ next \in 1..(Len(selected) + 1)
  BY <1>1, PoolFacts
<1>3. Ready \in Worker /\ Ready.state = "idle"
  BY DEF Ready, Worker, States
<1>4. runs' = [i \in 1..Len(selected) |-> IF i < next' THEN 1 ELSE 0]
  BY <1>1, <1>2 DEF PoolTypes
<1>5. /\ PoolTypes' /\ DOMAIN worker' = DOMAIN worker /\ worker'[w] = Ready
      /\ \A v \in DOMAIN worker : v # w => worker'[v] = worker[v]
  BY <1>1, <1>2, <1>3, <1>4, OneWorker
<1>6. PoolOrder'
  BY <1>1, <1>2, <1>3, <1>5 DEF PoolOrder, Pool
<1>7. PoolAccounts'
  BY <1>1, <1>3, <1>5, LetGo
<1>8. Blame'
  BY <1>1, <1>2 DEF Blame
<1> QED  BY <1>1, <1>5, <1>6, <1>7, <1>8, PoolFrame

LEMMA WorkerEndsIInv == ASSUME IInv, NEW w \in DOMAIN worker, WorkerEnds(w) PROVE IInv'
<1> DEFINE x == [worker[w] EXCEPT !.state = "ended"]
<1>1. /\ pc = "execute" /\ worker[w].state = "idle" /\ feeder = "closed"
      /\ worker' = [worker EXCEPT ![w] = x]
      /\ UNCHANGED <<input, ws, started, timing, built, plan, selected, next, feeder,
                     cancelled, results, firstErr, runs, pc>>
  BY DEF WorkerEnds, Pool
<1>2. PoolTypes /\ PoolOrder /\ Blame /\ next \in 1..(Len(selected) + 1) /\ worker[w] \in Worker
  BY <1>1, PoolFacts
<1>3. x \in Worker /\ x.state = "ended"
  BY <1>2 DEF Worker, States
<1> HIDE DEF x
<1>4. runs' = [i \in 1..Len(selected) |-> IF i < next' THEN 1 ELSE 0] /\ cancelled' \in BOOLEAN
  BY <1>1, <1>2 DEF PoolTypes
<1>5. /\ PoolTypes' /\ DOMAIN worker' = DOMAIN worker /\ worker'[w] = x
      /\ \A v \in DOMAIN worker : v # w => worker'[v] = worker[v]
  BY <1>1, <1>2, <1>3, <1>4, OneWorker
<1>6. PoolOrder'
  BY <1>1, <1>2, <1>3, <1>5 DEF PoolOrder, Pool
<1>7. PoolAccounts'
  BY <1>1, <1>3, <1>5, LetGo
<1>8. Blame'
  BY <1>1, <1>2 DEF Blame
<1> QED  BY <1>1, <1>5, <1>6, <1>7, <1>8, PoolFrame

------------------------------------------------------------------------------
(***************************************************************************)
(* The theorems.                                                           *)
(***************************************************************************)

\* IInv is an invariant of the command.
THEOREM Invariance == Spec => []IInv
<1>1. IInv /\ [Next]_vars => IInv'
  <2> SUFFICES ASSUME IInv, [Next]_vars PROVE IInv'
    OBVIOUS
  <2>0. ws \in 0..MaxEdits /\ ws >= ws
    BY MaxEditsAssumption DEF IInv, TypeOK
  <2>1. CASE InitialDigest \/ LoadTimingManifest \/ DigestTiming \/ \E mode \in Modes : BuildBinary(mode)
    BY <2>1, ReadIInv
  <2>2. CASE BuildFails \/ RejectPlan \/ TooManyGroups
    BY <2>2, FailsIInv DEF BuildFails, RejectPlan, TooManyGroups
  <2>3. CASE NewPlan
    BY <2>3, NewPlanIInv
  <2>4. CASE SelectWorkGroup
    BY <2>4, SelectIInv
  <2>5. CASE FeederStops
    BY <2>5, FeederStopsIInv
  <2>6. ASSUME NEW w \in DOMAIN worker,
               FeedJob(w) \/ SendOutcome(w) \/ Cancel(w) \/ WorkerEnds(w)
        PROVE  IInv'
    BY <2>6, FeedJobIInv, SendOutcomeIInv, CancelIInv, WorkerEndsIInv
  <2>7. ASSUME NEW w \in DOMAIN worker, NEW status \in Statuses, executeWorkUnit(w, status)
        PROVE  IInv'
    BY <2>7, ExecuteUnitIInv
  <2>8. CASE executePlan
    BY <2>8, ExecutePlanIInv
  <2>9. CASE FinalDigest
    BY <2>9, FinalIInv
  <2>10. CASE Edit
    <3>1. /\ UNCHANGED <<input, started, timing, built, plan, selected, pool, pc>>
          /\ ws' \in 0..MaxEdits /\ ws' >= ws /\ pc # "accepted"
      BY <2>0, <2>10, MaxEditsAssumption DEF Edit
    <3> QED  BY <3>1, UnchangedIInv
  <2>11. CASE Returned \/ UNCHANGED vars
    <3>1. UNCHANGED <<input, ws, started, timing, built, plan, selected, pool, pc>>
      BY <2>11 DEF Returned, vars
    <3> QED  BY <2>0, <3>1, UnchangedIInv
  <2> QED  BY <2>1, <2>2, <2>3, <2>4, <2>5, <2>6, <2>7, <2>8, <2>9, <2>10, <2>11 DEF Next, Program
<1> QED  BY InitIInv, <1>1, PTL DEF Spec

\* Work groups partition the plan evenly, for every manifest, census and number
\* of groups; the planner never rejects its own plan and no group is empty.
THEOREM ExactAndBalanced == Spec => []PlanIsExactAndBalanced
<1>1. IInv => PlanIsExactAndBalanced
  BY PlanHolds DEF IInv
<1> QED  BY Invariance, <1>1, PTL

\* Success means that every selected unit ran once and passed, in the workspace
\* of the digest; the error of a failed run is a unit's own, in every
\* interleaving of any number of workers.
THEOREM GenuineOutcome == Spec => []OutcomeIsGenuine
<1>1. IInv => OutcomeIsGenuine
  <2> SUFFICES ASSUME IInv PROVE SuccessIsExhaustive /\ FirstErrorIsGenuine
    BY DEF OutcomeIsGenuine
  <2>1. FirstErrorIsGenuine
    BY DEF IInv, Blame, TypeOK, Planning, FirstErrorIsGenuine
  <2>2. ASSUME pc = "accepted"
        PROVE  {started, timing.manifest, timing.digest, built["normal"], built["race"]} = {ws}
    <3>1. /\ started = ws /\ timing.manifest \in started..ws /\ timing.digest \in timing.manifest..ws
          /\ built["normal"] \in timing.digest..ws /\ built["race"] \in built["normal"]..ws
      BY <2>2 DEF IInv, Reading
    <3>2. ws \in Int
      BY MaxEditsAssumption DEF IInv, TypeOK
    <3>3. timing.manifest = ws
      BY <3>1, <3>2
    <3>4. timing.digest = ws
      BY <3>1, <3>2, <3>3
    <3>5. built["normal"] = ws
      BY <3>1, <3>2, <3>4
    <3>6. built["race"] = ws
      BY <3>1, <3>2, <3>5
    <3> QED  BY <3>1, <3>3, <3>4, <3>5, <3>6
  <2>3. SuccessIsExhaustive
    BY <2>2 DEF IInv, Executed, SuccessIsExhaustive
  <2> QED  BY <2>1, <2>3
<1> QED  BY Invariance, <1>1, PTL
=============================================================================
