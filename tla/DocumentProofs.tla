--------------------------- MODULE DocumentProofs ----------------------------
(***************************************************************************)
(* What seal, validate and the walk along the parents of scopes promise,   *)
(* for documents of any size.                                              *)
(*                                                                         *)
(* std::sort, as Sorted models it, puts each element behind the ones it    *)
(* must follow: the ranks number the elements, so the result is a          *)
(* permutation, and there is one ascending order (Sorting).  Hence         *)
(* canonicalize reaches a fixed point that depends on the content alone    *)
(* (Canonical form), and validation finds in the sealed document what it   *)
(* found in the draft (Validity).  FilesSealed, the inductive invariant,   *)
(* says which sealed document each file comes from and which of its parts  *)
(* the changes made since can have reached.                                *)
(***************************************************************************)
EXTENDS Document, FiniteSetTheorems, FunctionTheorems, WellFoundedInduction, TLAPS

-----------------------------------------------------------------------------
(* The walk *)

\* A set of natural numbers with a member has a least one.
LEMMA LeastMember ==
  ASSUME NEW N, N \subseteq Nat, N # {}
  PROVE  \E n \in N : \A m \in N : n <= m
<1> DEFINE R == OpToRel(<, Nat)
<1>1. IsWellFoundedOn(R, Nat)
  BY NatLessThanWellFounded
<1>2. PICK n \in N : \A m \in N : <<m, n>> \notin R
  <2> HIDE DEF R
  <2> QED
    BY <1>1, WFMin
<1>3. \A m \in N : ~(m < n)
  BY <1>2 DEF OpToRel
<1> QED
  BY <1>3

\* v follows `up' from the first element for l steps, to "" when it leaves S.
Follows(v, l, first, S, up) ==
  v = [k \in 0..l |-> IF k = 0 THEN first
                      ELSE IF v[k - 1] \in S THEN up[v[k - 1]] ELSE ""]

\* There is such a walk of every length: by the least length that has none.
LEMMA WalksExist ==
  ASSUME NEW n \in Nat, NEW first, NEW S, NEW up
  PROVE  \E w : Follows(w, n, first, S, up)
<1> DEFINE Is(v, l) == v = [k \in 0..l |-> IF k = 0 THEN first
                                           ELSE IF v[k - 1] \in S THEN up[v[k - 1]] ELSE ""]
           Has(l) == \E v : Is(v, l)
<1>1. Has(0)
  <2> DEFINE none == [k \in 0..0 |-> first]
  <2>1. \A k \in 0..0 : k = 0
    OBVIOUS
  <2>2. Is(none, 0)
    BY <2>1
  <2> QED
    BY <2>2
<1>2. ASSUME NEW m \in Nat, m # 0, Has(m - 1) PROVE Has(m)
  <2>1. PICK v : Is(v, m - 1)
    BY <1>2
  <2> DEFINE next == IF v[m - 1] \in S THEN up[v[m - 1]] ELSE ""
             w == [k \in 0..m |-> IF k = m THEN next ELSE v[k]]
  <2>2. \A k \in 0..(m - 1) : v[k] = IF k = 0 THEN first
                                     ELSE IF v[k - 1] \in S THEN up[v[k - 1]] ELSE ""
    BY <2>1
  <2> HIDE DEF Has, next
  <2>3. w[m] = next /\ \A k \in 0..(m - 1) : w[k] = v[k]
    BY <1>2
  <2>4. w = [k \in 0..m |-> w[k]]
    OBVIOUS
  <2> HIDE DEF w
  <2>5. ASSUME NEW k \in 0..m
        PROVE  w[k] = IF k = 0 THEN first ELSE IF w[k - 1] \in S THEN up[w[k - 1]] ELSE ""
    <3>1. CASE k # m
      <4>1. k \in 0..(m - 1) /\ (k # 0 => k - 1 \in 0..(m - 1))
        BY <1>2, <3>1
      <4> QED
        BY <2>2, <2>3, <4>1
    <3>2. CASE k = m
      <4>1. k # 0 /\ k - 1 \in 0..(m - 1)
        BY <1>2, <3>2
      <4> QED
        BY <2>3, <3>2, <4>1 DEF next
    <3> QED
      BY <3>1, <3>2
  <2>6. Is(w, m)
    BY <2>4, <2>5
  <2> QED
    BY <2>6 DEF Has
<1> HIDE DEF Has
<1> DEFINE N == {l \in Nat : ~Has(l)}
<1>3. N = {}
  <2>1. SUFFICES ASSUME N # {} PROVE FALSE
    OBVIOUS
  <2>2. PICK m \in N : \A l \in N : m <= l
    BY <2>1, LeastMember
  <2>3. m \in Nat /\ ~Has(m) /\ m # 0
    BY <1>1
  <2>4. m - 1 \in Nat /\ ~(m <= m - 1)
    BY <2>3
  <2>5. Has(m - 1)
    BY <2>2, <2>4
  <2> QED
    BY <1>2, <2>3, <2>5
<1> QED
  BY <1>3 DEF Has, Follows

\* Walk, step by step.
LEMMA WalkIs ==
  ASSUME NEW b, NEW s, Len(b.scopes) \in Nat
  PROVE  /\ Walk(b, s)[0] = s
         /\ \A k \in 1..Len(b.scopes) :
              Walk(b, s)[k] = IF Walk(b, s)[k - 1] \in ScopeNames(b)
                              THEN ScopeNamed(b, Walk(b, s)[k - 1]).parent ELSE ""
<1> DEFINE n == Len(b.scopes)
           S == ScopeNames(b)
           up == [x \in S |-> ScopeNamed(b, x).parent]
           Is(w) == w = [k \in 0..n |-> IF k = 0 THEN s
                                        ELSE IF w[k - 1] \in S
                                        THEN ScopeNamed(b, w[k - 1]).parent ELSE ""]
<1>1. \E w : Is(w)
  <2>1. \A x \in S : up[x] = ScopeNamed(b, x).parent
    OBVIOUS
  <2>2. PICK w : Follows(w, n, s, S, up)
    <3>1. n \in Nat
      OBVIOUS
    <3> HIDE DEF S, up, n
    <3> QED
      BY <3>1, WalksExist
  <2> HIDE DEF S, up, n
  <2>3. Is(w)
    BY <2>1, <2>2 DEF Follows
  <2> QED
    BY <2>3
<1>2. Walk(b, s) = CHOOSE w : Is(w)
  BY DEF Walk
<1>3. Is(Walk(b, s))
  <2> HIDE DEF Is
  <2> QED
    BY <1>1, <1>2
<1> DEFINE w == Walk(b, s)
<1> HIDE DEF w, S
<1>4. \A k \in 0..n : w[k] = IF k = 0 THEN s
                             ELSE IF w[k - 1] \in S THEN ScopeNamed(b, w[k - 1]).parent ELSE ""
  BY <1>3 DEF w
<1>5. 0 \in 0..n /\ \A k \in 1..n : k \in 0..n /\ k # 0
  OBVIOUS
<1> HIDE DEF n, Is
<1>6. w[0] = s /\ \A k \in 1..n : w[k] = IF w[k - 1] \in S
                                         THEN ScopeNamed(b, w[k - 1]).parent ELSE ""
  BY <1>4, <1>5
<1> QED
  BY <1>6 DEF w, S, n

\* There are at most as many names as scopes.
LEMMA NamesCounted ==
  ASSUME NEW b, IsList(b.scopes)
  PROVE  IsFiniteSet(ScopeNames(b)) /\ Cardinality(ScopeNames(b)) <= Len(b.scopes)
<1> DEFINE n == Len(b.scopes)
           f == [i \in 1..n |-> b.scopes[i].name]
           T == ScopeNames(b)
<1>1. n \in Nat /\ T = {b.scopes[i].name : i \in 1..n}
  BY DEF IsList, ScopeNames
<1>2. f \in Surjection(1..n, T)
  BY <1>1 DEF Surjection
<1>3. 1 \in Int /\ n \in Int
  BY <1>1
<1>4. IsFiniteSet(1..n) /\ Cardinality(1..n) = n
  <2> HIDE DEF n
  <2>1. IsFiniteSet(1..n) /\ Cardinality(1..n) = IF 1 > n THEN 0 ELSE n - 1 + 1
    BY <1>3, FS_Interval
  <2> QED
    BY <1>1, <2>1
<1> HIDE DEF f, T, n
<1>5. IsFiniteSet(T) /\ Cardinality(T) <= Cardinality(1..n)
  BY <1>2, <1>4, FS_Surjection
<1> QED
  BY <1>4, <1>5 DEF T, n

Closed(b, S) == \A s \in S : ScopeNamed(b, s).parent \in S

\* A walk that never ends visits a name twice, and what it visits in between
\* is closed.
LEMMA CyclicHasClosed ==
  ASSUME NEW b, IsList(b.scopes), Cyclic(b)
  PROVE  \E S \in (SUBSET ScopeNames(b)) \ {{}} : Closed(b, S)
<1> DEFINE n == Len(b.scopes)
           T == ScopeNames(b)
<1>1. PICK s \in T : \A k \in 0..n : Walk(b, s)[k] \in T
  BY DEF Cyclic
<1> DEFINE w == Walk(b, s)
           f == [k \in 0..n |-> w[k]]
<1>2. n \in Nat
  BY DEF IsList
<1>3. IsFiniteSet(T) /\ Cardinality(T) <= n
  BY NamesCounted
<1>4. \A k \in 1..n : w[k] = IF w[k - 1] \in T THEN ScopeNamed(b, w[k - 1]).parent ELSE ""
  BY <1>2, WalkIs, ZenonT(60)
<1>5. f \in [0..n -> T] /\ \A k \in 0..n : f[k] = w[k]
  BY <1>1
<1>6. IsFiniteSet(0..n) /\ Cardinality(0..n) = n + 1
  <2>1. 0 \in Int /\ n \in Int
    BY <1>2
  <2> QED
    BY <1>2, <2>1, FS_Interval, SMTT(30)
<1> HIDE DEF w, f, T, n
<1>7. PICK x \in 0..n, y \in 0..n : x # y /\ f[x] = f[y]
  <2>1. Cardinality(T) \in Nat
    BY <1>3, FS_CardinalityType
  <2>2. Cardinality(T) < Cardinality(0..n)
    BY <1>2, <1>3, <1>6, <2>1
  <2> DEFINE I == 0..n
  <2>3. IsFiniteSet(I) /\ Cardinality(T) < Cardinality(I) /\ f \in [I -> T]
    BY <1>5, <1>6, <2>2
  <2> HIDE DEF I
  <2>4. \E x, y \in I : x # y /\ f[x] = f[y]
    BY <1>3, <2>3, FS_PigeonHole
  <2> QED
    BY <2>4 DEF I
<1>8. PICK i \in 0..n, j \in 0..n : i < j /\ w[i] = w[j]
  BY <1>2, <1>5, <1>7
<1> DEFINE S == {w[k] : k \in i..(j - 1)}
<1>9. \A k \in i..(j - 1) : k \in 0..n /\ k + 1 \in 1..n /\ k + 1 - 1 = k
                            /\ (k + 1 \in i..(j - 1) \/ k + 1 = j)
  BY <1>2, <1>8
<1>10. i \in i..(j - 1)
  BY <1>2, <1>8
<1>11. \A k \in i..(j - 1) : w[k] \in T /\ w[k + 1] = ScopeNamed(b, w[k]).parent
  <2> TAKE k \in i..(j - 1)
  <2>1. k \in 0..n /\ k + 1 \in 1..n /\ k + 1 - 1 = k
    BY <1>9
  <2>2. w[k] \in T
    BY <1>1, <2>1 DEF w
  <2> DEFINE l == k + 1
  <2>3. l \in 1..n /\ l - 1 = k
    BY <2>1
  <2> HIDE DEF l
  <2>4. w[l] = ScopeNamed(b, w[k]).parent
    BY <1>4, <2>2, <2>3
  <2> QED
    BY <2>2, <2>4 DEF l
<1>12. \A k \in i..(j - 1) : w[k + 1] \in S
  BY <1>8, <1>9, <1>10
<1>13. S \in SUBSET T /\ S # {} /\ Closed(b, S)
  BY <1>10, <1>11, <1>12 DEF Closed
<1> HIDE DEF S
<1>14. S \in (SUBSET T) \ {{}}
  BY <1>13
<1> QED
  BY <1>13, <1>14 DEF T

\* From a name of a closed set the walk never ends.
LEMMA ClosedIsCyclic ==
  ASSUME NEW b, IsList(b.scopes), NEW S \in SUBSET ScopeNames(b), S # {}, Closed(b, S)
  PROVE  Cyclic(b)
<1> DEFINE n == Len(b.scopes)
<1>1. n \in Nat
  BY DEF IsList
<1>2. PICK s \in S : TRUE
  OBVIOUS
<1> DEFINE w == Walk(b, s)
           N == {k \in Nat : k \in 0..n /\ w[k] \notin S}
<1>3. /\ w[0] = s
      /\ \A k \in 1..n : w[k] = IF w[k - 1] \in ScopeNames(b)
                                THEN ScopeNamed(b, w[k - 1]).parent ELSE ""
  BY <1>1, WalkIs, ZenonT(60)
<1> HIDE DEF w
<1>4. N = {}
  <2>1. SUFFICES ASSUME N # {} PROVE FALSE
    OBVIOUS
  <2>2. PICK k \in N : \A l \in N : k <= l
    BY <2>1, LeastMember
  <2>3. k \in Nat /\ k \in 0..n /\ w[k] \notin S
    OBVIOUS
  <2>4. k # 0
    BY <1>2, <1>3, <2>3
  <2>5. k - 1 \in Nat /\ k - 1 \in 0..n /\ k \in 1..n /\ ~(k <= k - 1)
    BY <1>1, <2>3, <2>4
  <2>6. w[k - 1] \in S
    BY <2>2, <2>5
  <2>7. w[k] = ScopeNamed(b, w[k - 1]).parent
    BY <1>3, <2>5, <2>6
  <2> QED
    BY <2>3, <2>6, <2>7 DEF Closed
<1>5. \A k \in 0..n : w[k] \in S
  BY <1>1, <1>4
<1> QED
  BY <1>2, <1>5 DEF Cyclic, w

-----------------------------------------------------------------------------
(* Sorting *)

\* A strict total order on the indices 1..n, as a set of pairs.
TotalOrder(R, n) ==
  /\ \A i \in 1..n : <<i, i>> \notin R
  /\ \A i, j, k \in 1..n : <<i, j>> \in R /\ <<j, k>> \in R => <<i, k>> \in R
  /\ \A i, j \in 1..n : i # j => <<i, j>> \in R \/ <<j, i>> \in R

Below(R, n, i) == {j \in 1..n : <<j, i>> \in R}

\* How many indices are below an index is a one-to-one numbering from 0 to
\* n - 1 that agrees with the order.
LEMMA RankNumbers ==
  ASSUME NEW n \in Nat, NEW R, TotalOrder(R, n)
  PROVE  /\ \A i \in 1..n : Cardinality(Below(R, n, i)) \in 0..(n - 1)
         /\ \A i, j \in 1..n :
              <<i, j>> \in R => Cardinality(Below(R, n, i)) < Cardinality(Below(R, n, j))
         /\ \A k \in 0..(n - 1) : \E i \in 1..n : Cardinality(Below(R, n, i)) = k
<1> DEFINE D == 1..n
           E == 0..(n - 1)
           rank == [i \in D |-> Cardinality(Below(R, n, i))]
<1>0. 1 \in Int /\ n \in Int /\ 0 \in Int /\ n - 1 \in Int
  OBVIOUS
<1>1. IsFiniteSet(D) /\ Cardinality(D) = n
  <2>1. IsFiniteSet(1..n) /\ Cardinality(1..n) = IF 1 > n THEN 0 ELSE n - 1 + 1
    BY <1>0, FS_Interval
  <2> QED
    BY <2>1
<1>2. IsFiniteSet(E) /\ Cardinality(E) = n
  <2>1. IsFiniteSet(0..(n - 1)) /\ Cardinality(0..(n - 1)) = IF 0 > n - 1 THEN 0 ELSE n - 1 - 0 + 1
    BY <1>0, FS_Interval
  <2> QED
    BY <2>1
<1> HIDE DEF D, E
<1>3. \A i \in D : Below(R, n, i) \in SUBSET D /\ i \notin Below(R, n, i)
  BY DEF D, Below, TotalOrder
<1>4. \A i \in D : IsFiniteSet(Below(R, n, i)) /\ Cardinality(Below(R, n, i)) \in Nat
  BY <1>1, <1>3, FS_Subset, FS_CardinalityType
<1>5. \A i, j \in D : <<i, j>> \in R => Cardinality(Below(R, n, i)) < Cardinality(Below(R, n, j))
  <2> SUFFICES ASSUME NEW i \in D, NEW j \in D, <<i, j>> \in R
               PROVE  Cardinality(Below(R, n, i)) < Cardinality(Below(R, n, j))
    OBVIOUS
  <2> DEFINE I == Below(R, n, i)
             J == Below(R, n, j)
  <2>1. I \in SUBSET J /\ i \in J /\ i \notin I
    BY <1>3 DEF D, Below, TotalOrder
  <2>2. IsFiniteSet(J) /\ Cardinality(I) \in Nat /\ Cardinality(J) \in Nat
    BY <1>4
  <2> HIDE DEF I, J
  <2>3. Cardinality(I) <= Cardinality(J) /\ Cardinality(J) # Cardinality(I)
    BY <2>1, <2>2, FS_Subset
  <2>4. Cardinality(I) < Cardinality(J)
    BY <2>2, <2>3
  <2> QED
    BY <2>4 DEF I, J
<1>6. \A i \in D : Cardinality(Below(R, n, i)) \in E
  <2> TAKE i \in D
  <2> DEFINE I == Below(R, n, i)
  <2>1. I \in SUBSET D /\ I # D /\ Cardinality(I) \in Nat
    BY <1>3, <1>4
  <2> HIDE DEF I
  <2>2. Cardinality(I) <= n /\ Cardinality(I) # n
    BY <1>1, <2>1, FS_Subset
  <2>3. Cardinality(I) \in E
    BY <2>1, <2>2 DEF E
  <2> QED
    BY <2>3 DEF I
<1>7. rank \in [D -> E] /\ \A i \in D : rank[i] = Cardinality(Below(R, n, i))
  BY <1>6
<1> HIDE DEF rank
<1>8. \A i, j \in D : rank[i] = rank[j] => i = j
  <2> SUFFICES ASSUME NEW i \in D, NEW j \in D, rank[i] = rank[j], i # j PROVE FALSE
    OBVIOUS
  <2>1. <<i, j>> \in R \/ <<j, i>> \in R
    BY DEF TotalOrder, D
  <2>2. rank[i] \in Nat /\ rank[j] \in Nat /\ (rank[i] < rank[j] \/ rank[j] < rank[i])
    BY <1>4, <1>5, <1>7, <2>1
  <2> QED
    BY <2>2
<1>9. rank \in Injection(D, E)
  BY <1>7, <1>8, Fun_IsInj
<1>10. rank \in Surjection(D, E)
  BY <1>1, <1>2, <1>9, FS_Injection
<1>11. \A k \in E : \E i \in D : rank[i] = k
  BY <1>10, Fun_SurjectionProperties
<1> QED
  BY <1>5, <1>6, <1>7, <1>11 DEF D, E

\* The members of a list.
Elements(s) == {s[i] : i \in DOMAIN s}

\* A strict weak order on E, as a set of pairs.
WeakOrder(B, E) ==
  /\ \A x \in E : <<x, x>> \notin B
  /\ \A x, y, z \in E : <<x, y>> \in B /\ <<y, z>> \in B => <<x, z>> \in B
  /\ \A x, y, z \in E : <<x, z>> \in B => <<x, y>> \in B \/ <<y, z>> \in B

\* Sorted, for an order given as a set of pairs.
SortedBy(s, B) ==
  [k \in DOMAIN s |->
     s[CHOOSE i \in DOMAIN s :
         Cardinality({j \in DOMAIN s :
                        <<s[j], s[i]>> \in B \/ (<<s[i], s[j]>> \notin B /\ j < i)}) = k - 1]]

\* t is s, its elements moved by p.
Rearranged(t, s, p) ==
  /\ t = [k \in DOMAIN s |-> s[p[k]]]
  /\ p \in [DOMAIN s -> DOMAIN s]
  /\ \A k, l \in DOMAIN s : p[k] = p[l] => k = l
  /\ \A i \in DOMAIN s : \E k \in DOMAIN s : p[k] = i

\* Sorting rearranges, and nothing is left in front of what precedes it.
LEMMA SortRearranges ==
  ASSUME NEW s, IsList(s), NEW B, WeakOrder(B, Elements(s))
  PROVE  \E p : /\ Rearranged(SortedBy(s, B), s, p)
                /\ \A k, l \in DOMAIN s : k < l => <<s[p[l]], s[p[k]]>> \notin B
<1> DEFINE n == Len(s)
           D == 1..n
           R == {x \in D \X D : <<s[x[1]], s[x[2]]>> \in B
                               \/ (<<s[x[2]], s[x[1]]>> \notin B /\ x[1] < x[2])}
           At(i) == {j \in D : <<s[j], s[i]>> \in B \/ (<<s[i], s[j]>> \notin B /\ j < i)}
           p == [k \in D |-> CHOOSE i \in D : Cardinality(At(i)) = k - 1]
<1>1. n \in Nat /\ DOMAIN s = D
  BY DEF IsList
<1>2. \A i, j \in D : <<i, j>> \in R <=> (<<s[i], s[j]>> \in B \/ (<<s[j], s[i]>> \notin B /\ i < j))
  OBVIOUS
<1>3. SortedBy(s, B) = [k \in D |-> s[p[k]]]
  BY <1>1 DEF SortedBy
<1> HIDE DEF R
<1>4. TotalOrder(R, n)
  <2>1. ASSUME NEW i \in D PROVE <<i, i>> \notin R
    <3>1. ~(i < i)
      BY <1>1
    <3>2. <<s[i], s[i]>> \notin B
      BY <1>1 DEF WeakOrder, Elements
    <3> QED
      BY <1>2, <3>1, <3>2
  <2>2. ASSUME NEW i \in D, NEW j \in D, NEW k \in D, <<i, j>> \in R, <<j, k>> \in R
        PROVE  <<i, k>> \in R
    <3>1. /\ <<s[i], s[j]>> \in B \/ (<<s[j], s[i]>> \notin B /\ i < j)
          /\ <<s[j], s[k]>> \in B \/ (<<s[k], s[j]>> \notin B /\ j < k)
      BY <1>2, <2>2
    <3>2. (i < j /\ j < k) => i < k
      BY <1>1
    <3>3. s[i] \in Elements(s) /\ s[j] \in Elements(s) /\ s[k] \in Elements(s)
      BY <1>1 DEF Elements
    <3>4. <<s[i], s[k]>> \in B \/ (<<s[k], s[i]>> \notin B /\ i < k)
      BY <3>1, <3>2, <3>3, Zenon DEF WeakOrder
    <3> QED
      BY <1>2, <3>4
  <2>3. ASSUME NEW i \in D, NEW j \in D, i # j PROVE <<i, j>> \in R \/ <<j, i>> \in R
    <3>1. i < j \/ j < i
      BY <1>1, <2>3
    <3> QED
      BY <1>2, <3>1
  <2> QED
    BY <2>1, <2>2, <2>3 DEF TotalOrder
<1>5. \A i \in D : At(i) = Below(R, n, i)
  BY <1>2 DEF Below
<1> DEFINE rank(i) == Cardinality(Below(R, n, i))
<1>6. /\ \A i \in D : rank(i) \in 0..(n - 1)
      /\ \A i, j \in D : <<i, j>> \in R => rank(i) < rank(j)
      /\ \A k \in 0..(n - 1) : \E i \in D : rank(i) = k
  BY <1>1, <1>4, RankNumbers
<1>7. \A k \in D : p[k] = CHOOSE i \in D : rank(i) = k - 1
  BY <1>5
<1> HIDE DEF At, rank, p
<1>8. \A k \in D : p[k] \in D /\ rank(p[k]) = k - 1
  <2> TAKE k \in D
  <2>1. k - 1 \in 0..(n - 1)
    BY <1>1
  <2>2. \E i \in D : rank(i) = k - 1
    BY <1>6, <2>1
  <2> QED
    BY <1>7, <2>2
<1>9. p = [k \in D |-> p[k]]
  BY DEF p
<1>10. p \in [D -> D]
  BY <1>8, <1>9
<1>11. ASSUME NEW k \in D, NEW l \in D, p[k] = p[l] PROVE k = l
  <2>1. k - 1 = l - 1
    BY <1>8, <1>11
  <2> QED
    BY <1>1, <2>1
<1>12. ASSUME NEW i \in D PROVE \E k \in D : p[k] = i
  <2> DEFINE k == rank(i) + 1
  <2>1. k \in D /\ k - 1 = rank(i)
    BY <1>1, <1>6
  <2> HIDE DEF k
  <2>2. p[k] \in D /\ rank(p[k]) = rank(i)
    BY <1>8, <2>1
  <2>3. rank(i) \in Int /\ ~(rank(i) < rank(i))
    BY <1>1, <1>6
  <2>4. p[k] # i => FALSE
    BY <1>6, <1>4, <2>2, <2>3 DEF TotalOrder
  <2> QED
    BY <2>1, <2>4
<1>13. ASSUME NEW k \in D, NEW l \in D, k < l PROVE <<s[p[l]], s[p[k]]>> \notin B
  <2>1. SUFFICES ASSUME <<s[p[l]], s[p[k]]>> \in B PROVE FALSE
    OBVIOUS
  <2>2. <<p[l], p[k]>> \in R
    BY <1>2, <1>8, <2>1
  <2>3. l - 1 < k - 1
    BY <1>6, <1>8, <2>2
  <2> QED
    BY <1>1, <1>13, <2>3
<1>14. Rearranged(SortedBy(s, B), s, p)
  BY <1>1, <1>3, <1>10, <1>11, <1>12 DEF Rearranged
<1> QED
  BY <1>1, <1>13, <1>14

\* Every element of the list precedes the ones behind it.
Ascending(t, B) == \A k, l \in DOMAIN t : k < l => <<t[k], t[l]>> \in B

\* A function on 1..n; all lists of the model are.
IsFcnList(t) == IsList(t) /\ t = [k \in DOMAIN t |-> t[k]]

\* Two ascending lists agree as far as both go.
LEMMA AscendingAgree ==
  ASSUME NEW t, IsList(t), NEW u, IsList(u), Elements(t) = Elements(u),
         NEW B, WeakOrder(B, Elements(t)), Ascending(t, B), Ascending(u, B)
  PROVE  \A k \in DOMAIN t \cap DOMAIN u : t[k] = u[k]
<1> DEFINE N == {k \in Nat : k \in DOMAIN t \cap DOMAIN u /\ t[k] # u[k]}
<1>0. /\ \A k \in DOMAIN t \cap DOMAIN u : k \in Nat
      /\ \A k \in DOMAIN t, l \in Nat : l # 0 /\ l < k => l \in DOMAIN t
      /\ \A k \in DOMAIN u, l \in Nat : l # 0 /\ l < k => l \in DOMAIN u
      /\ \A k \in DOMAIN t : k \in Nat /\ k # 0
      /\ \A k \in DOMAIN u : k \in Nat /\ k # 0
  BY DEF IsList
<1>1. \A x, y \in Elements(t) : ~(<<x, y>> \in B /\ <<y, x>> \in B)
  BY DEF WeakOrder
<1>2. SUFFICES ASSUME N # {} PROVE FALSE
  BY <1>0
<1>3. PICK k \in N : \A l \in N : k <= l
  BY <1>2, LeastMember
<1>4. k \in Nat /\ k \in DOMAIN t /\ k \in DOMAIN u /\ t[k] # u[k]
  OBVIOUS
<1>5. \A l \in Nat : l # 0 /\ l < k => l \in DOMAIN t /\ l \in DOMAIN u /\ t[l] = u[l]
  <2> SUFFICES ASSUME NEW l \in Nat, l # 0, l < k
               PROVE  l \in DOMAIN t /\ l \in DOMAIN u /\ t[l] = u[l]
    OBVIOUS
  <2>1. l \in DOMAIN t /\ l \in DOMAIN u /\ ~(k <= l)
    BY <1>0, <1>4
  <2> QED
    BY <1>3, <2>1
<1> HIDE DEF N
<1>6. PICK l \in DOMAIN u : u[l] = t[k]
  BY <1>4 DEF Elements
<1>7. PICK m \in DOMAIN t : t[m] = u[k]
  BY <1>4 DEF Elements
<1>8. ~(l < k) /\ l # k /\ k < l
  <2>1. l # k
    BY <1>4, <1>6
  <2>2. ~(l < k)
    <3>1. SUFFICES ASSUME l < k PROVE FALSE
      OBVIOUS
    <3>2. t[l] = u[l] /\ l \in DOMAIN t
      BY <1>0, <1>5, <3>1
    <3>3. <<t[l], t[k]>> \in B /\ t[l] = t[k]
      BY <1>4, <1>6, <3>1, <3>2 DEF Ascending
    <3> QED
      BY <1>4, <3>2, <3>3 DEF WeakOrder, Elements
  <2> QED
    BY <1>0, <1>4, <2>1, <2>2
<1>9. ~(m < k) /\ m # k /\ k < m
  <2>1. m # k
    BY <1>4, <1>7
  <2>2. ~(m < k)
    <3>1. SUFFICES ASSUME m < k PROVE FALSE
      OBVIOUS
    <3>2. t[m] = u[m] /\ m \in DOMAIN u
      BY <1>0, <1>5, <3>1
    <3>3. <<u[m], u[k]>> \in B /\ u[m] = u[k]
      BY <1>4, <1>7, <3>1, <3>2 DEF Ascending
    <3> QED
      BY <1>4, <1>7, <3>2, <3>3 DEF WeakOrder, Elements
  <2> QED
    BY <1>0, <1>4, <2>1, <2>2
<1>10. <<u[k], t[k]>> \in B /\ <<t[k], u[k]>> \in B
  BY <1>4, <1>6, <1>7, <1>8, <1>9 DEF Ascending
<1>11. t[k] \in Elements(t) /\ u[k] \in Elements(t)
  BY <1>4 DEF Elements
<1> QED
  BY <1>1, <1>10, <1>11

\* and neither goes further than the other.
LEMMA AscendingNoLonger ==
  ASSUME NEW t, IsList(t), NEW u, IsList(u), Elements(t) = Elements(u),
         NEW B, WeakOrder(B, Elements(t)), Ascending(t, B), Ascending(u, B)
  PROVE  Len(u) <= Len(t)
<1>1. SUFFICES ASSUME ~(Len(u) <= Len(t)) PROVE FALSE
  OBVIOUS
<1> DEFINE k == Len(t) + 1
<1>2. k \in DOMAIN u /\ \A m \in DOMAIN t : m < k /\ m \in DOMAIN u
  BY <1>1 DEF IsList
<1> HIDE DEF k
<1>3. PICK m \in DOMAIN t : t[m] = u[k]
  BY <1>2 DEF Elements
<1>4. u[m] = u[k] /\ <<u[m], u[k]>> \in B
  <2>1. t[m] = u[m]
    BY <1>2, AscendingAgree
  <2> QED
    BY <1>2, <1>3, <2>1 DEF Ascending
<1> QED
  BY <1>2, <1>4 DEF WeakOrder, Elements

\* There is one way to put elements in ascending order.
LEMMA AscendingUnique ==
  ASSUME NEW t, IsFcnList(t), NEW u, IsFcnList(u), Elements(t) = Elements(u),
         NEW B, WeakOrder(B, Elements(t)), Ascending(t, B), Ascending(u, B)
  PROVE  t = u
<1>1. IsList(t) /\ IsList(u)
  BY DEF IsFcnList
<1>2. Len(u) <= Len(t)
  BY <1>1, AscendingNoLonger
<1>3. Len(t) <= Len(u)
  BY <1>1, AscendingNoLonger
<1>4. DOMAIN t = DOMAIN u
  <2>1. Len(t) = Len(u)
    <3>1. Len(t) \in Nat /\ Len(u) \in Nat
      BY <1>1 DEF IsList
    <3> QED
      BY <1>2, <1>3, <3>1
  <2> QED
    BY <1>1, <2>1 DEF IsList
<1>5. \A k \in DOMAIN t : t[k] = u[k]
  BY <1>1, <1>4, AscendingAgree
<1> QED
  BY <1>4, <1>5 DEF IsFcnList

\* What is rearranged has the same elements and the same length.
LEMMA RearrangedElements ==
  ASSUME NEW s, IsList(s), NEW t, NEW p, Rearranged(t, s, p)
  PROVE  /\ IsFcnList(t) /\ DOMAIN t = DOMAIN s /\ Len(t) = Len(s)
         /\ Elements(t) = Elements(s)
         /\ \A k \in DOMAIN s : p[k] \in DOMAIN s /\ t[k] = s[p[k]]
<1>1. DOMAIN t = DOMAIN s /\ t = [k \in DOMAIN t |-> t[k]]
  BY DEF Rearranged
<1>2. \A k \in DOMAIN s : p[k] \in DOMAIN s /\ t[k] = s[p[k]]
  BY DEF Rearranged
<1>3. Len(t) = Len(s) /\ IsList(t)
  <2> DEFINE n == Len(s)
  <2>1. n \in Nat /\ t = [k \in 1..n |-> t[k]]
    BY <1>1 DEF IsList
  <2> HIDE DEF n
  <2>2. Len(t) = n
    BY <2>1
  <2> QED
    BY <1>1, <2>2 DEF IsList, n
<1>4. Elements(t) = Elements(s)
  BY <1>1, <1>2 DEF Elements, Rearranged
<1> QED
  BY <1>1, <1>2, <1>3, <1>4 DEF IsFcnList

\* A sorted list whose elements the order tells apart is ascending.
LEMMA SortAscends ==
  ASSUME NEW s, IsList(s), NEW B, WeakOrder(B, Elements(s)), NEW t, t = SortedBy(s, B),
         \A k, l \in DOMAIN t : k # l => <<t[k], t[l]>> \in B \/ <<t[l], t[k]>> \in B
  PROVE  Ascending(t, B)
<1>1. PICK p : Rearranged(t, s, p) /\ \A k, l \in DOMAIN s : k < l => <<s[p[l]], s[p[k]]>> \notin B
  BY SortRearranges
<1>2. DOMAIN t = DOMAIN s /\ \A k \in DOMAIN s : t[k] = s[p[k]]
  BY <1>1, RearrangedElements
<1>3. \A k, l \in DOMAIN t : k < l => k # l /\ <<t[l], t[k]>> \notin B
  BY <1>1, <1>2 DEF IsList
<1> QED
  BY <1>3 DEF Ascending

\* Sorting an ascending list changes nothing.
LEMMA SortKeeps ==
  ASSUME NEW t, IsFcnList(t), NEW B, WeakOrder(B, Elements(t)), Ascending(t, B)
  PROVE  SortedBy(t, B) = t
<1> DEFINE u == SortedBy(t, B)
<1>1. IsList(t)
  BY DEF IsFcnList
<1>2. PICK p : Rearranged(u, t, p)
  BY <1>1, SortRearranges
<1> HIDE DEF u
<1>3. /\ IsFcnList(u) /\ Elements(u) = Elements(t) /\ DOMAIN u = DOMAIN t
      /\ \A k \in DOMAIN t : p[k] \in DOMAIN t /\ u[k] = t[p[k]]
  BY <1>1, <1>2, RearrangedElements
<1>4. \A i, j \in DOMAIN t : i # j => <<t[i], t[j]>> \in B \/ <<t[j], t[i]>> \in B
  <2> SUFFICES ASSUME NEW i \in DOMAIN t, NEW j \in DOMAIN t, i # j
               PROVE  <<t[i], t[j]>> \in B \/ <<t[j], t[i]>> \in B
    OBVIOUS
  <2>1. i < j \/ j < i
    BY <1>1 DEF IsList
  <2> QED
    BY <2>1 DEF Ascending
<1>5. \A k, l \in DOMAIN u : k # l => <<u[k], u[l]>> \in B \/ <<u[l], u[k]>> \in B
  BY <1>2, <1>3, <1>4 DEF Rearranged
<1>6. Ascending(u, B)
  BY <1>1, <1>5, SortAscends DEF u
<1>7. u = t
  BY <1>3, <1>6, AscendingUnique
<1> QED
  BY <1>7 DEF u

\* The position of a name in the byte order tells names apart.
LEMMA PositionIs ==
  /\ \A x \in DOMAIN Position : Position[x] \in Int
  /\ \A x, y \in DOMAIN Position : Position[x] = Position[y] => x = y
<1>1. DOMAIN Order \subseteq Int
  BY DocumentAssumption DEF IsList
<1>2. ASSUME NEW x \in DOMAIN Position
      PROVE  Position[x] \in DOMAIN Order /\ Order[Position[x]] = x
  BY <1>2 DEF Position
<1> HIDE DEF Position
<1> QED
  BY <1>1, <1>2

\* The orders of canonicalize on a set, as sets of pairs.
MemberOrder(E) == {x \in E \X E : MemberPrecedes(x[1], x[2])}
AttributeOrder(E) == {x \in E \X E : AttributePrecedes(x[1], x[2])}
ScopeOrder(E) == {x \in E \X E : ScopePrecedes(x[1], x[2])}
RequirementOrder(E) == {x \in E \X E : Precedes(x[1], x[2])}

\* Each of the four comparisons the code sorts with is a strict weak order,
\* and Sorted is SortedBy for it.

\* The order of members is a strict weak order, and Sorted sorts by it.
LEMMA MembersSort ==
  ASSUME NEW s, \A i \in DOMAIN s : s[i] \in DOMAIN Position
  PROVE  LET B == MemberOrder(Elements(s)) IN
         /\ \A x, y \in Elements(s) : <<x, y>> \in B <=> MemberPrecedes(x, y)
         /\ WeakOrder(B, Elements(s))
         /\ Sorted(s, MemberPrecedes) = SortedBy(s, B)
<1> DEFINE E == Elements(s)
           B == MemberOrder(E)
<1>1. \A x, y \in E : <<x, y>> \in B <=> MemberPrecedes(x, y)
  BY DEF MemberOrder
<1>2. \A i \in DOMAIN s : s[i] \in E
  BY DEF Elements
<1>3. \A x \in E : x \in DOMAIN Position
  BY DEF Elements
<1> HIDE DEF E, B
<1>4. \A x \in E : Position[x] \in Int
  BY <1>3, PositionIs
<1>5. \A x, y \in E : <<x, y>> \in B <=> Position[x] < Position[y]
  BY <1>1 DEF MemberPrecedes
<1>6. WeakOrder(B, E)
  <2>1. \A x \in E : <<x, x>> \notin B
    BY <1>4, <1>5
  <2>2. \A x, y, z \in E : <<x, y>> \in B /\ <<y, z>> \in B => <<x, z>> \in B
    BY <1>4, <1>5
  <2>3. \A x, y, z \in E : <<x, z>> \in B => <<x, y>> \in B \/ <<y, z>> \in B
    BY <1>4, <1>5
  <2> QED
    BY <2>1, <2>2, <2>3 DEF WeakOrder
<1>7. Sorted(s, MemberPrecedes) = SortedBy(s, B)
  <2>1. \A i, j \in DOMAIN s : MemberPrecedes(s[j], s[i]) <=> <<s[j], s[i]>> \in B
    BY <1>1, <1>2
  <2> DEFINE P(i) == {j \in DOMAIN s : MemberPrecedes(s[j], s[i])
                                       \/ (~MemberPrecedes(s[i], s[j]) /\ j < i)}
             Q(i) == {j \in DOMAIN s : <<s[j], s[i]>> \in B \/ (<<s[i], s[j]>> \notin B /\ j < i)}
  <2>2. \A i \in DOMAIN s : P(i) = Q(i)
    BY <2>1
  <2>3. /\ Sorted(s, MemberPrecedes)
             = [k \in DOMAIN s |-> s[CHOOSE i \in DOMAIN s : Cardinality(P(i)) = k - 1]]
        /\ SortedBy(s, B) = [k \in DOMAIN s |-> s[CHOOSE i \in DOMAIN s : Cardinality(Q(i)) = k - 1]]
    BY DEF Sorted, SortedBy
  <2> HIDE DEF P, Q
  <2>4. \A k \in DOMAIN s : (CHOOSE i \in DOMAIN s : Cardinality(P(i)) = k - 1)
                            = (CHOOSE i \in DOMAIN s : Cardinality(Q(i)) = k - 1)
    BY <2>2
  <2> QED
    BY <2>3, <2>4
<1> QED
  BY <1>1, <1>6, <1>7 DEF E, B

\* The same for attributes, ordered by their names;
LEMMA AttributesSort ==
  ASSUME NEW s, \A i \in DOMAIN s : s[i][1] \in DOMAIN Position
  PROVE  LET B == AttributeOrder(Elements(s)) IN
         /\ \A x, y \in Elements(s) : <<x, y>> \in B <=> AttributePrecedes(x, y)
         /\ WeakOrder(B, Elements(s))
         /\ Sorted(s, AttributePrecedes) = SortedBy(s, B)
<1> DEFINE E == Elements(s)
           B == AttributeOrder(E)
<1>1. \A x, y \in E : <<x, y>> \in B <=> AttributePrecedes(x, y)
  BY DEF AttributeOrder
<1>2. \A i \in DOMAIN s : s[i] \in E
  BY DEF Elements
<1>3. \A x \in E : x[1] \in DOMAIN Position
  BY DEF Elements
<1> HIDE DEF E, B
<1>4. \A x \in E : Position[x[1]] \in Int
  BY <1>3, PositionIs
<1>5. \A x, y \in E : <<x, y>> \in B <=> Position[x[1]] < Position[y[1]]
  BY <1>1 DEF AttributePrecedes
<1>6. WeakOrder(B, E)
  <2>1. \A x \in E : <<x, x>> \notin B
    BY <1>4, <1>5
  <2>2. \A x, y, z \in E : <<x, y>> \in B /\ <<y, z>> \in B => <<x, z>> \in B
    BY <1>4, <1>5
  <2>3. \A x, y, z \in E : <<x, z>> \in B => <<x, y>> \in B \/ <<y, z>> \in B
    BY <1>4, <1>5
  <2> QED
    BY <2>1, <2>2, <2>3 DEF WeakOrder
<1>7. Sorted(s, AttributePrecedes) = SortedBy(s, B)
  <2>1. \A i, j \in DOMAIN s : AttributePrecedes(s[j], s[i]) <=> <<s[j], s[i]>> \in B
    BY <1>1, <1>2
  <2> DEFINE P(i) == {j \in DOMAIN s : AttributePrecedes(s[j], s[i])
                                       \/ (~AttributePrecedes(s[i], s[j]) /\ j < i)}
             Q(i) == {j \in DOMAIN s : <<s[j], s[i]>> \in B \/ (<<s[i], s[j]>> \notin B /\ j < i)}
  <2>2. \A i \in DOMAIN s : P(i) = Q(i)
    BY <2>1
  <2>3. /\ Sorted(s, AttributePrecedes)
             = [k \in DOMAIN s |-> s[CHOOSE i \in DOMAIN s : Cardinality(P(i)) = k - 1]]
        /\ SortedBy(s, B) = [k \in DOMAIN s |-> s[CHOOSE i \in DOMAIN s : Cardinality(Q(i)) = k - 1]]
    BY DEF Sorted, SortedBy
  <2> HIDE DEF P, Q
  <2>4. \A k \in DOMAIN s : (CHOOSE i \in DOMAIN s : Cardinality(P(i)) = k - 1)
                            = (CHOOSE i \in DOMAIN s : Cardinality(Q(i)) = k - 1)
    BY <2>2
  <2> QED
    BY <2>3, <2>4
<1> QED
  BY <1>1, <1>6, <1>7 DEF E, B

\* for scopes, ordered by name and then by rank;
LEMMA ScopesSort ==
  ASSUME NEW s, \A i \in DOMAIN s : IsScope(s[i])
  PROVE  LET B == ScopeOrder(Elements(s)) IN
         /\ \A x, y \in Elements(s) : <<x, y>> \in B <=> ScopePrecedes(x, y)
         /\ WeakOrder(B, Elements(s))
         /\ Sorted(s, ScopePrecedes) = SortedBy(s, B)
<1> DEFINE E == Elements(s)
           B == ScopeOrder(E)
<1>1. \A x, y \in E : <<x, y>> \in B <=> ScopePrecedes(x, y)
  BY DEF ScopeOrder
<1>2. \A i \in DOMAIN s : s[i] \in E
  BY DEF Elements
<1>3. \A x \in E : IsScope(x)
  BY DEF Elements
<1> HIDE DEF E, B
<1>4. /\ \A x \in E : Position[x.name] \in Int /\ x.rank \in Int
      /\ \A x, y \in E : x.name = y.name <=> Position[x.name] = Position[y.name]
  BY <1>3, PositionIs DEF IsScope
<1>5. \A x, y \in E : <<x, y>> \in B <=>
        \/ Position[x.name] < Position[y.name]
        \/ Position[x.name] = Position[y.name] /\ x.rank < y.rank
  BY <1>1, <1>4 DEF ScopePrecedes
<1>6. WeakOrder(B, E)
  <2>1. \A x \in E : <<x, x>> \notin B
    BY <1>4, <1>5
  <2>2. \A x, y, z \in E : <<x, y>> \in B /\ <<y, z>> \in B => <<x, z>> \in B
    BY <1>4, <1>5
  <2>3. \A x, y, z \in E : <<x, z>> \in B => <<x, y>> \in B \/ <<y, z>> \in B
    BY <1>4, <1>5
  <2> QED
    BY <2>1, <2>2, <2>3 DEF WeakOrder
<1>7. Sorted(s, ScopePrecedes) = SortedBy(s, B)
  <2>1. \A i, j \in DOMAIN s : ScopePrecedes(s[j], s[i]) <=> <<s[j], s[i]>> \in B
    BY <1>1, <1>2
  <2> DEFINE P(i) == {j \in DOMAIN s : ScopePrecedes(s[j], s[i])
                                       \/ (~ScopePrecedes(s[i], s[j]) /\ j < i)}
             Q(i) == {j \in DOMAIN s : <<s[j], s[i]>> \in B \/ (<<s[i], s[j]>> \notin B /\ j < i)}
  <2>2. \A i \in DOMAIN s : P(i) = Q(i)
    BY <2>1
  <2>3. /\ Sorted(s, ScopePrecedes)
             = [k \in DOMAIN s |-> s[CHOOSE i \in DOMAIN s : Cardinality(P(i)) = k - 1]]
        /\ SortedBy(s, B) = [k \in DOMAIN s |-> s[CHOOSE i \in DOMAIN s : Cardinality(Q(i)) = k - 1]]
    BY DEF Sorted, SortedBy
  <2> HIDE DEF P, Q
  <2>4. \A k \in DOMAIN s : (CHOOSE i \in DOMAIN s : Cardinality(P(i)) = k - 1)
                            = (CHOOSE i \in DOMAIN s : Cardinality(Q(i)) = k - 1)
    BY <2>2
  <2> QED
    BY <2>3, <2>4
<1> QED
  BY <1>1, <1>6, <1>7 DEF E, B

\* requirement_precedes compares scope, kind and key in turn.
LEMMA LexicographicKeys ==
  ASSUME NEW r, NEW s
  PROVE  Precedes(r, s) <=>
           \/ Position[r.scope] < Position[s.scope]
           \/ Position[r.scope] = Position[s.scope] /\ Position[r.kind] < Position[s.kind]
           \/ /\ Position[r.scope] = Position[s.scope] /\ Position[r.kind] = Position[s.kind]
              /\ Position[r.key] < Position[s.key]
<1> DEFINE p == <<Position[r.scope], Position[r.kind], Position[r.key]>>
           q == <<Position[s.scope], Position[s.kind], Position[s.key]>>
<1>1. Precedes(r, s) <=> \E i \in 1..3 : p[i] < q[i] /\ \A j \in 1..(i - 1) : p[j] = q[j]
  BY DEF Precedes
<1>2. /\ p[1] = Position[r.scope] /\ p[2] = Position[r.kind] /\ p[3] = Position[r.key]
      /\ q[1] = Position[s.scope] /\ q[2] = Position[s.kind] /\ q[3] = Position[s.key]
  OBVIOUS
<1> HIDE DEF p, q
<1>3. \A i \in 1..3 : i = 1 \/ i = 2 \/ i = 3
  OBVIOUS
<1>4. /\ \A j \in 1..(1 - 1) : FALSE
      /\ \A j \in 1..(2 - 1) : j = 1
      /\ \A j \in 1..(3 - 1) : j = 1 \/ j = 2
      /\ 1 \in 1..(2 - 1) /\ 1 \in 1..(3 - 1) /\ 2 \in 1..(3 - 1)
      /\ 1 \in 1..3 /\ 2 \in 1..3 /\ 3 \in 1..3
  OBVIOUS
<1> DEFINE First(i) == p[i] < q[i] /\ \A j \in 1..(i - 1) : p[j] = q[j]
<1>5. /\ First(1) <=> p[1] < q[1]
      /\ First(2) <=> p[1] = q[1] /\ p[2] < q[2]
      /\ First(3) <=> p[1] = q[1] /\ p[2] = q[2] /\ p[3] < q[3]
  BY <1>4
<1>6. Precedes(r, s) <=> First(1) \/ First(2) \/ First(3)
  BY <1>1, <1>3, <1>4
<1> QED
  BY <1>2, <1>5, <1>6

\* and for requirements.
LEMMA RequirementsSort ==
  ASSUME NEW s, \A i \in DOMAIN s : IsRequirement(s[i])
  PROVE  LET B == RequirementOrder(Elements(s)) IN
         /\ \A x, y \in Elements(s) : <<x, y>> \in B <=> Precedes(x, y)
         /\ WeakOrder(B, Elements(s))
         /\ Sorted(s, Precedes) = SortedBy(s, B)
<1> DEFINE E == Elements(s)
           B == RequirementOrder(E)
<1>1. \A x, y \in E : <<x, y>> \in B <=> Precedes(x, y)
  BY DEF RequirementOrder
<1>2. \A i \in DOMAIN s : s[i] \in E
  BY DEF Elements
<1>3. \A x \in E : IsRequirement(x)
  BY DEF Elements
<1> HIDE DEF E, B
<1> DEFINE a == [x \in E |-> Position[x.scope]]
           b == [x \in E |-> Position[x.kind]]
           c == [x \in E |-> Position[x.key]]
<1>4. /\ \A x \in E : a[x] = Position[x.scope] /\ b[x] = Position[x.kind] /\ c[x] = Position[x.key]
      /\ \A x \in E : a[x] \in Int /\ b[x] \in Int /\ c[x] \in Int
  BY <1>3, PositionIs DEF IsRequirement
<1> HIDE DEF a, b, c
<1>5. \A x, y \in E : <<x, y>> \in B <=>
        \/ a[x] < a[y]
        \/ a[x] = a[y] /\ b[x] < b[y]
        \/ a[x] = a[y] /\ b[x] = b[y] /\ c[x] < c[y]
  <2> SUFFICES ASSUME NEW x \in E, NEW y \in E
               PROVE  Precedes(x, y) <=> \/ a[x] < a[y]
                                         \/ a[x] = a[y] /\ b[x] < b[y]
                                         \/ a[x] = a[y] /\ b[x] = b[y] /\ c[x] < c[y]
    BY <1>1
  <2> QED
    BY <1>4, LexicographicKeys
<1>6. WeakOrder(B, E)
  <2>1. \A x \in E : <<x, x>> \notin B
    BY <1>4, <1>5
  <2>2. \A x, y, z \in E : <<x, y>> \in B /\ <<y, z>> \in B => <<x, z>> \in B
    BY <1>4, <1>5
  <2>3. \A x, y, z \in E : <<x, z>> \in B => <<x, y>> \in B \/ <<y, z>> \in B
    BY <1>4, <1>5
  <2> QED
    BY <2>1, <2>2, <2>3 DEF WeakOrder
<1>7. Sorted(s, Precedes) = SortedBy(s, B)
  <2>1. \A i, j \in DOMAIN s : Precedes(s[j], s[i]) <=> <<s[j], s[i]>> \in B
    BY <1>1, <1>2
  <2> DEFINE P(i) == {j \in DOMAIN s : Precedes(s[j], s[i])
                                       \/ (~Precedes(s[i], s[j]) /\ j < i)}
             Q(i) == {j \in DOMAIN s : <<s[j], s[i]>> \in B \/ (<<s[i], s[j]>> \notin B /\ j < i)}
  <2>2. \A i \in DOMAIN s : P(i) = Q(i)
    BY <2>1
  <2>3. /\ Sorted(s, Precedes)
             = [k \in DOMAIN s |-> s[CHOOSE i \in DOMAIN s : Cardinality(P(i)) = k - 1]]
        /\ SortedBy(s, B) = [k \in DOMAIN s |-> s[CHOOSE i \in DOMAIN s : Cardinality(Q(i)) = k - 1]]
    BY DEF Sorted, SortedBy
  <2> HIDE DEF P, Q
  <2>4. \A k \in DOMAIN s : (CHOOSE i \in DOMAIN s : Cardinality(P(i)) = k - 1)
                            = (CHOOSE i \in DOMAIN s : Cardinality(Q(i)) = k - 1)
    BY <2>2
  <2> QED
    BY <2>3, <2>4
<1> QED
  BY <1>1, <1>6, <1>7 DEF E, B

\* Sorted members: the same members, ascending when none is there twice.
LEMMA SortedMembers ==
  ASSUME NEW s, IsList(s), \A i \in DOMAIN s : s[i] \in DOMAIN Position
  PROVE  LET t == Sorted(s, MemberPrecedes) IN
         /\ \E p : Rearranged(t, s, p)
         /\ NoneTwice(t) => Ascending(t, MemberOrder(Elements(t)))
<1> DEFINE E == Elements(s)
           B == MemberOrder(E)
           t == Sorted(s, MemberPrecedes)
<1>1. /\ \A x, y \in E : <<x, y>> \in B <=> MemberPrecedes(x, y)
      /\ WeakOrder(B, E)
      /\ t = SortedBy(s, B)
  BY MembersSort
<1>2. \A x \in E : x \in DOMAIN Position
  BY DEF Elements
<1> HIDE DEF E, B, t
<1>3. PICK p : Rearranged(t, s, p)
  BY <1>1, SortRearranges DEF E
<1>4. Elements(t) = E
  BY <1>3, RearrangedElements DEF E
<1>5. \A k \in DOMAIN t : t[k] \in E
  BY <1>4 DEF Elements
<1>6. ASSUME NoneTwice(t) PROVE Ascending(t, B)
  <2>1. ASSUME NEW k \in DOMAIN t, NEW l \in DOMAIN t, k # l
        PROVE  <<t[k], t[l]>> \in B \/ <<t[l], t[k]>> \in B
    <3>1. t[k] # t[l]
      BY <1>6, <2>1 DEF NoneTwice
    <3>2. Position[t[k]] # Position[t[l]] /\ Position[t[k]] \in Int /\ Position[t[l]] \in Int
      BY <1>2, <1>5, <3>1, PositionIs
    <3>3. MemberPrecedes(t[k], t[l]) \/ MemberPrecedes(t[l], t[k])
      BY <3>2 DEF MemberPrecedes
    <3> QED
      BY <1>1, <1>5, <3>3
  <2> QED
    BY <1>1, <2>1, SortAscends DEF E
<1> QED
  BY <1>3, <1>4, <1>6 DEF t, B

\* The same for attributes,
LEMMA SortedAttributes ==
  ASSUME NEW s, IsList(s), \A i \in DOMAIN s : s[i][1] \in DOMAIN Position
  PROVE  LET t == Sorted(s, AttributePrecedes) IN
         /\ \E p : Rearranged(t, s, p)
         /\ NoneTwice([k \in DOMAIN t |-> t[k][1]]) => Ascending(t, AttributeOrder(Elements(t)))
<1> DEFINE E == Elements(s)
           B == AttributeOrder(E)
           t == Sorted(s, AttributePrecedes)
<1>1. /\ \A x, y \in E : <<x, y>> \in B <=> AttributePrecedes(x, y)
      /\ WeakOrder(B, E)
      /\ t = SortedBy(s, B)
  BY AttributesSort
<1>2. \A x \in E : x[1] \in DOMAIN Position
  BY DEF Elements
<1> HIDE DEF E, B, t
<1>3. PICK p : Rearranged(t, s, p)
  BY <1>1, SortRearranges DEF E
<1>4. Elements(t) = E
  BY <1>3, RearrangedElements DEF E
<1>5. \A k \in DOMAIN t : t[k] \in E
  BY <1>4 DEF Elements
<1>6. ASSUME NoneTwice([k \in DOMAIN t |-> t[k][1]]) PROVE Ascending(t, B)
  <2>1. ASSUME NEW k \in DOMAIN t, NEW l \in DOMAIN t, k # l
        PROVE  <<t[k], t[l]>> \in B \/ <<t[l], t[k]>> \in B
    <3>1. t[k][1] # t[l][1]
      BY <1>6, <2>1 DEF NoneTwice
    <3>2. Position[t[k][1]] # Position[t[l][1]] /\ Position[t[k][1]] \in Int
          /\ Position[t[l][1]] \in Int
      BY <1>2, <1>5, <3>1, PositionIs
    <3>3. AttributePrecedes(t[k], t[l]) \/ AttributePrecedes(t[l], t[k])
      BY <3>2 DEF AttributePrecedes
    <3> QED
      BY <1>1, <1>5, <3>3
  <2> QED
    BY <1>1, <2>1, SortAscends DEF E
<1> QED
  BY <1>3, <1>4, <1>6 DEF t, B

\* for scopes,
LEMMA SortedScopes ==
  ASSUME NEW s, IsList(s), \A i \in DOMAIN s : IsScope(s[i])
  PROVE  LET t == Sorted(s, ScopePrecedes) IN
         /\ \E p : Rearranged(t, s, p)
         /\ (\A i, j \in DOMAIN t : t[i].name = t[j].name => i = j) =>
              Ascending(t, ScopeOrder(Elements(t)))
<1> DEFINE E == Elements(s)
           B == ScopeOrder(E)
           t == Sorted(s, ScopePrecedes)
<1>1. /\ \A x, y \in E : <<x, y>> \in B <=> ScopePrecedes(x, y)
      /\ WeakOrder(B, E)
      /\ t = SortedBy(s, B)
  BY ScopesSort
<1>2. \A x \in E : x.name \in DOMAIN Position
  BY DEF Elements, IsScope
<1> HIDE DEF E, B, t
<1>3. PICK p : Rearranged(t, s, p)
  BY <1>1, SortRearranges DEF E
<1>4. Elements(t) = E
  BY <1>3, RearrangedElements DEF E
<1>5. \A k \in DOMAIN t : t[k] \in E
  BY <1>4 DEF Elements
<1>6. ASSUME \A i, j \in DOMAIN t : t[i].name = t[j].name => i = j PROVE Ascending(t, B)
  <2>1. ASSUME NEW k \in DOMAIN t, NEW l \in DOMAIN t, k # l
        PROVE  <<t[k], t[l]>> \in B \/ <<t[l], t[k]>> \in B
    <3>1. t[k].name # t[l].name
      BY <1>6, <2>1
    <3>2. Position[t[k].name] # Position[t[l].name] /\ Position[t[k].name] \in Int
          /\ Position[t[l].name] \in Int
      BY <1>2, <1>5, <3>1, PositionIs
    <3>3. ScopePrecedes(t[k], t[l]) \/ ScopePrecedes(t[l], t[k])
      BY <3>2 DEF ScopePrecedes
    <3> QED
      BY <1>1, <1>5, <3>3
  <2> QED
    BY <1>1, <2>1, SortAscends DEF E
<1> QED
  BY <1>3, <1>4, <1>6 DEF t, B

\* and for requirements.
LEMMA SortedRequirements ==
  ASSUME NEW s, IsList(s), \A i \in DOMAIN s : IsRequirement(s[i])
  PROVE  LET t == Sorted(s, Precedes) IN
         /\ \E p : Rearranged(t, s, p)
         /\ NoneTwice([i \in DOMAIN t |-> CompositeKey(t[i])]) =>
              Ascending(t, RequirementOrder(Elements(t)))
<1> DEFINE E == Elements(s)
           B == RequirementOrder(E)
           t == Sorted(s, Precedes)
<1>1. /\ \A x, y \in E : <<x, y>> \in B <=> Precedes(x, y)
      /\ WeakOrder(B, E)
      /\ t = SortedBy(s, B)
  BY RequirementsSort
<1>2. \A x \in E : x.scope \in DOMAIN Position /\ x.kind \in DOMAIN Position /\ x.key \in DOMAIN Position
  BY DEF Elements, IsRequirement
<1> HIDE DEF E, B, t
<1>3. PICK p : Rearranged(t, s, p)
  BY <1>1, SortRearranges DEF E
<1>4. Elements(t) = E
  BY <1>3, RearrangedElements DEF E
<1>5. \A k \in DOMAIN t : t[k] \in E
  BY <1>4 DEF Elements
<1>6. ASSUME NoneTwice([i \in DOMAIN t |-> CompositeKey(t[i])]) PROVE Ascending(t, B)
  <2>1. ASSUME NEW k \in DOMAIN t, NEW l \in DOMAIN t, k # l
        PROVE  <<t[k], t[l]>> \in B \/ <<t[l], t[k]>> \in B
    <3> DEFINE x == t[k]
               y == t[l]
    <3>1. CompositeKey(x) # CompositeKey(y)
      BY <1>6, <2>1 DEF NoneTwice
    <3>2. x \in E /\ y \in E
      BY <1>5
    <3> HIDE DEF x, y
    <3>3. x.scope # y.scope \/ x.kind # y.kind \/ x.key # y.key
      BY <3>1 DEF CompositeKey
    <3>4. /\ Position[x.scope] # Position[y.scope] \/ Position[x.kind] # Position[y.kind]
               \/ Position[x.key] # Position[y.key]
          /\ Position[x.scope] \in Int /\ Position[y.scope] \in Int
          /\ Position[x.kind] \in Int /\ Position[y.kind] \in Int
          /\ Position[x.key] \in Int /\ Position[y.key] \in Int
      BY <1>2, <3>2, <3>3, PositionIs
    <3>5. Precedes(x, y) \/ Precedes(y, x)
      BY <3>4, LexicographicKeys
    <3>6. <<x, y>> \in B \/ <<y, x>> \in B
      BY <1>1, <3>2, <3>5
    <3> QED
      BY <3>6 DEF x, y
  <2> QED
    BY <1>1, <2>1, SortAscends DEF E
<1> QED
  BY <1>3, <1>4, <1>6 DEF t, B

-----------------------------------------------------------------------------
(* Canonical form *)

\* Sorting what is in ascending order changes nothing.
LEMMA MembersKept ==
  ASSUME NEW t, IsFcnList(t), \A i \in DOMAIN t : t[i] \in DOMAIN Position,
         Ascending(t, MemberOrder(Elements(t)))
  PROVE  Sorted(t, MemberPrecedes) = t
BY MembersSort, SortKeeps

\* The same for attributes,
LEMMA AttributesKept ==
  ASSUME NEW t, IsFcnList(t), \A i \in DOMAIN t : t[i][1] \in DOMAIN Position,
         Ascending(t, AttributeOrder(Elements(t)))
  PROVE  Sorted(t, AttributePrecedes) = t
BY AttributesSort, SortKeeps

\* for scopes,
LEMMA ScopesKept ==
  ASSUME NEW t, IsFcnList(t), \A i \in DOMAIN t : IsScope(t[i]),
         Ascending(t, ScopeOrder(Elements(t)))
  PROVE  Sorted(t, ScopePrecedes) = t
BY ScopesSort, SortKeeps

\* and for requirements.
LEMMA RequirementsKept ==
  ASSUME NEW t, IsFcnList(t), \A i \in DOMAIN t : IsRequirement(t[i]),
         Ascending(t, RequirementOrder(Elements(t)))
  PROVE  Sorted(t, Precedes) = t
BY RequirementsSort, SortKeeps

\* A requirement that canonicalize has been through: lists sorted, identity
\* derived; `ascending' once nothing in the lists is named twice.
CanonicalLists(r) ==
  /\ r = [x \in DOMAIN r |-> r[x]]
  /\ IsFcnList(r.members) /\ IsFcnList(r.attributes)
  /\ NoneTwice(r.members) => Ascending(r.members, MemberOrder(Elements(r.members)))
  /\ NoneTwice([k \in DOMAIN r.attributes |-> r.attributes[k][1]]) =>
       Ascending(r.attributes, AttributeOrder(Elements(r.attributes)))

\* Fields of a requirement that canonicalize leaves alone.
OtherFields == {"scope", "kind", "key", "strength", "numeric", "target", "minimum", "value",
                "preferred"}

\* What canonicalize does to one requirement.
LEMMA CanonicalRequirementIs ==
  ASSUME NEW r, IsRequirement(r)
  PROVE  LET c == CanonicalRequirement(r) IN
         /\ DOMAIN c = DOMAIN r
         /\ c.members = Sorted(r.members, MemberPrecedes)
         /\ c.attributes = Sorted(r.attributes, AttributePrecedes)
         /\ c.id = RequirementIdOf(c)
         /\ \A x \in DOMAIN r \ {"id", "members", "attributes"} : c[x] = r[x]
         /\ c = [x \in DOMAIN c |-> c[x]]
<1> DEFINE m == Sorted(r.members, MemberPrecedes)
           a == Sorted(r.attributes, AttributePrecedes)
           s == [r EXCEPT !.members = m, !.attributes = a]
           i == RequirementIdOf(s)
           c == [s EXCEPT !.id = i]
<1>1. CanonicalRequirement(r) = c
  BY DEF CanonicalRequirement
<1>2. "id" \in DOMAIN r /\ "members" \in DOMAIN r /\ "attributes" \in DOMAIN r
  BY DEF IsRequirement
<1> HIDE DEF m, a, i
<1>3. /\ DOMAIN s = DOMAIN r
      /\ s["members"] = m /\ s["attributes"] = a
      /\ \A x \in DOMAIN r \ {"members", "attributes"} : s[x] = r[x]
  BY <1>2
<1> HIDE DEF s
<1>4. /\ DOMAIN c = DOMAIN s /\ c = [x \in DOMAIN c |-> c[x]]
      /\ c["id"] = i /\ \A x \in DOMAIN s \ {"id"} : c[x] = s[x]
  BY <1>2, <1>3
<1>5. [c EXCEPT !.id = Zero] = [s EXCEPT !.id = Zero]
  <2>1. DOMAIN [c EXCEPT !.id = Zero] = DOMAIN [s EXCEPT !.id = Zero]
    BY <1>4
  <2> QED
    BY <1>2, <1>3, <1>4
<1> HIDE DEF c
<1>6. i = RequirementIdOf(c)
  BY <1>5 DEF RequirementIdOf, i
<1>7. c.id = RequirementIdOf(c) /\ c.members = m /\ c.attributes = a
  BY <1>2, <1>3, <1>4, <1>6
<1>8. \A x \in DOMAIN r \ {"id", "members", "attributes"} : c[x] = r[x]
  BY <1>3, <1>4
<1>9. DOMAIN c = DOMAIN r
  BY <1>3, <1>4
<1> QED
  BY <1>1, <1>4, <1>7, <1>8, <1>9 DEF m, a

\* It stays a requirement, its lists rearranged and its other fields kept.
LEMMA CanonicalRequirementTyped ==
  ASSUME NEW r, IsRequirement(r)
  PROVE  LET c == CanonicalRequirement(r) IN
         /\ IsRequirement(c) /\ CanonicalLists(c)
         /\ \E p : Rearranged(c.members, r.members, p)
         /\ \E p : Rearranged(c.attributes, r.attributes, p)
         /\ \A x \in OtherFields : c[x] = r[x]
<1> DEFINE c == CanonicalRequirement(r)
           m == c.members
           a == c.attributes
<1>1. /\ DOMAIN c = DOMAIN r
      /\ m = Sorted(r.members, MemberPrecedes)
      /\ a = Sorted(r.attributes, AttributePrecedes)
      /\ \A x \in DOMAIN r \ {"id", "members", "attributes"} : c[x] = r[x]
      /\ c = [x \in DOMAIN c |-> c[x]]
  BY CanonicalRequirementIs
<1> HIDE DEF c
<1>2. /\ IsList(r.members) /\ \A k \in DOMAIN r.members : r.members[k] \in DOMAIN Position
      /\ IsList(r.attributes) /\ \A k \in DOMAIN r.attributes : r.attributes[k][1] \in DOMAIN Position
      /\ OtherFields \subseteq DOMAIN r
      /\ {"id", "members", "attributes"} \cup OtherFields \subseteq DOMAIN r
      /\ {r.scope, r.kind, r.key} \subseteq DOMAIN Position
  BY DEF IsRequirement, OtherFields
<1>3. (\E p : Rearranged(m, r.members, p))
      /\ (NoneTwice(m) => Ascending(m, MemberOrder(Elements(m))))
  BY <1>1, <1>2, SortedMembers
<1>4. (\E p : Rearranged(a, r.attributes, p))
      /\ (NoneTwice([k \in DOMAIN a |-> a[k][1]]) => Ascending(a, AttributeOrder(Elements(a))))
  BY <1>1, <1>2, SortedAttributes
<1>5. \A x \in OtherFields : c[x] = r[x]
  BY <1>1, <1>2 DEF OtherFields
<1> HIDE DEF m, a
<1>6. /\ IsFcnList(m) /\ DOMAIN m = DOMAIN r.members
      /\ \A k \in DOMAIN m : m[k] \in DOMAIN Position
  BY <1>2, <1>3, RearrangedElements
<1>7. /\ IsFcnList(a) /\ DOMAIN a = DOMAIN r.attributes
      /\ \A k \in DOMAIN a : a[k][1] \in DOMAIN Position
  BY <1>2, <1>4, RearrangedElements
<1>8. c.scope = r.scope /\ c.kind = r.kind /\ c.key = r.key
  BY <1>5 DEF OtherFields
<1>9. IsRequirement(c)
  <2>1. {"id", "members", "attributes"} \cup OtherFields \subseteq DOMAIN c
    BY <1>1, <1>2
  <2> QED
    BY <1>2, <1>6, <1>7, <1>8, <2>1 DEF IsRequirement, IsFcnList, OtherFields, m, a
<1>10. CanonicalLists(c)
  BY <1>1, <1>3, <1>4, <1>6, <1>7 DEF CanonicalLists, m, a
<1> QED
  BY <1>3, <1>4, <1>5, <1>9, <1>10 DEF c, m, a

\* Fields of a body that canonicalize leaves alone.
PlainFields == {"schema", "workload", "workloadName", "workloadGeneration", "generation",
                "policyGeneration", "major"}

\* The requirements of a body before they are sorted.
CanonicalRequirements(b) ==
  [i \in DOMAIN b.requirements |-> CanonicalRequirement(b.requirements[i])]

\* What seal makes of a body.
SealedBody(a) ==
  LET b == CanonicalBody(a) IN [b EXCEPT !.contractId = ContractIdOf(b, BodyDigest(b))]

\* Masking twice is masking once.
LEMMA MaskedAgain ==
  ASSUME NEW b, NEW v, "contractId" \in DOMAIN b
  PROVE  /\ [[b EXCEPT !.contractId = v] EXCEPT !.contractId = Zero] = [b EXCEPT !.contractId = Zero]
         /\ BodyDigest([b EXCEPT !.contractId = v]) = BodyDigest(b)
<1> DEFINE c == [b EXCEPT !.contractId = v]
<1>1. DOMAIN c = DOMAIN b /\ \A x \in DOMAIN b \ {"contractId"} : c[x] = b[x]
  OBVIOUS
<1> HIDE DEF c
<1>2. [c EXCEPT !.contractId = Zero] = [b EXCEPT !.contractId = Zero]
  BY <1>1
<1> QED
  BY <1>2 DEF c, BodyDigest

\* What canonicalize does to a body.
LEMMA SealedBodyIs ==
  ASSUME NEW a, IsBody(a)
  PROVE  LET s == SealedBody(a) IN
         /\ DOMAIN s = DOMAIN a /\ s = [x \in DOMAIN s |-> s[x]]
         /\ s.scopes = Sorted(a.scopes, ScopePrecedes)
         /\ s.requirements = Sorted(CanonicalRequirements(a), Precedes)
         /\ \A x \in DOMAIN a \ {"scopes", "requirements", "contractId"} : s[x] = a[x]
         /\ s.contractId = ContractIdOf(s, BodyDigest(s))
<1> DEFINE S == Sorted(a.scopes, ScopePrecedes)
           R == Sorted(CanonicalRequirements(a), Precedes)
           b == [a EXCEPT !.scopes = S, !.requirements = R]
           i == ContractIdOf(b, BodyDigest(b))
           s == [b EXCEPT !.contractId = i]
<1>1. SealedBody(a) = s
  BY DEF SealedBody, CanonicalBody, CanonicalRequirements
<1>2. "scopes" \in DOMAIN a /\ "requirements" \in DOMAIN a /\ "contractId" \in DOMAIN a
      /\ "workload" \in DOMAIN a
  BY DEF IsBody
<1> HIDE DEF S, R, i
<1>3. /\ DOMAIN b = DOMAIN a /\ b["scopes"] = S /\ b["requirements"] = R
      /\ \A x \in DOMAIN a \ {"scopes", "requirements"} : b[x] = a[x]
  BY <1>2
<1> HIDE DEF b
<1>4. /\ DOMAIN s = DOMAIN b /\ s = [x \in DOMAIN s |-> s[x]]
      /\ s["contractId"] = i /\ \A x \in DOMAIN b \ {"contractId"} : s[x] = b[x]
  BY <1>2, <1>3
<1>5. BodyDigest(s) = BodyDigest(b)
  BY <1>2, <1>3, MaskedAgain
<1> HIDE DEF s
<1>6. s.workload = b.workload
  BY <1>2, <1>3, <1>4
<1>7. s.contractId = ContractIdOf(s, BodyDigest(s))
  BY <1>4, <1>5, <1>6 DEF i, ContractIdOf
<1>8. s.scopes = S /\ s.requirements = R
  BY <1>2, <1>3, <1>4
<1>9. DOMAIN s = DOMAIN a /\ \A x \in DOMAIN a \ {"scopes", "requirements", "contractId"} : s[x] = a[x]
  BY <1>3, <1>4
<1> QED
  BY <1>1, <1>4, <1>7, <1>8, <1>9 DEF S, R

\* A body as seal leaves it: its lists sorted, its identities derived.
CanonicalForm(s) ==
  /\ IsBody(s) /\ s = [x \in DOMAIN s |-> s[x]]
  /\ IsFcnList(s.scopes) /\ IsFcnList(s.requirements)
  /\ (\A i, j \in DOMAIN s.scopes : s.scopes[i].name = s.scopes[j].name => i = j) =>
       Ascending(s.scopes, ScopeOrder(Elements(s.scopes)))
  /\ NoneTwice([i \in DOMAIN s.requirements |-> CompositeKey(s.requirements[i])]) =>
       Ascending(s.requirements, RequirementOrder(Elements(s.requirements)))
  /\ \A i \in DOMAIN s.requirements : /\ CanonicalLists(s.requirements[i])
                                      /\ s.requirements[i].id = RequirementIdOf(s.requirements[i])
  /\ s.contractId = ContractIdOf(s, BodyDigest(s))

\* Canonicalized requirements, in their first order.
LEMMA CanonicalRequirementsAre ==
  ASSUME NEW a, IsBody(a)
  PROVE  LET rs == CanonicalRequirements(a) IN
         /\ IsList(rs) /\ DOMAIN rs = DOMAIN a.requirements /\ Len(rs) = Len(a.requirements)
         /\ \A i \in DOMAIN rs : /\ rs[i] = CanonicalRequirement(a.requirements[i])
                                 /\ IsRequirement(a.requirements[i]) /\ IsRequirement(rs[i])
<1> DEFINE rs == CanonicalRequirements(a)
           n == Len(a.requirements)
<1>1. n \in Nat /\ DOMAIN a.requirements = 1..n /\ \A i \in 1..n : IsRequirement(a.requirements[i])
  BY DEF IsBody, IsList
<1>2. rs = [i \in 1..n |-> CanonicalRequirement(a.requirements[i])]
  BY <1>1 DEF CanonicalRequirements
<1> HIDE DEF n
<1>3. DOMAIN rs = 1..n /\ \A i \in 1..n : rs[i] = CanonicalRequirement(a.requirements[i])
  BY <1>2
<1>4. Len(rs) = n
  <2>1. rs = [i \in 1..n |-> rs[i]]
    BY <1>2
  <2> HIDE DEF rs
  <2> QED
    BY <1>1, <2>1
<1>5. \A i \in 1..n : IsRequirement(rs[i])
  BY <1>1, <1>3, CanonicalRequirementTyped
<1> QED
  BY <1>1, <1>3, <1>4, <1>5 DEF IsList, n

\* A sealed body: what it is made of, and that it is canonical.
LEMMA SealedBodyCanonical ==
  ASSUME NEW a, IsBody(a)
  PROVE  LET s == SealedBody(a) IN
         /\ CanonicalForm(s)
         /\ \E p : Rearranged(s.scopes, a.scopes, p)
         /\ \E p : Rearranged(s.requirements, CanonicalRequirements(a), p)
         /\ \A x \in PlainFields : s[x] = a[x]
<1> DEFINE s == SealedBody(a)
           S == s.scopes
           R == s.requirements
           rs == CanonicalRequirements(a)
<1>1. /\ DOMAIN s = DOMAIN a /\ s = [x \in DOMAIN s |-> s[x]]
      /\ S = Sorted(a.scopes, ScopePrecedes) /\ R = Sorted(rs, Precedes)
      /\ \A x \in DOMAIN a \ {"scopes", "requirements", "contractId"} : s[x] = a[x]
      /\ s.contractId = ContractIdOf(s, BodyDigest(s))
  BY SealedBodyIs
<1>2. IsList(a.scopes) /\ \A i \in DOMAIN a.scopes : IsScope(a.scopes[i])
  BY DEF IsBody
<1>3. /\ IsList(rs) /\ DOMAIN rs = DOMAIN a.requirements
      /\ \A i \in DOMAIN rs : /\ rs[i] = CanonicalRequirement(a.requirements[i])
                              /\ IsRequirement(a.requirements[i]) /\ IsRequirement(rs[i])
  BY CanonicalRequirementsAre
<1> HIDE DEF s, rs
<1>4. /\ \E p : Rearranged(S, a.scopes, p)
      /\ (\A i, j \in DOMAIN S : S[i].name = S[j].name => i = j) =>
           Ascending(S, ScopeOrder(Elements(S)))
  BY <1>1, <1>2, SortedScopes
<1>5. /\ \E p : Rearranged(R, rs, p)
      /\ NoneTwice([i \in DOMAIN R |-> CompositeKey(R[i])]) =>
           Ascending(R, RequirementOrder(Elements(R)))
  BY <1>1, <1>3, SortedRequirements
<1> HIDE DEF S, R
<1>6. IsFcnList(S) /\ \A i \in DOMAIN S : IsScope(S[i])
  BY <1>2, <1>4, RearrangedElements
<1>7. IsFcnList(R) /\ \A i \in DOMAIN R : \E j \in DOMAIN rs : R[i] = rs[j]
  BY <1>3, <1>5, RearrangedElements
<1>8. \A j \in DOMAIN rs : CanonicalLists(rs[j]) /\ rs[j].id = RequirementIdOf(rs[j])
  BY <1>3, CanonicalRequirementIs, CanonicalRequirementTyped
<1>9. \A i \in DOMAIN R : /\ CanonicalLists(R[i]) /\ R[i].id = RequirementIdOf(R[i])
                          /\ IsRequirement(R[i])
  BY <1>3, <1>7, <1>8
<1>10. IsBody(s)
  BY <1>1, <1>6, <1>7, <1>9 DEF IsBody, IsFcnList, S, R
<1>11. CanonicalForm(s)
  BY <1>1, <1>4, <1>5, <1>6, <1>7, <1>9, <1>10 DEF CanonicalForm, S, R
<1>12. \A x \in PlainFields : s[x] = a[x]
  BY <1>1 DEF PlainFields, IsBody
<1> QED
  BY <1>4, <1>5, <1>11, <1>12 DEF s, S, R, rs

\* Replacing fields of a record by what they hold.
LEMMA SameFields ==
  ASSUME NEW r, r = [x \in DOMAIN r |-> r[x]], NEW u, NEW v
  PROVE  /\ [r EXCEPT ![u] = r[u]] = r
         /\ [r EXCEPT ![u] = r[u], ![v] = r[v]] = r
OBVIOUS

\* A canonical requirement stays as it is.
LEMMA CanonicalRequirementKept ==
  ASSUME NEW r, IsRequirement(r), CanonicalLists(r), r.id = RequirementIdOf(r),
         NoneTwice(r.members), NoneTwice([k \in DOMAIN r.attributes |-> r.attributes[k][1]])
  PROVE  CanonicalRequirement(r) = r
<1>1. Sorted(r.members, MemberPrecedes) = r.members
  BY MembersKept DEF IsRequirement, CanonicalLists
<1>2. Sorted(r.attributes, AttributePrecedes) = r.attributes
  BY AttributesKept DEF IsRequirement, CanonicalLists
<1>3. r = [x \in DOMAIN r |-> r[x]]
  BY DEF CanonicalLists
<1>4. [r EXCEPT !.members = r.members, !.attributes = r.attributes] = r
  BY <1>3
<1>5. [r EXCEPT !.id = r.id] = r
  BY <1>3
<1> QED
  BY <1>1, <1>2, <1>4, <1>5 DEF CanonicalRequirement

\* No name, no key and no item of a list is there twice: what validation
\* demands and sorting needs.
Distinct(b) ==
  /\ \A i, j \in DOMAIN b.scopes : b.scopes[i].name = b.scopes[j].name => i = j
  /\ NoneTwice([i \in DOMAIN b.requirements |-> CompositeKey(b.requirements[i])])
  /\ \A i \in DOMAIN b.requirements :
       LET r == b.requirements[i] IN
       NoneTwice(r.members) /\ NoneTwice([k \in DOMAIN r.attributes |-> r.attributes[k][1]])

\* A valid body is one.
LEMMA ValidIsDistinct ==
  ASSUME NEW b, ValidBody(b)
  PROVE  Distinct(b)
<1>1. ValidScopes(b) /\ ValidRequirements(b)
  BY DEF ValidBody
<1>2. \A i, j \in DOMAIN b.scopes : b.scopes[i].name = b.scopes[j].name => i = j
  BY <1>1 DEF ValidScopes
<1>3. /\ NoneTwice([i \in DOMAIN b.requirements |-> CompositeKey(b.requirements[i])])
      /\ \A i \in DOMAIN b.requirements :
           LET r == b.requirements[i] IN
           NoneTwice(r.members) /\ NoneTwice([k \in DOMAIN r.attributes |-> r.attributes[k][1]])
  BY <1>1 DEF ValidRequirements
<1> QED
  BY <1>2, <1>3 DEF Distinct

\* A canonical body stays as it is.
LEMMA CanonicalBodyKept ==
  ASSUME NEW s, CanonicalForm(s), Distinct(s)
  PROVE  CanonicalBody(s) = s
<1>1. Sorted(s.scopes, ScopePrecedes) = s.scopes
  BY ScopesKept DEF CanonicalForm, Distinct, IsBody
<1>2. \A i \in DOMAIN s.requirements : CanonicalRequirement(s.requirements[i]) = s.requirements[i]
  BY CanonicalRequirementKept DEF CanonicalForm, Distinct, IsBody
<1>3. [i \in DOMAIN s.requirements |-> CanonicalRequirement(s.requirements[i])] = s.requirements
  BY <1>2 DEF CanonicalForm, IsFcnList
<1>4. Sorted(s.requirements, Precedes) = s.requirements
  BY RequirementsKept DEF CanonicalForm, Distinct, IsBody
<1>5. s = [x \in DOMAIN s |-> s[x]]
  BY DEF CanonicalForm
<1>6. [s EXCEPT !.scopes = s.scopes, !.requirements = s.requirements] = s
  BY <1>5
<1> QED
  BY <1>1, <1>3, <1>4, <1>6 DEF CanonicalBody

\* The decoder reads a body from every document.
LEMMA DecodedIsBody ==
  ASSUME NEW d, IsDocument(d)
  PROVE  LET e == Enveloped(d)
             a == DecodedBody(e) IN
         IsBody(a) /\ a.scopes = e.body.scopes /\ a.requirements = e.body.requirements
<1>1. Enveloped(d).body = d.body
  BY DEF Enveloped, IsDocument
<1> DEFINE e == Enveloped(d)
           a == DecodedBody(e)
           b == e.body
<1>2. IsBody(b)
  BY <1>1 DEF IsDocument
<1> HIDE DEF e
<1>3. \E g, m : a = [b EXCEPT !.policyGeneration = g, !.major = m]
  BY DEF DecodedBody
<1> HIDE DEF a, b
<1>4. DOMAIN a = DOMAIN b /\ \A x \in DOMAIN b \ {"policyGeneration", "major"} : a[x] = b[x]
  BY <1>3
<1>5. a.scopes = b.scopes /\ a.requirements = b.requirements
  BY <1>2, <1>4 DEF IsBody
<1>6. IsBody(a)
  BY <1>2, <1>4, <1>5 DEF IsBody
<1> QED
  BY <1>5, <1>6 DEF a, b, e

\* What seal makes of a document.
LEMMA SealedIs ==
  ASSUME NEW d, IsDocument(d)
  PROVE  LET e == Enveloped(d)
             s == SealedBody(DecodedBody(e)) IN
         Sealed(d) = [body |-> s, digest |-> BodyDigest(s), supersedes |-> Decoded(e).supersedes,
                      supersedesDigest |-> Decoded(e).supersedesDigest]
<1> DEFINE e == Enveloped(d)
           c == Decoded(e)
           s == SealedBody(DecodedBody(e))
<1>1. c.body = DecodedBody(e)
  BY DEF Decoded
<1>2. Sealed(d) = [c EXCEPT !.body = s, !.digest = BodyDigest(s)]
  BY <1>1 DEF Sealed, Canonicalize, SealedBody
<1>3. c = [body |-> c.body, digest |-> c.digest, supersedes |-> c.supersedes,
           supersedesDigest |-> c.supersedesDigest]
  BY DEF Decoded
<1> HIDE DEF c, s
<1>4. Sealed(d) = [body |-> s, digest |-> BodyDigest(s), supersedes |-> c.supersedes,
                   supersedesDigest |-> c.supersedesDigest]
  BY <1>2, <1>3
<1> QED
  BY <1>4 DEF c, s

\* Reading what seal printed gives back what was sealed.
LEMMA PrintedReadsBack ==
  ASSUME NEW c, NEW s, s = [x \in DOMAIN s |-> s[x]],
         NEW n, NEW l, c = [body |-> s, digest |-> BodyDigest(s), supersedes |-> n,
                            supersedesDigest |-> l],
         n = 0 => l = Zero
  PROVE  LET P == Printed(c) IN
         /\ ~P.bare /\ Enveloped(P) = P
         /\ DecodedBody(P) = s /\ Decoded(P) = c
         /\ DigestAgrees(P)
         /\ \A x \in Fields : P.shape[x] = "given" \/ (P.shape[x] = "absent" /\ x \notin Demanded)
         /\ P.body = s
<1> DEFINE P == Printed(c)
           shape == [x \in Fields |-> IF x \in {"supersedes", "supersedes_digest"} /\ n = 0
                                      THEN "absent" ELSE "given"]
<1>1. c.body = s /\ c.digest = BodyDigest(s) /\ c.supersedes = n /\ c.supersedesDigest = l
  OBVIOUS
<1>2. P = [bare |-> FALSE, printed |-> TRUE, body |-> s, digest |-> BodyDigest(s),
           supersedes |-> n, supersedesDigest |-> l, shape |-> shape]
  BY <1>1 DEF Printed
<1> HIDE DEF P
<1>3. /\ P.bare = FALSE /\ P.body = s /\ P.digest = BodyDigest(s) /\ P.supersedes = n
      /\ P.supersedesDigest = l /\ P.shape = shape
  BY <1>2
<1>4. /\ shape["policy_generation"] = "given" /\ shape["version"] = "given"
      /\ shape["digest"] = "given"
      /\ n # 0 => shape["supersedes"] = "given" /\ shape["supersedes_digest"] = "given"
      /\ n = 0 => shape["supersedes"] = "absent" /\ shape["supersedes_digest"] = "absent"
      /\ \A x \in Fields : shape[x] = "given" \/ (shape[x] = "absent" /\ x \notin Demanded)
  BY DEF Fields, Demanded
<1> HIDE DEF shape
<1>5. DecodedBody(P) = s
  <2>1. DecodedBody(P) = [s EXCEPT !.policyGeneration = s.policyGeneration, !.major = s.major]
    BY <1>3, <1>4 DEF DecodedBody
  <2>2. [s EXCEPT !.policyGeneration = s.policyGeneration, !.major = s.major] = s
    OBVIOUS
  <2> QED
    BY <2>1, <2>2
<1>6. Decoded(P) = c
  <2>1. (IF P.shape["supersedes"] = "given" THEN P.supersedes ELSE 0) = n
    BY <1>3, <1>4
  <2>2. (IF P.shape["supersedes_digest"] = "given" THEN P.supersedesDigest ELSE Zero) = l
    BY <1>3, <1>4
  <2> QED
    BY <1>5, <2>1, <2>2 DEF Decoded
<1>7. DigestAgrees(P)
  BY <1>3, <1>5 DEF DigestAgrees
<1>8. Enveloped(P) = P
  BY <1>3 DEF Enveloped
<1> QED
  BY <1>3, <1>4, <1>5, <1>6, <1>7, <1>8 DEF P

-----------------------------------------------------------------------------
(* Validity *)

\* Requirements as the decoder and the validator see them.
LEMMA PlainFieldsKept ==
  ASSUME NEW r, IsRequirement(r)
  PROVE  /\ \A x \in OtherFields : Plain(r)[x] = r[x]
         /\ Plain(r).members = Elements(r.members)
<1> DEFINE m == {r.members[i] : i \in DOMAIN r.members}
           a == {r.attributes[i][2] : i \in DOMAIN r.attributes}
<1>1. Plain(r) = [r EXCEPT !.members = m, !.attributes = a]
  BY DEF Plain
<1>2. m = Elements(r.members)
  BY DEF Elements
<1>3. {"id", "members", "attributes"} \cup OtherFields \subseteq DOMAIN r
  BY DEF IsRequirement, OtherFields
<1> HIDE DEF m, a
<1>4. \A x \in OtherFields : Plain(r)[x] = r[x]
  BY <1>1, <1>3 DEF OtherFields
<1>5. Plain(r).members = m
  BY <1>1, <1>3
<1> QED
  BY <1>2, <1>4, <1>5

\* The decoder's check of the bounds is part of the validator's.
LEMMA ValidIsOrdered ==
  ASSUME NEW r, IsRequirement(r), ValidRequirement(Plain(r))
  PROVE  BandOrdered(r)
<1> DEFINE q == Plain(r)
<1>1. q.numeric = r.numeric /\ q.kind = r.kind /\ q.target = r.target /\ q.minimum = r.minimum
  BY PlainFieldsKept DEF OtherFields
<1> HIDE DEF q
<1>2. q.numeric => IF IsFloor(q.kind) THEN q.target >= q.minimum ELSE q.target <= q.minimum
  BY DEF ValidRequirement, ValidBand, q
<1> QED
  BY <1>1, <1>2 DEF BandOrdered

\* A sealed document that can be parsed is accepted, and stays as it is when it
\* is sealed again.
LEMMA SealedAccepted ==
  ASSUME NEW d, IsDocument(d), Seals(d)
  PROVE  LET P == Printed(Sealed(d)) IN
         /\ IsDocument(P) /\ Sealed(P) = Sealed(d)
         /\ Parses(P) => Accepts(P) /\ Seals(P)
<1> DEFINE e == Enveloped(d)
           a == DecodedBody(e)
           s == SealedBody(a)
           c == Sealed(d)
           P == Printed(c)
           n == Decoded(e).supersedes
           l == Decoded(e).supersedesDigest
<1>1. IsBody(a) /\ a.scopes = e.body.scopes /\ a.requirements = e.body.requirements
  BY DecodedIsBody
<1>2. c = [body |-> s, digest |-> BodyDigest(s), supersedes |-> n, supersedesDigest |-> l]
  BY SealedIs
<1>3. Decodes(e) /\ Valid(c)
  BY DEF Seals
<1> HIDE DEF e, a, s, c, n, l
<1>4. /\ CanonicalForm(s)
      /\ \E p : Rearranged(s.scopes, a.scopes, p)
      /\ \E p : Rearranged(s.requirements, CanonicalRequirements(a), p)
  BY <1>1, SealedBodyCanonical DEF s
<1>5. c.body = s /\ c.digest = BodyDigest(s) /\ c.supersedes = n /\ c.supersedesDigest = l
  BY <1>2
<1>6. ValidBody(s) /\ (n = 0 => l = Zero)
  BY <1>3, <1>5 DEF Valid
<1>7. /\ ~P.bare /\ Enveloped(P) = P /\ DecodedBody(P) = s /\ Decoded(P) = c
      /\ DigestAgrees(P) /\ P.body = s
      /\ \A x \in Fields : P.shape[x] = "given" \/ (P.shape[x] = "absent" /\ x \notin Demanded)
  <2>1. s = [x \in DOMAIN s |-> s[x]]
    BY <1>4 DEF CanonicalForm
  <2> HIDE DEF P
  <2> QED
    BY <1>2, <1>6, <2>1, PrintedReadsBack DEF P
<1>8. IsDocument(P)
  <2>1. /\ {"bare", "printed", "body", "digest", "supersedes", "supersedesDigest", "shape"}
             \subseteq DOMAIN P
        /\ P.bare \in BOOLEAN /\ P.printed \in BOOLEAN
    BY DEF Printed
  <2>2. IsBody(P.body)
    BY <1>4, <1>7 DEF CanonicalForm
  <2> QED
    BY <2>1, <2>2 DEF IsDocument
<1> HIDE DEF P
<1>9. \A i \in DOMAIN s.scopes : s.scopes[i].name # ""
  <2>1. \A i \in DOMAIN a.scopes : a.scopes[i].name # ""
    BY <1>1, <1>3 DEF Decodes
  <2>2. PICK p : Rearranged(s.scopes, a.scopes, p)
    BY <1>4
  <2>3. IsList(a.scopes)
    BY <1>1 DEF IsBody
  <2>4. DOMAIN s.scopes = DOMAIN a.scopes
        /\ \A i \in DOMAIN a.scopes : p[i] \in DOMAIN a.scopes /\ s.scopes[i] = a.scopes[p[i]]
    BY <2>2, <2>3, RearrangedElements
  <2> QED
    BY <2>1, <2>4
<1>10. \A i \in DOMAIN s.requirements : BandOrdered(s.requirements[i])
  BY <1>4, <1>6, ValidIsOrdered DEF ValidBody, ValidRequirements, CanonicalForm, IsBody
<1>11. \A i \in DOMAIN s.requirements : Len(s.requirements[i].attributes) <= Limits.attributes
  <2>1. \A i \in DOMAIN a.requirements : Len(a.requirements[i].attributes) <= Limits.attributes
    BY <1>1, <1>3 DEF Decodes
  <2> DEFINE rs == CanonicalRequirements(a)
  <2>2. PICK p : Rearranged(s.requirements, rs, p)
    BY <1>4
  <2>3. /\ IsList(rs) /\ DOMAIN rs = DOMAIN a.requirements
        /\ \A i \in DOMAIN rs : /\ rs[i] = CanonicalRequirement(a.requirements[i])
                                /\ IsRequirement(a.requirements[i])
    BY <1>1, CanonicalRequirementsAre
  <2> HIDE DEF rs
  <2>4. DOMAIN s.requirements = DOMAIN rs
        /\ \A i \in DOMAIN rs : p[i] \in DOMAIN rs /\ s.requirements[i] = rs[p[i]]
    BY <2>2, <2>3, RearrangedElements
  <2>5. ASSUME NEW i \in DOMAIN rs PROVE Len(rs[i].attributes) <= Limits.attributes
    <3> DEFINE r == a.requirements[i]
               t == rs[i].attributes
    <3>1. IsRequirement(r) /\ rs[i] = CanonicalRequirement(r)
      BY <2>3
    <3>2. IsList(r.attributes)
      BY <3>1 DEF IsRequirement
    <3>3. PICK q : Rearranged(t, r.attributes, q)
      BY <3>1, CanonicalRequirementTyped
    <3>4. Len(t) = Len(r.attributes)
      BY <3>2, <3>3, RearrangedElements
    <3> QED
      BY <2>1, <2>3, <3>4
  <2> QED
    BY <2>4, <2>5
<1>12. Decodes(P)
  <2>1. s.schema <= Limits.schema /\ s.workload # Zero
    <3>1. s.schema \in 1..Limits.schema /\ s.workload # Zero
      BY <1>6, Zenon DEF ValidBody
    <3> QED
      BY <3>1
  <2>2. Len(s.scopes) <= Limits.scopes /\ Len(s.requirements) <= Limits.requirements
    BY <1>6 DEF ValidBody
  <2> QED
    BY <1>7, <1>9, <1>10, <1>11, <2>1, <2>2 DEF Decodes
<1>13. Parses(P) => Accepts(P)
  BY <1>3, <1>7, <1>12 DEF Accepts
<1>14. Sealed(P) = c
  <2>1. Sealed(P) = Canonicalize(c)
    BY <1>7 DEF Sealed
  <2>2. CanonicalBody(s) = s
    BY <1>4, <1>6, CanonicalBodyKept, ValidIsDistinct
  <2>3. [s EXCEPT !.contractId = ContractIdOf(s, BodyDigest(s))] = s
    BY <1>4 DEF CanonicalForm
  <2>4. Canonicalize(c) = [c EXCEPT !.body = s, !.digest = BodyDigest(s)]
    BY <1>5, <2>2, <2>3 DEF Canonicalize
  <2>5. [c EXCEPT !.body = s, !.digest = BodyDigest(s)] = c
    <3>1. c = [x \in DOMAIN c |-> c[x]] /\ c["body"] = s /\ c["digest"] = BodyDigest(s)
      BY <1>2
    <3>2. [c EXCEPT !["body"] = c["body"], !["digest"] = c["digest"]] = c
      BY <3>1, SameFields
    <3> QED
      BY <3>1, <3>2
  <2> QED
    BY <2>1, <2>4, <2>5
<1>15. Parses(P) => Seals(P)
  BY <1>3, <1>7, <1>12, <1>14 DEF Seals
<1> QED
  BY <1>8, <1>13, <1>14, <1>15 DEF P, c

\* Rearranging keeps how many elements there are of a sort.
LEMMA CountKept ==
  ASSUME NEW s, IsList(s), NEW t, NEW p, Rearranged(t, s, p), NEW T
  PROVE  Cardinality({k \in DOMAIN t : t[k] \in T}) = Cardinality({i \in DOMAIN s : s[i] \in T})
<1> DEFINE D == DOMAIN s
           K == {k \in D : t[k] \in T}
           I == {i \in D : s[i] \in T}
           f == [k \in K |-> p[k]]
<1>1. DOMAIN t = D /\ \A k \in D : p[k] \in D /\ t[k] = s[p[k]]
  BY RearrangedElements
<1>2. (\A k, l \in D : p[k] = p[l] => k = l) /\ (\A i \in D : \E k \in D : p[k] = i)
  BY DEF Rearranged
<1>3. IsFiniteSet(K)
  <2>1. \E n \in Nat : D = 1..n
    BY DEF IsList
  <2>2. IsFiniteSet(D)
    BY <2>1, FS_Interval
  <2> HIDE DEF D
  <2> QED
    BY <2>2, FS_Subset, SMTT(30)
<1> HIDE DEF D
<1>4. f \in [K -> I]
  BY <1>1
<1>5. \A k, l \in K : f[k] = f[l] => k = l
  BY <1>2
<1>6. \A i \in I : \E k \in K : f[k] = i
  BY <1>1, <1>2
<1>7. DOMAIN t = D
  BY <1>1
<1> HIDE DEF f, K, I
<1>8. f \in Bijection(K, I)
  BY <1>4, <1>5, <1>6, Fun_IsBij
<1>9. Cardinality(K) = Cardinality(I)
  BY <1>3, <1>8, FS_Bijection, Fun_ExistsBij
<1> QED
  BY <1>7, <1>9 DEF K, I, D

\* With names told apart a name refers to its one scope.
LEMMA ScopeNamedIs ==
  ASSUME NEW b, IsList(b.scopes),
         \A i, j \in DOMAIN b.scopes : b.scopes[i].name = b.scopes[j].name => i = j
  PROVE  \A i \in DOMAIN b.scopes : ScopeNamed(b, b.scopes[i].name) = b.scopes[i]
<1> SUFFICES ASSUME NEW i \in DOMAIN b.scopes
             PROVE  ScopeNamed(b, b.scopes[i].name) = b.scopes[i]
  OBVIOUS
<1> DEFINE name == b.scopes[i].name
           First(k) == b.scopes[k].name = name /\ \A j \in 1..(k - 1) : b.scopes[j].name # name
           c == CHOOSE k \in DOMAIN b.scopes : First(k)
<1>1. \A j \in 1..(i - 1) : j \in DOMAIN b.scopes /\ j # i
  BY DEF IsList
<1>2. First(i)
  BY <1>1
<1>3. c \in DOMAIN b.scopes /\ First(c)
  <2> HIDE DEF First
  <2> QED
    BY <1>2
<1>4. c = i
  BY <1>3
<1> QED
  BY <1>4 DEF ScopeNamed

\* Rearranged scopes stay valid.
LEMMA ScopesStayValid ==
  ASSUME NEW a, NEW s, IsList(a.scopes), NEW p, Rearranged(s.scopes, a.scopes, p), ValidScopes(a)
  PROVE  ValidScopes(s) /\ ScopeNames(s) = ScopeNames(a)
<1> DEFINE A == a.scopes
           S == s.scopes
           T == {x \in Elements(A) : x.rank # NoRank}
<1>1. IsFcnList(S) /\ DOMAIN S = DOMAIN A /\ \A k \in DOMAIN A : p[k] \in DOMAIN A /\ S[k] = A[p[k]]
  BY RearrangedElements
<1>2. /\ \A k, l \in DOMAIN A : p[k] = p[l] => k = l
      /\ \A i \in DOMAIN A : \E k \in DOMAIN A : p[k] = i
  BY DEF Rearranged
<1>3. \A i, j \in DOMAIN A : A[i].name = A[j].name => i = j
  BY DEF ValidScopes
<1>4. \A i, j \in DOMAIN S : S[i].name = S[j].name => i = j
  <2> SUFFICES ASSUME NEW i \in DOMAIN S, NEW j \in DOMAIN S, S[i].name = S[j].name PROVE i = j
    OBVIOUS
  <2> HIDE DEF A, S
  <2>1. p[i] = p[j]
    BY <1>1, <1>3
  <2> QED
    BY <1>1, <1>2, <2>1
<1>5. ScopeNames(s) = ScopeNames(a)
  <2>1. ScopeNames(s) = {S[i].name : i \in DOMAIN S} /\ ScopeNames(a) = {A[i].name : i \in DOMAIN A}
    BY DEF ScopeNames
  <2> HIDE DEF A, S
  <2>2. {S[i].name : i \in DOMAIN S} \subseteq {A[i].name : i \in DOMAIN A}
    BY <1>1
  <2>3. \A i \in DOMAIN A : \E k \in DOMAIN S : A[i].name = S[k].name
    <3> TAKE i \in DOMAIN A
    <3>1. PICK k \in DOMAIN A : p[k] = i
      BY <1>2
    <3>2. k \in DOMAIN S /\ S[k] = A[i]
      BY <1>1, <3>1
    <3> QED
      BY <3>2
  <2> QED
    BY <2>1, <2>2, <2>3
<1>6. \A i \in DOMAIN A : ScopeNamed(a, A[i].name) = A[i]
  BY <1>3, ScopeNamedIs
<1>7. \A i \in DOMAIN S : ScopeNamed(s, S[i].name) = S[i]
  BY <1>1, <1>4, ScopeNamedIs DEF IsFcnList
<1>8. \A x \in ScopeNames(a) : ScopeNamed(s, x) = ScopeNamed(a, x)
  <2> TAKE x \in ScopeNames(a)
  <2>1. PICK i \in DOMAIN A : x = A[i].name
    BY DEF ScopeNames
  <2> HIDE DEF A, S
  <2>2. PICK k \in DOMAIN A : p[k] = i
    BY <1>2
  <2>3. S[k] = A[i] /\ k \in DOMAIN S
    BY <1>1, <2>2
  <2> QED
    BY <1>6, <1>7, <2>1, <2>3
<1>9. Cardinality({i \in DOMAIN S : S[i].rank # NoRank}) <= Limits.ranked
  <2>1. {i \in DOMAIN S : S[i].rank # NoRank} = {i \in DOMAIN S : S[i] \in T}
    BY <1>1 DEF Elements
  <2>2. {i \in DOMAIN A : A[i].rank # NoRank} = {i \in DOMAIN A : A[i] \in T}
    BY DEF Elements
  <2> HIDE DEF T
  <2>3. Cardinality({i \in DOMAIN S : S[i] \in T}) = Cardinality({i \in DOMAIN A : A[i] \in T})
    BY CountKept
  <2>4. Cardinality({i \in DOMAIN A : A[i].rank # NoRank}) <= Limits.ranked
    BY DEF ValidScopes
  <2> QED
    BY <2>1, <2>2, <2>3, <2>4
<1>10. ASSUME NEW i \in DOMAIN S, S[i].parent # ""
       PROVE  /\ S[i].parent \in ScopeNames(s) \ {S[i].name}
              /\ (S[i].rank # NoRank /\ ScopeNamed(s, S[i].parent).rank # NoRank) =>
                   ScopeNamed(s, S[i].parent).rank < S[i].rank
  <2> DEFINE x == S[i]
  <2>1. \E j \in DOMAIN A : x = A[j]
    BY <1>1
  <2>2. /\ x.parent \in ScopeNames(a) \ {x.name}
        /\ (x.rank # NoRank /\ ScopeNamed(a, x.parent).rank # NoRank) =>
             ScopeNamed(a, x.parent).rank < x.rank
    BY <1>10, <2>1 DEF ValidScopes
  <2> HIDE DEF x
  <2>3. /\ x.parent \in ScopeNames(s) \ {x.name}
        /\ (x.rank # NoRank /\ ScopeNamed(s, x.parent).rank # NoRank) =>
             ScopeNamed(s, x.parent).rank < x.rank
    BY <1>5, <1>8, <2>2
  <2> QED
    BY <2>3 DEF x
<1>11. ~Cyclic(s)
  <2> SUFFICES ASSUME Cyclic(s) PROVE FALSE
    OBVIOUS
  <2>1. PICK U \in (SUBSET ScopeNames(s)) \ {{}} : Closed(s, U)
    BY <1>1, CyclicHasClosed DEF IsFcnList
  <2>2. U \in SUBSET ScopeNames(a) /\ U # {}
    BY <1>5
  <2>3. Closed(a, U)
    BY <1>8, <2>1, <2>2 DEF Closed
  <2>4. Cyclic(a)
    BY <2>2, <2>3, ClosedIsCyclic
  <2> QED
    BY <2>4 DEF ValidScopes
<1>12. ValidScopes(s)
  BY <1>4, <1>9, <1>10, <1>11 DEF ValidScopes
<1> QED
  BY <1>5, <1>12

\* Rearranging keeps items apart.
LEMMA NoneTwiceKept ==
  ASSUME NEW s, IsList(s), NEW t, NEW p, Rearranged(t, s, p)
  PROVE  /\ NoneTwice(s) => NoneTwice(t)
         /\ NoneTwice([k \in DOMAIN s |-> s[k][1]]) => NoneTwice([k \in DOMAIN t |-> t[k][1]])
<1>1. DOMAIN t = DOMAIN s /\ \A k \in DOMAIN s : p[k] \in DOMAIN s /\ t[k] = s[p[k]]
  BY RearrangedElements
<1>2. \A k, l \in DOMAIN s : p[k] = p[l] => k = l
  BY DEF Rearranged
<1>3. NoneTwice(s) => NoneTwice(t)
  BY <1>1, <1>2 DEF NoneTwice
<1>4. ASSUME NoneTwice([k \in DOMAIN s |-> s[k][1]]) PROVE NoneTwice([k \in DOMAIN t |-> t[k][1]])
  <2>1. \A k, l \in DOMAIN s : s[k][1] = s[l][1] => k = l
    BY <1>4 DEF NoneTwice
  <2>2. \A k, l \in DOMAIN t : t[k][1] = t[l][1] => k = l
    BY <1>1, <1>2, <2>1
  <2> QED
    BY <2>2 DEF NoneTwice
<1> QED
  BY <1>3, <1>4

\* Whether a requirement is valid is decided by what it says.
LEMMA SameValidity ==
  ASSUME NEW r, IsRequirement(r), NEW q, IsRequirement(q), \A x \in OtherFields : r[x] = q[x],
         Elements(r.members) = Elements(q.members), ValidRequirement(Plain(q))
  PROVE  ValidRequirement(Plain(r))
<1> DEFINE a == Plain(r)
           b == Plain(q)
<1>1. \A x \in OtherFields : a[x] = b[x]
  BY PlainFieldsKept
<1>2. a.members = b.members
  BY PlainFieldsKept
<1> HIDE DEF a, b
<1>3. /\ a.numeric = b.numeric /\ a.kind = b.kind /\ a.target = b.target /\ a.minimum = b.minimum
      /\ a.strength = b.strength /\ a.value = b.value /\ a.preferred = b.preferred
  BY <1>1 DEF OtherFields
<1>4. ValidRequirement(b)
  BY DEF b
<1>5. ValidRequirement(a)
  BY <1>2, <1>3, <1>4 DEF ValidRequirement, ValidBand
<1> QED
  BY <1>5 DEF a

\* The requirement with some identity.
WithId(r, i) == [r EXCEPT !.id = <<"id", i>>]

\* An identity changes nothing else.
LEMMA WithIdIs ==
  ASSUME NEW r, IsRequirement(r), NEW i
  PROVE  /\ IsRequirement(WithId(r, i))
         /\ \A x \in OtherFields : WithId(r, i)[x] = r[x]
         /\ WithId(r, i).members = r.members /\ WithId(r, i).attributes = r.attributes
<1> DEFINE q == WithId(r, i)
<1>1. DOMAIN q = DOMAIN r /\ \A x \in DOMAIN r \ {"id"} : q[x] = r[x]
  BY DEF WithId
<1> HIDE DEF q
<1>2. {"id", "members", "attributes"} \cup OtherFields \subseteq DOMAIN r
  BY DEF IsRequirement, OtherFields
<1>3. \A x \in OtherFields : q[x] = r[x]
  BY <1>1, <1>2 DEF OtherFields
<1>4. q.members = r.members /\ q.attributes = r.attributes
  BY <1>1, <1>2
<1>5. q.scope = r.scope /\ q.kind = r.kind /\ q.key = r.key
  BY <1>3 DEF OtherFields
<1>6. IsRequirement(q)
  BY <1>1, <1>4, <1>5 DEF IsRequirement
<1> QED
  BY <1>3, <1>4, <1>6 DEF q

\* Canonicalized and rearranged requirements stay valid.
LEMMA RequirementsStayValid ==
  ASSUME NEW a, IsBody(a), NEW v, NEW s, IsBody(s), ValidRequirements(v),
         v.requirements = [i \in DOMAIN a.requirements |-> WithId(a.requirements[i], i)],
         ScopeNames(s) = ScopeNames(v),
         NEW p, Rearranged(s.requirements, CanonicalRequirements(a), p)
  PROVE  ValidRequirements(s)
<1> DEFINE A == a.requirements
           V == v.requirements
           C == CanonicalRequirements(a)
           R == s.requirements
           D == DOMAIN A
           In(L, scope) == {i \in DOMAIN L : L[i].scope = scope}
           KindsIn(L, scope) == {L[i].kind : i \in In(L, scope)}
<1>1. /\ IsList(C) /\ DOMAIN C = D
      /\ \A i \in D : C[i] = CanonicalRequirement(A[i]) /\ IsRequirement(A[i]) /\ IsRequirement(C[i])
  BY CanonicalRequirementsAre
<1>2. DOMAIN V = D /\ \A i \in D : V[i] = WithId(A[i], i)
  OBVIOUS
<1>3. DOMAIN R = D /\ \A k \in D : p[k] \in D /\ R[k] = C[p[k]]
  BY <1>1, RearrangedElements
<1>4. (\A k, l \in D : p[k] = p[l] => k = l) /\ (\A i \in D : \E k \in D : p[k] = i)
  BY <1>1 DEF Rearranged
<1>5. /\ V # <<>>
      /\ \A i \in DOMAIN V :
           /\ V[i].scope \in ScopeNames(v) /\ ValidRequirement(Plain(V[i]))
           /\ NoneTwice([k \in DOMAIN V[i].attributes |-> V[i].attributes[k][1]])
           /\ NoneTwice(V[i].members) /\ "" \notin Plain(V[i]).members
      /\ NoneTwice([i \in DOMAIN V |-> CompositeKey(V[i])])
      /\ \A x \in ScopeNames(v) : /\ Cardinality(In(V, x)) <= Limits.perScope
                                  /\ Cardinality(KindsIn(V, x)) <= Limits.kinds
  BY DEF ValidRequirements
<1>6. \E n \in Nat : D = 1..n
  BY DEF IsBody, IsList
<1>7. D # {}
  <2> SUFFICES ASSUME D = {} PROVE FALSE
    OBVIOUS
  <2>1. V = [i \in {} |-> WithId(A[i], i)]
    OBVIOUS
  <2>2. V = <<>>
    BY <2>1
  <2> QED
    BY <1>5, <2>2
<1>8. Rearranged(R, C, p)
  OBVIOUS
<1> HIDE DEF V, C, R, A, D
<1>9. \A i \in D : /\ IsRequirement(V[i]) /\ V[i].members = A[i].members
                   /\ V[i].attributes = A[i].attributes /\ \A x \in OtherFields : V[i][x] = A[i][x]
  BY <1>1, <1>2, WithIdIs
<1>10. \A i \in D : \A x \in OtherFields : C[i][x] = V[i][x]
  <2> TAKE i \in D
  <2>1. \A x \in OtherFields : C[i][x] = A[i][x]
    BY <1>1, CanonicalRequirementTyped
  <2> QED
    BY <1>9, <2>1
<1>11. \A i \in D : C[i].scope = V[i].scope /\ C[i].kind = V[i].kind /\ C[i].key = V[i].key
  BY <1>10 DEF OtherFields
<1>12. ASSUME NEW i \in D
       PROVE  /\ ValidRequirement(Plain(C[i])) /\ NoneTwice(C[i].members)
              /\ "" \notin Plain(C[i]).members
              /\ NoneTwice([k \in DOMAIN C[i].attributes |-> C[i].attributes[k][1]])
              /\ C[i].id # Zero /\ C[i].id = RequirementIdOf(C[i])
  <2> DEFINE r == A[i]
             c == C[i]
             w == V[i]
  <2>1. c = CanonicalRequirement(r) /\ IsRequirement(r) /\ IsRequirement(c) /\ IsRequirement(w)
    BY <1>1, <1>9
  <2>2. /\ ValidRequirement(Plain(w)) /\ NoneTwice(w.members) /\ w.members = r.members
        /\ "" \notin Plain(w).members
        /\ NoneTwice([k \in DOMAIN w.attributes |-> w.attributes[k][1]])
        /\ w.attributes = r.attributes
    BY <1>2, <1>5, <1>9
  <2>3. \A x \in OtherFields : c[x] = w[x]
    BY <1>10
  <2> HIDE DEF r, c, w
  <2>4. PICK m : Rearranged(c.members, r.members, m)
    BY <2>1, CanonicalRequirementTyped
  <2>5. PICK n : Rearranged(c.attributes, r.attributes, n)
    BY <2>1, CanonicalRequirementTyped
  <2>6. IsList(r.members) /\ IsList(r.attributes)
    BY <2>1 DEF IsRequirement
  <2>7. Elements(c.members) = Elements(w.members)
    BY <2>2, <2>4, <2>6, RearrangedElements
  <2>8. NoneTwice(c.members)
    BY <2>2, <2>4, <2>6, NoneTwiceKept
  <2>9. NoneTwice([k \in DOMAIN c.attributes |-> c.attributes[k][1]])
    BY <2>2, <2>5, <2>6, NoneTwiceKept
  <2>10. ValidRequirement(Plain(c))
    BY <2>1, <2>2, <2>3, <2>7, SameValidity
  <2>11. c.id = RequirementIdOf(c)
    BY <2>1, CanonicalRequirementIs
  <2>12. RequirementIdOf(c) # Zero
    BY DEF RequirementIdOf, Zero
  <2>13. "" \notin Plain(c).members
    BY <2>1, <2>2, <2>7, PlainFieldsKept
  <2> QED
    BY <2>8, <2>9, <2>10, <2>11, <2>12, <2>13, ZenonT(30) DEF c
<1>13. \A i \in D : R[i].scope \in ScopeNames(s)
  <2>1. \A i \in D : V[i].scope \in ScopeNames(v)
    BY <1>2, <1>5
  <2>2. \A i \in D : C[i].scope \in ScopeNames(s)
    BY <1>11, <2>1
  <2> QED
    BY <1>3, <2>2
<1>14. \A i \in D : /\ ValidRequirement(Plain(R[i])) /\ NoneTwice(R[i].members)
                    /\ "" \notin Plain(R[i]).members
                    /\ NoneTwice([k \in DOMAIN R[i].attributes |-> R[i].attributes[k][1]])
                    /\ R[i].id # Zero /\ R[i].id = RequirementIdOf(R[i]) /\ IsRequirement(R[i])
  <2> TAKE i \in D
  <2>1. p[i] \in D /\ R[i] = C[p[i]] /\ IsRequirement(C[p[i]])
    BY <1>1, <1>3
  <2> QED
    BY <1>12, <2>1
<1>15. \A i, j \in D : CompositeKey(R[i]) = CompositeKey(R[j]) => i = j
  <2> SUFFICES ASSUME NEW i \in D, NEW j \in D, CompositeKey(R[i]) = CompositeKey(R[j]) PROVE i = j
    OBVIOUS
  <2>1. \A k, l \in D : CompositeKey(V[k]) = CompositeKey(V[l]) => k = l
    BY <1>2, <1>5 DEF NoneTwice
  <2>2. \A k \in D : CompositeKey(V[k]) = CompositeKey(C[k])
    BY <1>11 DEF CompositeKey
  <2>3. p[i] = p[j]
    BY <1>3, <2>1, <2>2
  <2> QED
    BY <1>4, <2>3
<1>16. \A i, j \in D : R[i].id = R[j].id => i = j
  <2> SUFFICES ASSUME NEW i \in D, NEW j \in D, R[i].id = R[j].id PROVE i = j
    OBVIOUS
  <2> DEFINE x == R[i]
             y == R[j]
             u == [x EXCEPT !.id = Zero]
             w == [y EXCEPT !.id = Zero]
  <2>1. RequirementIdOf(x) = RequirementIdOf(y) /\ IsRequirement(x) /\ IsRequirement(y)
    BY <1>14
  <2> HIDE DEF x, y
  <2>2. u = w
    BY <2>1 DEF RequirementIdOf
  <2>3. u.scope = x.scope /\ u.kind = x.kind /\ u.key = x.key
    BY <2>1 DEF IsRequirement
  <2>4. w.scope = y.scope /\ w.kind = y.kind /\ w.key = y.key
    BY <2>1 DEF IsRequirement
  <2> HIDE DEF u, w
  <2>5. CompositeKey(x) = CompositeKey(y)
    BY <2>2, <2>3, <2>4 DEF CompositeKey
  <2> QED
    BY <1>15, <2>5 DEF x, y
<1>17. \A x : Cardinality(In(R, x)) = Cardinality(In(V, x)) /\ KindsIn(R, x) = KindsIn(V, x)
  <2> TAKE x
  <2> DEFINE T == {c \in Elements(C) : c.scope = x}
  <2>1. In(V, x) = {i \in DOMAIN C : C[i] \in T}
    BY <1>1, <1>2, <1>11 DEF Elements
  <2>2. In(R, x) = {k \in DOMAIN R : R[k] \in T}
    BY <1>1, <1>3 DEF Elements
  <2> HIDE DEF T
  <2>3. Cardinality({k \in DOMAIN R : R[k] \in T}) = Cardinality({i \in DOMAIN C : C[i] \in T})
    BY <1>1, <1>8, CountKept
  <2>4. \A k \in In(R, x) : p[k] \in In(V, x) /\ R[k].kind = V[p[k]].kind
    BY <1>2, <1>3, <1>11
  <2>5. \A i \in In(V, x) : \E k \in In(R, x) : R[k].kind = V[i].kind
    <3> TAKE i \in In(V, x)
    <3>1. PICK k \in D : p[k] = i
      BY <1>2, <1>4
    <3>2. R[k] = C[i] /\ i \in D
      BY <1>2, <1>3, <3>1
    <3> QED
      BY <1>3, <1>11, <3>1, <3>2
  <2>6. KindsIn(R, x) = KindsIn(V, x)
    <3> HIDE DEF In
    <3> QED
      BY <2>4, <2>5
  <2> QED
    BY <2>1, <2>2, <2>3, <2>6
<1>18. \A x \in ScopeNames(s) : /\ Cardinality(In(R, x)) <= Limits.perScope
                                /\ Cardinality(KindsIn(R, x)) <= Limits.kinds
  BY <1>5, <1>17
<1>19. R # <<>>
  BY <1>3, <1>7
<1>20. NoneTwice([i \in DOMAIN R |-> R[i].id]) /\ NoneTwice([i \in DOMAIN R |-> CompositeKey(R[i])])
  BY <1>3, <1>15, <1>16 DEF NoneTwice
<1> QED
  BY <1>3, <1>13, <1>14, <1>18, <1>19, <1>20 DEF ValidRequirements, R

\* The body with some identity for itself and for every requirement.
Named(a) ==
  [a EXCEPT !.contractId = <<"any">>,
            !.requirements = [i \in DOMAIN a.requirements |-> WithId(a.requirements[i], i)]]

\* A body that is valid but for its identities is sealed into a valid one.
LEMMA SealedIsValid ==
  ASSUME NEW a, IsBody(a), ValidBody(Named(a))
  PROVE  ValidBody(SealedBody(a))
<1> DEFINE v == Named(a)
           s == SealedBody(a)
           V == [i \in DOMAIN a.requirements |-> WithId(a.requirements[i], i)]
<1>1. /\ v.requirements = V /\ v.scopes = a.scopes
      /\ v.schema = a.schema /\ v.workload = a.workload /\ v.generation = a.generation
      /\ v.workloadName = a.workloadName /\ v.workloadGeneration = a.workloadGeneration
      /\ v.policyGeneration = a.policyGeneration /\ v.major = a.major
  <2>1. v = [a EXCEPT !.contractId = <<"any">>, !.requirements = V]
    BY DEF Named
  <2>2. {"schema", "workload", "workloadName", "workloadGeneration", "contractId", "generation",
         "policyGeneration", "major", "scopes", "requirements"} \subseteq DOMAIN a
    BY DEF IsBody
  <2> HIDE DEF v, V
  <2>3. \A x \in DOMAIN a \ {"contractId", "requirements"} : v[x] = a[x]
    BY <2>1
  <2>4. v.requirements = V
    BY <2>1, <2>2
  <2> QED
    BY <2>2, <2>3, <2>4
<1>2. /\ v.schema \in 1..Limits.schema /\ v.workload # Zero
      /\ v.workloadName # "" /\ v.workloadGeneration > 0
      /\ v.generation > 0 /\ v.policyGeneration > 0 /\ v.major > 0
      /\ Len(v.scopes) <= Limits.scopes /\ Len(v.requirements) <= Limits.requirements
      /\ ValidScopes(v) /\ ValidRequirements(v)
  BY DEF ValidBody
<1>3. /\ CanonicalForm(s)
      /\ \E p : Rearranged(s.scopes, a.scopes, p)
      /\ \E p : Rearranged(s.requirements, CanonicalRequirements(a), p)
      /\ \A x \in PlainFields : s[x] = a[x]
  BY SealedBodyCanonical
<1> HIDE DEF v, s
<1>4. PICK p : Rearranged(s.scopes, a.scopes, p)
  BY <1>3
<1>5. PICK q : Rearranged(s.requirements, CanonicalRequirements(a), q)
  BY <1>3
<1>6. IsBody(s) /\ s.contractId = ContractIdOf(s, BodyDigest(s))
  BY <1>3 DEF CanonicalForm
<1>7. IsList(a.scopes) /\ IsList(a.requirements)
  BY DEF IsBody
<1>8. Len(s.scopes) = Len(a.scopes)
  BY <1>4, <1>7, RearrangedElements
<1>9. /\ IsList(CanonicalRequirements(a))
      /\ Len(CanonicalRequirements(a)) = Len(a.requirements)
  BY CanonicalRequirementsAre
<1>10. Len(s.requirements) = Len(a.requirements)
  BY <1>5, <1>9, RearrangedElements
<1>11. Len(V) = Len(a.requirements)
  <2> DEFINE n == Len(a.requirements)
  <2>1. n \in Nat /\ DOMAIN a.requirements = 1..n
    BY <1>7 DEF IsList
  <2> HIDE DEF n
  <2>2. V = [i \in 1..n |-> WithId(a.requirements[i], i)]
    BY <2>1
  <2> DEFINE W(i) == WithId(a.requirements[i], i)
  <2>3. V = [i \in 1..n |-> W(i)]
    BY <2>2
  <2> HIDE DEF W, V
  <2>4. Len(V) = n
    BY <2>1, <2>3
  <2> QED
    BY <2>4 DEF n
<1>12. ValidScopes(s) /\ ScopeNames(s) = ScopeNames(v)
  <2>1. IsList(v.scopes) /\ Rearranged(s.scopes, v.scopes, p)
    BY <1>1, <1>4, <1>7
  <2> QED
    BY <1>2, <2>1, ScopesStayValid
<1>13. ValidRequirements(s)
  BY <1>1, <1>2, <1>5, <1>6, <1>12, RequirementsStayValid
<1>14. s.contractId # Zero
  BY <1>6 DEF ContractIdOf, Zero
<1>15. /\ s.schema = a.schema /\ s.workload = a.workload /\ s.generation = a.generation
       /\ s.workloadName = a.workloadName /\ s.workloadGeneration = a.workloadGeneration
       /\ s.policyGeneration = a.policyGeneration /\ s.major = a.major
  BY <1>3 DEF PlainFields
<1> HIDE DEF V
<1>16. Len(s.scopes) <= Limits.scopes /\ Len(s.requirements) <= Limits.requirements
  BY <1>1, <1>2, <1>8, <1>10, <1>11
<1>17. ValidBody(s)
  BY <1>1, <1>2, <1>12, <1>13, <1>14, <1>15, <1>16 DEF ValidBody
<1> QED
  BY <1>17 DEF s

-----------------------------------------------------------------------------
(* Files *)

\* What seal prints is a document.
LEMMA SealPrintsDocument ==
  ASSUME NEW d, IsDocument(d)
  PROVE  IsDocument(Printed(Sealed(d)))
<1> DEFINE a == DecodedBody(Enveloped(d))
           s == SealedBody(a)
           P == Printed(Sealed(d))
<1>1. IsBody(a)
  BY DecodedIsBody
<1> HIDE DEF a
<1>2. IsBody(s)
  BY <1>1, SealedBodyCanonical DEF CanonicalForm
<1> HIDE DEF s
<1>3. Sealed(d).body = s
  BY SealedIs DEF a, s
<1>4. /\ {"bare", "printed", "body", "digest", "supersedes", "supersedesDigest", "shape"}
           \subseteq DOMAIN P
      /\ P.bare \in BOOLEAN /\ P.printed \in BOOLEAN /\ P.body = s
  BY <1>3 DEF Printed
<1> QED
  BY <1>2, <1>4 DEF IsDocument

\* Every file holds a document.
FilesParse == \A f \in Files : file[f] # None => IsDocument(file[f])

\* What one or two changes leave of a document P.
Left(P, e, n) ==
  /\ n = 0 => e = P
  /\ n = 1 => OnePart(P, e)
  /\ n = 2 => \E x \in PartNames : Parts(P)[x] = Parts(e)[x]

\* e is what n changes left of a document that was sealed and said m.
ComesFrom(e, m, n) ==
  /\ IsDocument(e)
  /\ \E d : /\ IsDocument(d) /\ Seals(d) /\ m = Content(Sealed(d).body)
            /\ Left(Printed(Sealed(d)), e, n)

\* Every file holds a document; one that was sealed holds what the changes
\* since have left, and what was accepted is still acceptable.
FilesSealed ==
  /\ DOMAIN file = Files /\ DOMAIN meant = Files /\ DOMAIN altered = Files /\ DOMAIN verdict = Files
  /\ FilesParse
  /\ \A f \in Files :
       /\ altered[f] \in Nat
       /\ meant[f] # None => ComesFrom(file[f], meant[f], altered[f])
       /\ meant[f] # None /\ verdict[f] = "accepted" => Accepts(file[f])

\* No command and no change leaves anything else in a file.
LEMMA FilesParseStep ==
  ASSUME DOMAIN file = Files, FilesParse, [Next]_vars
  PROVE  DOMAIN file' = Files /\ FilesParse'
<1>1. ASSUME NEW f \in Files, NEW d, IsDocument(d), file' = [file EXCEPT ![f] = d]
      PROVE  DOMAIN file' = Files /\ FilesParse'
  BY <1>1 DEF FilesParse
<1>2. CASE file' = file
  BY <1>2 DEF FilesParse
<1>3. ASSUME NEW f \in Files, NEW d \in Drafts(f), Write(f, d)
      PROVE  DOMAIN file' = Files /\ FilesParse'
  BY <1>1, <1>3, DocumentAssumption DEF Write
<1>4. ASSUME NEW f \in Files, Seal(f)
      PROVE  DOMAIN file' = Files /\ FilesParse'
  <2>1. CASE file' = file
    BY <1>2, <2>1
  <2>2. CASE file' = [file EXCEPT ![f] = Printed(Sealed(file[f]))]
    <3>1. IsDocument(file[f])
      BY <1>4 DEF Seal, FilesParse
    <3> DEFINE d == Printed(Sealed(file[f]))
    <3>2. IsDocument(d)
      BY <3>1, SealPrintsDocument
    <3>3. file' = [file EXCEPT ![f] = d]
      BY <2>2
    <3> HIDE DEF d
    <3> QED
      BY <1>1, <3>2, <3>3
  <2> QED
    BY <1>4, <2>1, <2>2 DEF Seal
<1>5. ASSUME NEW f \in Files, NEW d \in Changes(file[f]), Change(f, d)
      PROVE  DOMAIN file' = Files /\ FilesParse'
  BY <1>1, <1>5 DEF Change
<1>6. ASSUME NEW f \in Files, Check(f)
      PROVE  DOMAIN file' = Files /\ FilesParse'
  BY <1>2, <1>6 DEF Check
<1> QED
  BY <1>2, <1>3, <1>4, <1>5, <1>6 DEF Next, vars

\* One more change.
LEMMA OneMoreChange ==
  ASSUME NEW e, NEW m, NEW n \in Nat, NEW d, IsDocument(d), ComesFrom(e, m, n), OnePart(e, d)
  PROVE  ComesFrom(d, m, n + 1)
<1>1. PICK a : /\ IsDocument(a) /\ Seals(a) /\ m = Content(Sealed(a).body)
               /\ Left(Printed(Sealed(a)), e, n)
  BY DEF ComesFrom
<1> DEFINE P == Printed(Sealed(a))
<1> HIDE DEF P
<1>2. Left(P, e, n)
  BY <1>1 DEF P
<1>3. ~(n + 1 = 0)
  OBVIOUS
<1>4. n + 1 = 1 => OnePart(P, d)
  BY <1>2 DEF Left
<1>5. n + 1 = 2 => \E x \in PartNames : Parts(P)[x] = Parts(d)[x]
  <2> SUFFICES ASSUME n = 1 PROVE \E x \in PartNames : Parts(P)[x] = Parts(d)[x]
    OBVIOUS
  <2>1. PICK x \in PartNames : \A y \in PartNames \ {x} : Parts(P)[y] = Parts(e)[y]
    BY <1>2 DEF Left, OnePart
  <2>2. PICK z \in PartNames : \A y \in PartNames \ {z} : Parts(e)[y] = Parts(d)[y]
    BY DEF OnePart
  <2>3. \E y \in PartNames : y # x /\ y # z
    BY DEF PartNames
  <2> QED
    BY <2>1, <2>2, <2>3
<1>6. Left(P, d, n + 1)
  BY <1>3, <1>4, <1>5 DEF Left
<1> QED
  BY <1>1, <1>6 DEF ComesFrom, P

\* Every command and every change keeps that.
LEMMA FilesSealedStep ==
  ASSUME FilesSealed, [Next]_vars
  PROVE  FilesSealed'
<1> DEFINE Holds(f) == /\ altered[f] \in Nat
                       /\ meant[f] # None => ComesFrom(file[f], meant[f], altered[f])
                       /\ meant[f] # None /\ verdict[f] = "accepted" => Accepts(file[f])
           Domains == /\ DOMAIN meant = Files /\ DOMAIN altered = Files /\ DOMAIN verdict = Files
<1>1. DOMAIN file = Files /\ Domains /\ FilesParse /\ \A f \in Files : Holds(f)
  BY DEF FilesSealed
<1>2. DOMAIN file' = Files /\ FilesParse'
  BY <1>1, FilesParseStep
<1>3. SUFFICES Domains' /\ \A f \in Files : Holds(f)'
  BY <1>2 DEF FilesSealed
<1>4. ASSUME NEW f \in Files, NEW e, NEW m, NEW n, NEW v,
             file' = [file EXCEPT ![f] = e],
             meant' = [meant EXCEPT ![f] = m] \/ (meant' = meant /\ meant[f] = m),
             altered' = [altered EXCEPT ![f] = n], verdict' = [verdict EXCEPT ![f] = v],
             n \in Nat, m # None => ComesFrom(e, m, n), m # None /\ v = "accepted" => Accepts(e)
      PROVE  Domains' /\ \A g \in Files : Holds(g)'
  <2>1. Domains'
    BY <1>1, <1>4
  <2>2. file'[f] = e /\ meant'[f] = m /\ altered'[f] = n /\ verdict'[f] = v
    BY <1>1, <1>4
  <2>3. Holds(f)'
    BY <1>4, <2>2
  <2>4. ASSUME NEW g \in Files, g # f PROVE Holds(g)'
    <3>1. /\ file'[g] = file[g] /\ meant'[g] = meant[g] /\ altered'[g] = altered[g]
          /\ verdict'[g] = verdict[g]
      BY <1>1, <1>4, <2>4
    <3>2. Holds(g)
      BY <1>1
    <3> QED
      BY <3>1, <3>2
  <2> QED
    BY <2>1, <2>3, <2>4
<1>5. CASE UNCHANGED vars
  BY <1>1, <1>5 DEF vars
<1>6. ASSUME NEW f \in Files, NEW d \in Drafts(f), Write(f, d)
      PROVE  Domains' /\ \A g \in Files : Holds(g)'
  <2>1. /\ file' = [file EXCEPT ![f] = d] /\ meant' = [meant EXCEPT ![f] = None]
        /\ altered' = [altered EXCEPT ![f] = 0] /\ verdict' = [verdict EXCEPT ![f] = "none"]
    BY <1>6 DEF Write
  <2> HIDE DEF Domains, Holds
  <2> QED
    BY <1>4, <2>1
<1>7. ASSUME NEW f \in Files, Seal(f)
      PROVE  Domains' /\ \A g \in Files : Holds(g)'
  <2>0. IsDocument(file[f])
    BY <1>1, <1>7 DEF Seal, FilesParse
  <2> DEFINE P == Printed(Sealed(file[f]))
             m == Content(Sealed(file[f]).body)
  <2>1. CASE Seals(file[f])
    <3>1. /\ file' = [file EXCEPT ![f] = P] /\ meant' = [meant EXCEPT ![f] = m]
          /\ altered' = [altered EXCEPT ![f] = 0] /\ verdict' = [verdict EXCEPT ![f] = "none"]
      BY <1>7, <2>1 DEF Seal
    <3>2. ComesFrom(P, m, 0)
      <4>1. Left(P, P, 0)
        BY DEF Left
      <4>2. IsDocument(P)
        BY <2>0, SealPrintsDocument
      <4> QED
        BY <2>0, <2>1, <4>1, <4>2 DEF ComesFrom
    <3> HIDE DEF P, m, Domains, Holds
    <3> QED
      BY <1>4, <3>1, <3>2
  <2>2. CASE ~Seals(file[f])
    <3>1. /\ file' = file /\ meant' = meant /\ altered' = altered
          /\ verdict' = [verdict EXCEPT ![f] = "refused"]
      BY <1>7, <2>2 DEF Seal
    <3>2. \A g \in Files : verdict'[g] = verdict[g] \/ verdict'[g] # "accepted"
      BY <1>1, <3>1
    <3> QED
      BY <1>1, <3>1, <3>2
  <2> QED
    BY <2>1, <2>2
<1>8. ASSUME NEW f \in Files, NEW d \in Changes(file[f]), Change(f, d)
      PROVE  Domains' /\ \A g \in Files : Holds(g)'
  <2>1. /\ file' = [file EXCEPT ![f] = d] /\ meant' = meant /\ meant[f] # None
        /\ altered' = [altered EXCEPT ![f] = altered[f] + 1]
        /\ verdict' = [verdict EXCEPT ![f] = "none"] /\ OnePart(file[f], d) /\ IsDocument(d)
    BY <1>8 DEF Change
  <2> DEFINE m == meant[f]
             n == altered[f] + 1
  <2>2. altered[f] \in Nat /\ ComesFrom(file[f], m, altered[f])
    BY <1>1, <2>1
  <2>3. n \in Nat /\ ComesFrom(d, m, n)
    BY <2>1, <2>2, OneMoreChange
  <2>4. meant[f] = m /\ altered' = [altered EXCEPT ![f] = n]
    BY <2>1
  <2> HIDE DEF m, n, Domains, Holds
  <2> QED
    BY <1>4, <2>1, <2>3, <2>4
<1>9. ASSUME NEW f \in Files, Check(f)
      PROVE  Domains' /\ \A g \in Files : Holds(g)'
  <2> DEFINE v == IF Accepts(file[f]) THEN "accepted" ELSE "refused"
  <2>1. /\ file' = file /\ meant' = meant /\ altered' = altered
        /\ verdict' = [verdict EXCEPT ![f] = v]
    BY <1>9 DEF Check
  <2>2. v = "accepted" => Accepts(file[f])
    OBVIOUS
  <2> HIDE DEF v
  <2>3. \A g \in Files : verdict'[g] = verdict[g] \/ (verdict'[g] = "accepted" => Accepts(file[g]))
    BY <1>1, <2>1, <2>2
  <2> QED
    BY <1>1, <2>1, <2>3
<1> QED
  BY <1>5, <1>6, <1>7, <1>8, <1>9 DEF Next, vars

\* So it holds throughout: the inductive invariant of this module.
LEMMA FilesStaySealed == Spec => []FilesSealed
<1>1. Init => FilesSealed
  BY DEF Init, FilesSealed, FilesParse
<1>2. FilesSealed /\ [Next]_vars => FilesSealed'
  BY FilesSealedStep
<1> QED
  BY <1>1, <1>2, PTL DEF Spec

-----------------------------------------------------------------------------
(* Theorems *)

\* The bounded walk of validate_body reports a cycle exactly when some scopes
\* have all their parents among themselves, for any number of scopes.
THEOREM CyclesAreFound == Spec => []CycleFound
<1>1. FilesSealed => CycleFound
  <2> SUFFICES ASSUME FilesSealed, NEW f \in Files, file[f] # None
               PROVE  LET b == file[f].body IN
                      Cyclic(b) <=> \E S \in (SUBSET ScopeNames(b)) \ {{}} :
                                      \A s \in S : ScopeNamed(b, s).parent \in S
    BY DEF CycleFound
  <2> DEFINE b == file[f].body
  <2>1. IsList(b.scopes)
    BY DEF FilesSealed, FilesParse, IsDocument, IsBody
  <2> HIDE DEF b
  <2>2. Cyclic(b) => \E S \in (SUBSET ScopeNames(b)) \ {{}} : Closed(b, S)
    BY <2>1, CyclicHasClosed
  <2>3. ASSUME NEW S \in (SUBSET ScopeNames(b)) \ {{}}, Closed(b, S) PROVE Cyclic(b)
    BY <2>1, <2>3, ClosedIsCyclic
  <2>4. Cyclic(b) <=> \E S \in (SUBSET ScopeNames(b)) \ {{}} : Closed(b, S)
    BY <2>2, <2>3
  <2> QED
    BY <2>4 DEF b, Closed
<1> QED
  BY <1>1, FilesStaySealed, PTL

\* A sealed document whose text the parser takes is accepted wherever it is
\* read, and sealing it again changes nothing.
THEOREM SealedIsAcceptedAlways == Spec => []SealedIsAccepted
<1>1. FilesSealed => SealedIsAccepted
  <2> SUFFICES ASSUME FilesSealed, NEW f \in Files, meant[f] # None, altered[f] = 0
               PROVE  /\ Accepts(file[f]) <=> Parses(file[f])
                      /\ Seals(file[f]) <=> Parses(file[f])
                      /\ Printed(Sealed(file[f])) = file[f]
    BY DEF SealedIsAccepted
  <2>1. ComesFrom(file[f], meant[f], 0)
    BY DEF FilesSealed
  <2>2. PICK d : IsDocument(d) /\ Seals(d) /\ file[f] = Printed(Sealed(d))
    BY <2>1 DEF ComesFrom, Left
  <2>3. /\ Sealed(file[f]) = Sealed(d)
        /\ Parses(file[f]) => Accepts(file[f]) /\ Seals(file[f])
    BY <2>2, SealedAccepted
  <2>4. (Accepts(file[f]) \/ Seals(file[f])) => Parses(file[f])
    BY DEF Accepts, Seals
  <2> QED
    BY <2>2, <2>3, <2>4
<1> QED
  BY <1>1, FilesStaySealed, PTL

\* What a body says apart from its identity decides its content.
LEMMA ContentOfMasked ==
  ASSUME NEW a, NEW b, "scopes" \in DOMAIN a, "requirements" \in DOMAIN a, "contractId" \in DOMAIN a,
         [a EXCEPT !.contractId = Zero] = [b EXCEPT !.contractId = Zero]
  PROVE  Content(a) = Content(b)
<1>1. DOMAIN a = DOMAIN b /\ \A x \in DOMAIN a \ {"contractId"} : a[x] = b[x]
  <2> DEFINE c == [a EXCEPT !.contractId = Zero]
             d == [b EXCEPT !.contractId = Zero]
  <2>1. DOMAIN c = DOMAIN a /\ \A x \in DOMAIN a \ {"contractId"} : c[x] = a[x]
    OBVIOUS
  <2>2. DOMAIN d = DOMAIN b /\ \A x \in DOMAIN b \ {"contractId"} : d[x] = b[x]
    OBVIOUS
  <2>3. c = d
    OBVIOUS
  <2> HIDE DEF c, d
  <2> QED
    BY <2>1, <2>2, <2>3
<1>2. a.scopes = b.scopes /\ a.requirements = b.requirements
  BY <1>1
<1> DEFINE S == {a.scopes[i] : i \in DOMAIN a.scopes}
           R == {[Plain(a.requirements[i]) EXCEPT
                    !.id = Zero,
                    !.attributes = {a.requirements[i].attributes[k] :
                                      k \in DOMAIN a.requirements[i].attributes}] :
                   i \in DOMAIN a.requirements}
<1>3. /\ Content(a) = [a EXCEPT !.contractId = Zero, !.scopes = S, !.requirements = R]
      /\ Content(b) = [b EXCEPT !.contractId = Zero, !.scopes = S, !.requirements = R]
  BY <1>2 DEF Content
<1> HIDE DEF S, R
<1>4. [a EXCEPT !.contractId = Zero, !.scopes = S, !.requirements = R]
      = [b EXCEPT !.contractId = Zero, !.scopes = S, !.requirements = R]
  BY <1>1
<1> QED
  BY <1>3, <1>4

\* What the decoder makes of a body whose members are all given.
LEMMA GivenIsKept ==
  ASSUME NEW d, d.shape["policy_generation"] = "given", d.shape["version"] = "given",
         "contractId" \in DOMAIN d.body
  PROVE  [DecodedBody(d) EXCEPT !.contractId = Zero] = [d.body EXCEPT !.contractId = Zero]
<1> DEFINE b == d.body
           a == DecodedBody(d)
<1>1. a = [b EXCEPT !.policyGeneration = b.policyGeneration, !.major = b.major]
  BY DEF DecodedBody
<1> HIDE DEF a, b
<1>2. DOMAIN a = DOMAIN b /\ \A x \in DOMAIN b : a[x] = b[x]
  BY <1>1
<1>3. [a EXCEPT !.contractId = Zero] = [b EXCEPT !.contractId = Zero]
  BY <1>2
<1> QED
  BY <1>3 DEF a, b

\* An accepted document that still has one part of a sealed one says the same.
LEMMA OnePartIsEnough ==
  ASSUME NEW d, IsDocument(d), Seals(d), NEW e, IsDocument(e), Accepts(e),
         NEW x \in PartNames, Parts(Printed(Sealed(d)))[x] = Parts(e)[x]
  PROVE  Content(DecodedBody(e)) = Content(Sealed(d).body)
<1> DEFINE c == Sealed(d)
           P == Printed(c)
           s == c.body
           b == DecodedBody(e)
           Masked(y) == [y EXCEPT !.contractId = Zero]
<1>1. Valid(c) /\ c.digest = BodyDigest(s) /\ s.contractId = ContractIdOf(s, BodyDigest(s))
  BY DEF Seals, Valid
<1>2. /\ P.body = s /\ P.digest = BodyDigest(s) /\ P.shape["digest"] = "given"
      /\ P.shape["policy_generation"] = "given" /\ P.shape["version"] = "given"
      /\ DOMAIN P.shape = Fields
  BY <1>1 DEF Printed, Fields
<1>3. Valid(Decoded(e)) /\ Decodes(e)
  BY DEF Accepts
<1>4. b.contractId = ContractIdOf(b, BodyDigest(b))
  BY <1>3 DEF Valid, Decoded
<1>5. IsBody(s)
  BY <1>2, SealedAccepted DEF IsDocument
<1> HIDE DEF c, P, s, b
<1>6. IsBody(b) /\ b.contractId = e.body.contractId
  <2>1. ~e.bare
    BY DEF Accepts
  <2>2. IsBody(b)
    BY <2>1, DecodedIsBody DEF Enveloped, b
  <2>3. "contractId" \in DOMAIN e.body
    BY DEF IsDocument, IsBody
  <2>4. \E g, m : b = [e.body EXCEPT !.policyGeneration = g, !.major = m]
    BY DEF DecodedBody, b
  <2>5. b.contractId = e.body.contractId
    BY <2>3, <2>4
  <2> QED
    BY <2>2, <2>5
<1>7. SUFFICES Masked(b) = Masked(s)
  BY <1>6, ContentOfMasked DEF IsBody, b, c, s
<1>8. BodyDigest(b) = BodyDigest(s) => Masked(b) = Masked(s)
  BY DEF BodyDigest
<1>9. Parts(P)[x] = Parts(e)[x]
  BY DEF P, c
<1>10. CASE x = "identity"
  <2>1. e.body.contractId = s.contractId
    BY <1>2, <1>9, <1>10 DEF Parts
  <2>2. ContractIdOf(b, BodyDigest(b)) = ContractIdOf(s, BodyDigest(s))
    BY <1>1, <1>4, <1>6, <2>1
  <2> QED
    BY <1>8, <2>2 DEF ContractIdOf
<1>11. CASE x = "digest"
  <2>1. <<e.digest, e.shape["digest"]>> = <<P.digest, P.shape["digest"]>>
    BY <1>9, <1>11 DEF Parts
  <2>2. e.digest = BodyDigest(s) /\ e.shape["digest"] = "given"
    BY <1>2, <2>1
  <2>3. BodyDigest(s) # Zero
    BY DEF BodyDigest, Zero
  <2>4. e.digest = BodyDigest(b)
    BY <1>3, <2>2, <2>3 DEF Decodes, DigestAgrees, b
  <2> QED
    BY <1>8, <2>2, <2>4
<1>12. CASE x = "rest"
  <2>1. /\ [e.body EXCEPT !.contractId = Zero] = [P.body EXCEPT !.contractId = Zero]
        /\ [e.shape EXCEPT !["digest"] = ""] = [P.shape EXCEPT !["digest"] = ""]
    BY <1>9, <1>12 DEF Parts
  <2>2. e.shape["policy_generation"] = "given" /\ e.shape["version"] = "given"
    <3> DEFINE g == [e.shape EXCEPT !["digest"] = ""]
               h == [P.shape EXCEPT !["digest"] = ""]
    <3>1. DOMAIN g = DOMAIN e.shape /\ \A y \in DOMAIN e.shape \ {"digest"} : g[y] = e.shape[y]
      OBVIOUS
    <3>2. DOMAIN h = Fields /\ \A y \in Fields \ {"digest"} : h[y] = P.shape[y]
      BY <1>2
    <3>3. g = h
      BY <2>1
    <3> HIDE DEF g, h
    <3>4. "policy_generation" \in Fields /\ "version" \in Fields
      BY DEF Fields
    <3> QED
      BY <1>2, <3>1, <3>2, <3>3, <3>4
  <2>3. Masked(b) = [e.body EXCEPT !.contractId = Zero]
    BY <2>2, GivenIsKept DEF IsDocument, IsBody, b
  <2> QED
    BY <1>2, <2>1, <2>3
<1> QED
  BY <1>10, <1>11, <1>12 DEF PartNames

\* One or two changes do not make an accepted document say something else.
THEOREM AlterationsAreFound == Spec => []AlterationFound
<1>1. FilesSealed => AlterationFound
  <2> SUFFICES ASSUME FilesSealed, NEW f \in Files, verdict[f] = "accepted", meant[f] # None,
                      altered[f] <= 2
               PROVE  Content(DecodedBody(file[f])) = meant[f]
    BY DEF AlterationFound
  <2>1. /\ altered[f] \in Nat /\ ComesFrom(file[f], meant[f], altered[f]) /\ Accepts(file[f])
    BY DEF FilesSealed
  <2>2. PICK d : /\ IsDocument(d) /\ Seals(d) /\ meant[f] = Content(Sealed(d).body)
                 /\ Left(Printed(Sealed(d)), file[f], altered[f])
    BY <2>1 DEF ComesFrom
  <2> DEFINE P == Printed(Sealed(d))
             e == file[f]
  <2> HIDE DEF P, e
  <2>3. \E x \in PartNames : Parts(P)[x] = Parts(e)[x]
    <3>1. altered[f] = 0 \/ altered[f] = 1 \/ altered[f] = 2
      BY <2>1
    <3>2. e = P \/ OnePart(P, e) \/ \E x \in PartNames : Parts(P)[x] = Parts(e)[x]
      BY <2>2, <3>1 DEF Left, P, e
    <3>3. \A x : \E y \in PartNames : y # x
      BY DEF PartNames
    <3> QED
      BY <3>2, <3>3 DEF OnePart
  <2>4. IsDocument(e)
    BY <2>1 DEF ComesFrom, e
  <2> QED
    BY <2>1, <2>2, <2>3, <2>4, OnePartIsEnough DEF P, e
<1> QED
  BY <1>1, FilesStaySealed, PTL

\* What a requirement says, as Content takes it.
RequirementContent(r) ==
  [Plain(r) EXCEPT !.id = Zero, !.attributes = {r.attributes[k] : k \in DOMAIN r.attributes}]

\* What the content of a requirement is made of.
LEMMA RequirementContentIs ==
  ASSUME NEW r, IsRequirement(r)
  PROVE  LET c == RequirementContent(r) IN
         /\ DOMAIN c = DOMAIN r
         /\ c["members"] = Elements(r.members) /\ c["attributes"] = Elements(r.attributes)
         /\ \A x \in DOMAIN r \ {"id", "members", "attributes"} : c[x] = r[x]
<1> DEFINE m == {r.members[i] : i \in DOMAIN r.members}
           v == {r.attributes[i][2] : i \in DOMAIN r.attributes}
           a == {r.attributes[k] : k \in DOMAIN r.attributes}
           p == [r EXCEPT !.members = m, !.attributes = v]
           c == [p EXCEPT !.id = Zero, !.attributes = a]
<1>1. RequirementContent(r) = c
  BY DEF RequirementContent, Plain
<1>2. m = Elements(r.members) /\ a = Elements(r.attributes)
  BY DEF Elements
<1>3. "id" \in DOMAIN r /\ "members" \in DOMAIN r /\ "attributes" \in DOMAIN r
  BY DEF IsRequirement
<1> HIDE DEF m, v, a
<1>4. DOMAIN p = DOMAIN r /\ p["members"] = m
      /\ \A x \in DOMAIN r \ {"members", "attributes"} : p[x] = r[x]
  BY <1>3
<1> HIDE DEF p
<1>5. /\ DOMAIN c = DOMAIN p /\ c["attributes"] = a
      /\ \A x \in DOMAIN p \ {"id", "attributes"} : c[x] = p[x]
  BY <1>3, <1>4
<1> HIDE DEF c
<1> QED
  BY <1>1, <1>2, <1>3, <1>4, <1>5

\* Canonical requirements that say the same are the same.
LEMMA SameRequirement ==
  ASSUME NEW r, IsRequirement(r), CanonicalLists(r), r.id = RequirementIdOf(r),
         NoneTwice(r.members), NoneTwice([k \in DOMAIN r.attributes |-> r.attributes[k][1]]),
         NEW q, IsRequirement(q), CanonicalLists(q), q.id = RequirementIdOf(q),
         NoneTwice(q.members), NoneTwice([k \in DOMAIN q.attributes |-> q.attributes[k][1]]),
         RequirementContent(r) = RequirementContent(q)
  PROVE  r = q
<1> DEFINE c == RequirementContent(r)
<1>1. /\ DOMAIN c = DOMAIN r
      /\ c["members"] = Elements(r.members) /\ c["attributes"] = Elements(r.attributes)
      /\ \A x \in DOMAIN r \ {"id", "members", "attributes"} : c[x] = r[x]
  BY RequirementContentIs
<1>2. /\ DOMAIN c = DOMAIN q
      /\ c["members"] = Elements(q.members) /\ c["attributes"] = Elements(q.attributes)
      /\ \A x \in DOMAIN q \ {"id", "members", "attributes"} : c[x] = q[x]
  BY RequirementContentIs
<1> HIDE DEF c
<1>3. r.members = q.members
  <2> DEFINE t == r.members
             u == q.members
             B == MemberOrder(Elements(t))
  <2>1. IsFcnList(t) /\ IsFcnList(u) /\ Elements(t) = Elements(u)
    BY <1>1, <1>2 DEF CanonicalLists
  <2>2. \A i \in DOMAIN t : t[i] \in DOMAIN Position
    BY DEF IsRequirement
  <2>3. Ascending(t, B) /\ Ascending(u, B)
    BY <2>1 DEF CanonicalLists
  <2> HIDE DEF t, u
  <2>4. WeakOrder(B, Elements(t))
    BY <2>2, MembersSort
  <2> HIDE DEF B
  <2>5. t = u
    BY <2>1, <2>3, <2>4, AscendingUnique
  <2> QED
    BY <2>5 DEF t, u
<1>4. r.attributes = q.attributes
  <2> DEFINE t == r.attributes
             u == q.attributes
             B == AttributeOrder(Elements(t))
  <2>1. IsFcnList(t) /\ IsFcnList(u) /\ Elements(t) = Elements(u)
    BY <1>1, <1>2 DEF CanonicalLists
  <2>2. \A i \in DOMAIN t : t[i][1] \in DOMAIN Position
    BY DEF IsRequirement
  <2>3. Ascending(t, B) /\ Ascending(u, B)
    BY <2>1 DEF CanonicalLists
  <2> HIDE DEF t, u
  <2>4. WeakOrder(B, Elements(t))
    BY <2>2, AttributesSort
  <2> HIDE DEF B
  <2>5. t = u
    BY <2>1, <2>3, <2>4, AscendingUnique
  <2> QED
    BY <2>5 DEF t, u
<1>5. DOMAIN r = DOMAIN q /\ \A x \in DOMAIN r \ {"id"} : r[x] = q[x]
  BY <1>1, <1>2, <1>3, <1>4
<1>6. [r EXCEPT !.id = Zero] = [q EXCEPT !.id = Zero]
  BY <1>5
<1>7. r.id = q.id
  BY <1>6 DEF RequirementIdOf
<1>8. \A x \in DOMAIN r : r[x] = q[x]
  BY <1>5, <1>7
<1> QED
  BY <1>5, <1>8 DEF CanonicalLists

\* Canonical bodies that say the same are the same but for the identity.
LEMMA SameContent ==
  ASSUME NEW s, CanonicalForm(s), Distinct(s), NEW t, CanonicalForm(t), Distinct(t),
         Content(s) = Content(t)
  PROVE  [s EXCEPT !.contractId = Zero] = [t EXCEPT !.contractId = Zero]
<1> DEFINE Says(b) == {RequirementContent(b.requirements[i]) : i \in DOMAIN b.requirements}
           c == Content(s)
<1>1. \A b : Content(b) = [b EXCEPT !.contractId = Zero, !.scopes = Elements(b.scopes),
                                    !.requirements = Says(b)]
  BY DEF Content, Elements, RequirementContent
<1> HIDE DEF Says
<1>2. ASSUME NEW b, IsBody(b), Content(b) = c
      PROVE  /\ DOMAIN c = DOMAIN b /\ c["scopes"] = Elements(b.scopes)
             /\ c["requirements"] = Says(b)
             /\ \A x \in DOMAIN b \ {"contractId", "scopes", "requirements"} : c[x] = b[x]
  <2> DEFINE E == Elements(b.scopes)
             R == Says(b)
  <2>1. c = [b EXCEPT !.contractId = Zero, !.scopes = E, !.requirements = R]
    BY <1>1, <1>2
  <2>2. "contractId" \in DOMAIN b /\ "scopes" \in DOMAIN b /\ "requirements" \in DOMAIN b
    BY <1>2 DEF IsBody
  <2> HIDE DEF E, R, c
  <2>3. /\ DOMAIN c = DOMAIN b /\ c["scopes"] = E /\ c["requirements"] = R
        /\ \A x \in DOMAIN b \ {"contractId", "scopes", "requirements"} : c[x] = b[x]
    BY <2>1, <2>2
  <2> QED
    BY <2>3 DEF E, R
<1>3. IsBody(s) /\ IsBody(t) /\ Content(s) = c /\ Content(t) = c
  BY DEF CanonicalForm
<1> HIDE DEF c
<1>4. /\ DOMAIN s = DOMAIN t /\ Elements(s.scopes) = Elements(t.scopes) /\ Says(s) = Says(t)
      /\ \A x \in DOMAIN s \ {"contractId", "scopes", "requirements"} : s[x] = t[x]
  BY <1>2, <1>3
<1>5. s.scopes = t.scopes
  <2> DEFINE p == s.scopes
             q == t.scopes
             B == ScopeOrder(Elements(p))
  <2>1. IsFcnList(p) /\ IsFcnList(q) /\ Elements(p) = Elements(q)
    BY <1>4 DEF CanonicalForm
  <2>2. \A i \in DOMAIN p : IsScope(p[i])
    BY <1>3 DEF IsBody
  <2>3. Ascending(p, B) /\ Ascending(q, B)
    BY <2>1 DEF CanonicalForm, Distinct
  <2> HIDE DEF p, q
  <2>4. WeakOrder(B, Elements(p))
    BY <2>2, ScopesSort
  <2> HIDE DEF B
  <2>5. p = q
    BY <2>1, <2>3, <2>4, AscendingUnique
  <2> QED
    BY <2>5 DEF p, q
<1>6. s.requirements = t.requirements
  <2> DEFINE p == s.requirements
             q == t.requirements
             B == RequirementOrder(Elements(p))
  <2>1. \A i \in DOMAIN p, j \in DOMAIN q :
          RequirementContent(p[i]) = RequirementContent(q[j]) => p[i] = q[j]
    BY <1>3, SameRequirement DEF CanonicalForm, Distinct, IsBody
  <2>2. /\ \A i \in DOMAIN p : \E j \in DOMAIN q : RequirementContent(p[i]) = RequirementContent(q[j])
        /\ \A j \in DOMAIN q : \E i \in DOMAIN p : RequirementContent(p[i]) = RequirementContent(q[j])
    <3>1. /\ Says(s) = {RequirementContent(p[i]) : i \in DOMAIN p}
          /\ Says(t) = {RequirementContent(q[j]) : j \in DOMAIN q}
      BY DEF Says
    <3> HIDE DEF p, q
    <3> QED
      BY <1>4, <3>1
  <2>3. \A i \in DOMAIN p : IsRequirement(p[i])
    BY <1>3 DEF IsBody
  <2>4. IsFcnList(p) /\ IsFcnList(q)
    BY DEF CanonicalForm
  <2>5. Ascending(p, B) /\ Ascending(q, RequirementOrder(Elements(q)))
    BY DEF CanonicalForm, Distinct
  <2> HIDE DEF p, q
  <2>6. Elements(p) = Elements(q)
    BY <2>1, <2>2 DEF Elements
  <2>7. WeakOrder(B, Elements(p)) /\ Ascending(q, B)
    BY <2>3, <2>5, <2>6, RequirementsSort
  <2> HIDE DEF B
  <2>8. p = q
    BY <2>4, <2>5, <2>6, <2>7, AscendingUnique
  <2> QED
    BY <2>8 DEF p, q
<1>7. \A x \in DOMAIN s \ {"contractId"} : s[x] = t[x]
  BY <1>4, <1>5, <1>6
<1> QED
  BY <1>4, <1>7

\* Sealed documents have one digest exactly when they say the same, in whatever
\* order their authors wrote them, and documents of one identity say the same
\* but for their generation.
THEOREM SealIgnoresOrderAlways == Spec => []SealIgnoresOrder
<1>1. ASSUME NEW d, IsDocument(d), Seals(d)
      PROVE  LET c == Sealed(d)
                 P == Printed(c) IN
             /\ CanonicalForm(c.body) /\ Distinct(c.body)
             /\ P.digest = BodyDigest(c.body)
             /\ P.body.contractId = ContractIdOf(c.body, BodyDigest(c.body))
  <2> DEFINE c == Sealed(d)
             s == SealedBody(DecodedBody(Enveloped(d)))
  <2>1. c.body = s
    BY <1>1, SealedIs
  <2>2. CanonicalForm(s)
    BY <1>1, DecodedIsBody, SealedBodyCanonical
  <2> HIDE DEF s
  <2>3. Valid(c)
    BY <1>1 DEF Seals
  <2> HIDE DEF c
  <2>4. Distinct(c.body) /\ c.digest = BodyDigest(c.body)
        /\ c.body.contractId = ContractIdOf(c.body, BodyDigest(c.body))
    BY <2>3, ValidIsDistinct DEF Valid
  <2>5. Printed(c).digest = c.digest /\ Printed(c).body = c.body
    BY DEF Printed
  <2> QED
    BY <2>1, <2>2, <2>4, <2>5 DEF c
<1>2. FilesSealed => SealIgnoresOrder
  <2> SUFFICES ASSUME FilesSealed, NEW f \in Files, NEW g \in Files,
                      meant[f] # None, meant[g] # None, altered[f] = 0, altered[g] = 0
               PROVE  /\ (meant[f] = meant[g]) <=> (file[f].digest = file[g].digest)
                      /\ (meant[f] = meant[g]) => (file[f].body.contractId = file[g].body.contractId)
                      /\ (file[f].body.contractId = file[g].body.contractId) =>
                           [meant[f] EXCEPT !.generation = 0] = [meant[g] EXCEPT !.generation = 0]
    BY DEF SealIgnoresOrder
  <2>1. PICK d : /\ IsDocument(d) /\ Seals(d) /\ file[f] = Printed(Sealed(d))
                 /\ meant[f] = Content(Sealed(d).body)
    BY DEF FilesSealed, ComesFrom, Left
  <2>2. PICK e : /\ IsDocument(e) /\ Seals(e) /\ file[g] = Printed(Sealed(e))
                 /\ meant[g] = Content(Sealed(e).body)
    BY DEF FilesSealed, ComesFrom, Left
  <2> DEFINE s == Sealed(d).body
             t == Sealed(e).body
  <2>3. /\ CanonicalForm(s) /\ Distinct(s) /\ meant[f] = Content(s)
        /\ file[f].digest = BodyDigest(s)
        /\ file[f].body.contractId = ContractIdOf(s, BodyDigest(s))
    BY <1>1, <2>1
  <2>4. /\ CanonicalForm(t) /\ Distinct(t) /\ meant[g] = Content(t)
        /\ file[g].digest = BodyDigest(t)
        /\ file[g].body.contractId = ContractIdOf(t, BodyDigest(t))
    BY <1>1, <2>2
  <2> HIDE DEF s, t
  <2>5. Content(s) = Content(t) => [s EXCEPT !.contractId = Zero] = [t EXCEPT !.contractId = Zero]
    BY <2>3, <2>4, SameContent
  <2>6. [s EXCEPT !.contractId = Zero] = [t EXCEPT !.contractId = Zero] => Content(s) = Content(t)
    BY <2>3, ContentOfMasked DEF CanonicalForm, IsBody
  <2>7. BodyDigest(s) = BodyDigest(t) <=> [s EXCEPT !.contractId = Zero] = [t EXCEPT !.contractId = Zero]
    BY DEF BodyDigest
  <2>8. [s EXCEPT !.contractId = Zero] = [t EXCEPT !.contractId = Zero] => s.workload = t.workload
    <3> DEFINE u == [s EXCEPT !.contractId = Zero]
               v == [t EXCEPT !.contractId = Zero]
    <3>1. "workload" \in DOMAIN s /\ "workload" \in DOMAIN t
      BY <2>3, <2>4 DEF CanonicalForm, IsBody
    <3>2. u.workload = s.workload /\ v.workload = t.workload
      BY <3>1
    <3> QED
      BY <3>2
  <2>9. ContractIdOf(s, BodyDigest(s)) = ContractIdOf(t, BodyDigest(t))
        <=> (s.workload = t.workload /\ BodyDigest(s) = BodyDigest(t))
    BY DEF ContractIdOf
  <2>10. (meant[f] = meant[g]) <=> (file[f].digest = file[g].digest)
    BY <2>3, <2>4, <2>5, <2>6, <2>7
  <2>11. (meant[f] = meant[g]) <=> (file[f].body.contractId = file[g].body.contractId)
    BY <2>3, <2>4, <2>5, <2>6, <2>7, <2>8, <2>9
  <2> QED
    BY <2>10, <2>11
<1> QED
  BY <1>2, FilesStaySealed, PTL

\* Seal derives every identity from what the author wrote, so a draft whose
\* content is valid is never refused for the identities or the order in it.
THEOREM IdentitiesAreDerived == Spec => []SealDerivesIdentities
<1>1. FilesSealed => SealDerivesIdentities
  <2> SUFFICES ASSUME FilesSealed, NEW f \in Files, file[f] # None,
                      Parses(file[f]), Decodes(Enveloped(file[f])),
                      ValidBody(Named(Decoded(Enveloped(file[f])).body)),
                      Decoded(Enveloped(file[f])).supersedes = 0,
                      Decoded(Enveloped(file[f])).supersedesDigest = Zero
               PROVE  Seals(file[f])
    BY DEF SealDerivesIdentities, Named, WithId
  <2> DEFINE d == file[f]
             e == Enveloped(d)
             a == DecodedBody(e)
             s == SealedBody(a)
             c == Sealed(d)
  <2>1. IsDocument(d)
    BY DEF FilesSealed, FilesParse
  <2>2. Decoded(e).body = a
    BY DEF Decoded
  <2>3. IsBody(a)
    BY <2>1, DecodedIsBody
  <2>4. ValidBody(s)
    BY <2>2, <2>3, SealedIsValid
  <2>5. c = [body |-> s, digest |-> BodyDigest(s), supersedes |-> 0, supersedesDigest |-> Zero]
    BY <2>1, SealedIs
  <2>6. CanonicalForm(s)
    BY <2>3, SealedBodyCanonical
  <2> HIDE DEF s, c
  <2>7. /\ s.contractId = ContractIdOf(s, BodyDigest(s))
        /\ \A i \in DOMAIN s.requirements :
             s.requirements[i].id = RequirementIdOf(s.requirements[i])
    BY <2>6 DEF CanonicalForm
  <2>8. c.body = s /\ c.digest = BodyDigest(s) /\ c.supersedes = 0 /\ c.supersedesDigest = Zero
    BY <2>5
  <2>9. Valid(c)
    BY <2>4, <2>7, <2>8 DEF Valid
  <2> QED
    BY <2>9 DEF Seals, c
<1> QED
  BY <1>1, FilesStaySealed, PTL
=============================================================================
