---------------------------- MODULE LedgerProofs -----------------------------
(***************************************************************************)
(* What Ledger promises, for all payloads, sizes, bounds and trust sets,   *)
(* any number of boots and any number of failed writes.                    *)
(***************************************************************************)
EXTENDS Ledger, FiniteSetTheorems, SequenceTheorems, WellFoundedInduction, TLAPS

-----------------------------------------------------------------------------
(* Sums over finite sets *)

\* `it' maps each subset of S to the sum of g over it.
Sums(it, g, S) ==
  it = [s \in SUBSET S |->
          IF s = {} THEN 0 ELSE g[CHOOSE x \in s : TRUE] + it[s \ {CHOOSE x \in s : TRUE}]]

\* The sum of g over S.
Part(g, S) == (CHOOSE it : Sums(it, g, S))[S]

\* StoredBytes in these terms, before and after a step.
LEMMA StoredIsPart ==
  /\ StoredBytes = Part(files, DOMAIN files)
  /\ StoredBytes' = Part(files', DOMAIN files')
<1>1. StoredBytes = Part(files, DOMAIN files)
  BY DEF StoredBytes, Part, Sums, MapThenSumSet, MapThenFoldSet
<1>2. StoredBytes' = Part(files', DOMAIN files')
  BY DEF StoredBytes, Part, Sums, MapThenSumSet, MapThenFoldSet
<1> QED BY <1>1, <1>2

LEMMA StoredSame ==
  ASSUME files' = files
  PROVE  StoredBytes' = StoredBytes
BY StoredIsPart

\* A nonempty set of naturals has a least element.
LEMMA LeastNatural ==
  ASSUME NEW N, N \subseteq Nat, N # {}
  PROVE  \E n \in N : \A m \in N : n <= m
<1> DEFINE R == OpToRel(<, Nat)
<1>1. IsWellFoundedOn(R, Nat)
  BY NatLessThanWellFounded
<1>2. PICK n \in N : \A m \in N : ~ (<<m, n>> \in R)
  <2> HIDE DEF R
  <2> QED BY <1>1, WFMin
<1>3. \A m \in N : ~ (m < n)
  BY <1>2 DEF OpToRel
<1> QED BY <1>3

\* A finite set has no endless descent of subsets.
LEMMA MinimalSubset ==
  ASSUME NEW S, IsFiniteSet(S), NEW B, B \subseteq SUBSET S, B # {}
  PROVE  \E T \in B : \A U \in SUBSET T : U # T => U \notin B
<1> DEFINE N == {Cardinality(T) : T \in B}
<1>1. \A T \in B : IsFiniteSet(T) /\ Cardinality(T) \in Nat
  BY FS_Subset, FS_CardinalityType
<1>2. N \subseteq Nat /\ N # {}
  BY <1>1
<1>4. PICK n \in N : \A m \in N : n <= m
  <2> HIDE DEF N
  <2> QED BY <1>2, LeastNatural
<1>5. PICK T \in B : n = Cardinality(T)
  OBVIOUS
<1>6. ASSUME NEW U \in SUBSET T, U # T, U \in B
      PROVE  FALSE
  <2>1. Cardinality(U) < Cardinality(T)
    BY <1>1, <1>6, FS_Subset
  <2>2. Cardinality(U) \in N /\ Cardinality(U) \in Nat /\ n \in Nat
    BY <1>1, <1>2, <1>6
  <2> QED BY <1>4, <1>5, <2>1, <2>2
<1> QED BY <1>6

\* The sum over a subset does not depend on the set it is taken in.
LEMMA SumsAgree ==
  ASSUME NEW g, NEW U, IsFiniteSet(U), NEW V, V \subseteq U,
         NEW a, NEW b, Sums(a, g, U), Sums(b, g, V)
  PROVE  a[V] = b[V]
<1> DEFINE B == {t \in SUBSET V : a[t] # b[t]}
<1>1. SUFFICES ASSUME B # {} PROVE FALSE
  OBVIOUS
<1>2. PICK t \in B : \A u \in SUBSET t : u # t => u \notin B
  <2>1. B \subseteq SUBSET U
    OBVIOUS
  <2> HIDE DEF B
  <2> QED BY <1>1, <2>1, MinimalSubset
<1> DEFINE c == CHOOSE x \in t : TRUE
<1>3. t \in SUBSET U /\ t \in SUBSET V
  OBVIOUS
<1>4. t # {}
  BY <1>3 DEF Sums
<1>5. c \in t
  BY <1>4
<1>6. a[t] = g[c] + a[t \ {c}] /\ b[t] = g[c] + b[t \ {c}]
  BY <1>3, <1>4 DEF Sums
<1>7. a[t \ {c}] = b[t \ {c}]
  BY <1>2, <1>3, <1>5
<1> QED BY <1>6, <1>7

\* The recursion of MapThenFoldSet defines a function.
LEMMA SumsExist ==
  ASSUME NEW g, NEW S, IsFiniteSet(S)
  PROVE  \E it : Sums(it, g, S)
<1> DEFINE B == {t \in SUBSET S : ~ \E it : Sums(it, g, t)}
<1>1. SUFFICES ASSUME B # {} PROVE FALSE
  OBVIOUS
<1>2. PICK t \in B : \A u \in SUBSET t : u # t => u \notin B
  <2>1. B \subseteq SUBSET S
    OBVIOUS
  <2> HIDE DEF B
  <2> QED BY <1>1, <2>1, MinimalSubset
<1> DEFINE It(u) == CHOOSE it : Sums(it, g, u)
           c == CHOOSE x \in t : TRUE
           j == [u \in SUBSET t |-> IF u = {} THEN 0
                   ELSE IF u = t THEN g[c] + It(t \ {c})[t \ {c}] ELSE It(u)[u]]
<1>3. \A u \in SUBSET t : u # t => Sums(It(u), g, u)
  <2> SUFFICES ASSUME NEW u \in SUBSET t, u # t PROVE Sums(It(u), g, u)
    OBVIOUS
  <2>1. \E it : Sums(it, g, u)
    BY <1>2
  <2> QED BY <2>1
<1>4. ASSUME NEW u \in SUBSET t, u # t, u # {}
      PROVE  It(u)[u] = g[CHOOSE x \in u : TRUE]
                          + It(u \ {CHOOSE x \in u : TRUE})[u \ {CHOOSE x \in u : TRUE}]
  <2> DEFINE d == CHOOSE x \in u : TRUE
             w == u \ {d}
  <2>1. d \in u
    BY <1>4
  <2>2. Sums(It(u), g, u) /\ Sums(It(w), g, w)
    BY <1>3, <1>4, <2>1
  <2>3. It(u)[u] = g[d] + It(u)[w]
    BY <1>4, <2>2 DEF Sums
  <2>4. It(u)[w] = It(w)[w]
    <3>1. IsFiniteSet(u)
      BY FS_Subset
    <3>2. w \subseteq u
      OBVIOUS
    <3> HIDE DEF It, d, w, j, c, B
    <3> QED BY <2>2, <3>1, <3>2, SumsAgree
  <2> QED BY <2>3, <2>4
<1>5. t # {} => c \in t
  OBVIOUS
<1>6. Sums(j, g, t)
  <2>1. ASSUME NEW u \in SUBSET t, u # {}
        PROVE  j[u] = g[CHOOSE x \in u : TRUE] + j[u \ {CHOOSE x \in u : TRUE}]
    <3> DEFINE d == CHOOSE x \in u : TRUE
               w == u \ {d}
    <3>1. d \in u /\ w \in SUBSET t /\ w # u /\ w # t
      BY <2>1
    <3>2. j[w] = IF w = {} THEN 0 ELSE It(w)[w]
      BY <3>1
    <3>3. It(w)[w] = j[w]
      <4>1. CASE w # {}
        BY <3>2, <4>1
      <4>2. CASE w = {}
        <5>1. Sums(It({}), g, {})
          BY <1>3, <3>1, <4>2
        <5>2. It({})[{}] = 0
          <6> HIDE DEF It
          <6> QED BY <5>1 DEF Sums
        <5> QED BY <3>2, <4>2, <5>2
      <4> QED BY <4>1, <4>2
    <3>4. CASE u = t
      <4>1. j[u] = g[c] + It(t \ {c})[t \ {c}] /\ d = c /\ w = t \ {c}
        BY <2>1, <3>4
      <4>2. j[u] = g[d] + j[w]
        <5> HIDE DEF It, d, w, c, j
        <5> QED BY <3>3, <4>1
      <4> QED BY <4>2
    <3>5. CASE u # t
      <4>1. j[u] = It(u)[u]
        BY <2>1, <3>5
      <4>2. It(u)[u] = g[d] + It(w)[w]
        BY <1>4, <2>1, <3>5
      <4> QED BY <3>3, <4>1, <4>2
    <3> QED BY <3>4, <3>5
  <2>2. j[{}] = 0
    OBVIOUS
  <2>3. j = [s \in SUBSET t |->
          IF s = {} THEN 0 ELSE g[CHOOSE x \in s : TRUE] + j[s \ {CHOOSE x \in s : TRUE}]]
    <3>1. j = [s \in SUBSET t |-> j[s]]
      OBVIOUS
    <3> HIDE DEF j
    <3> QED BY <2>1, <2>2, <3>1
  <2> QED BY <2>3 DEF Sums
<1> QED BY <1>2, <1>6

\* The recursion, unfolded once.
LEMMA PartUnfold ==
  ASSUME NEW g, NEW S, IsFiniteSet(S)
  PROVE  /\ Part(g, {}) = 0
         /\ S # {} => Part(g, S) = g[CHOOSE x \in S : TRUE] + Part(g, S \ {CHOOSE x \in S : TRUE})
<1> DEFINE It(u) == CHOOSE it : Sums(it, g, u)
           c == CHOOSE x \in S : TRUE
<1>1. Sums(It({}), g, {})
  BY SumsExist, FS_EmptySet
<1>2. Sums(It(S), g, S) /\ Sums(It(S \ {c}), g, S \ {c})
  BY SumsExist, FS_Subset
<1>3. It({})[{}] = 0
  BY <1>1 DEF Sums
<1>4. S # {} => It(S)[S] = g[c] + It(S)[S \ {c}]
  BY <1>2 DEF Sums
<1>5. It(S)[S \ {c}] = It(S \ {c})[S \ {c}]
  <2> DEFINE w == S \ {c}
  <2>1. w \subseteq S
    OBVIOUS
  <2>2. Sums(It(S), g, S) /\ Sums(It(w), g, w)
    BY <1>2
  <2>3. It(S)[w] = It(w)[w]
    <3> HIDE DEF It, c, w
    <3> QED BY <2>1, <2>2, SumsAgree
  <2> QED BY <2>3
<1> QED BY <1>3, <1>4, <1>5 DEF Part

\* Any element may be taken out first.
LEMMA PartAdd ==
  ASSUME NEW g, NEW S, IsFiniteSet(S), \A x \in S : g[x] \in Nat
  PROVE  \A T \in SUBSET S : /\ Part(g, T) \in Nat
                             /\ \A x \in T : Part(g, T) = g[x] + Part(g, T \ {x})
<1> DEFINE P(T) == /\ Part(g, T) \in Nat
                   /\ \A x \in T : Part(g, T) = g[x] + Part(g, T \ {x})
           B == {t \in SUBSET S : ~ P(t)}
<1>1. SUFFICES ASSUME B # {} PROVE FALSE
  OBVIOUS
<1>2. PICK t \in B : \A u \in SUBSET t : u # t => u \notin B
  <2>1. B \subseteq SUBSET S
    OBVIOUS
  <2> HIDE DEF B
  <2> QED BY <1>1, <2>1, MinimalSubset
<1>3. \A u \in SUBSET t : u # t => P(u)
  BY <1>2
<1>4. IsFiniteSet(t)
  BY FS_Subset
<1>5. t # {}
  <2>1. Part(g, {}) = 0
    BY PartUnfold, FS_EmptySet
  <2>2. P({})
    BY <2>1
  <2> QED BY <2>2
<1> DEFINE c == CHOOSE x \in t : TRUE
<1>6. c \in t
  BY <1>5
<1>7. Part(g, t) = g[c] + Part(g, t \ {c})
  BY <1>4, <1>5, PartUnfold
<1>8. g[c] \in Nat /\ Part(g, t \ {c}) \in Nat
  BY <1>3, <1>6
<1>9. ASSUME NEW x \in t
      PROVE  Part(g, t) = g[x] + Part(g, t \ {x})
  <2>1. CASE x = c
    BY <1>7, <2>1
  <2>2. CASE x # c
    <3>1. Part(g, t \ {c}) = g[x] + Part(g, (t \ {c}) \ {x})
      <4>1. P(t \ {c})
        BY <1>3, <1>6
      <4> QED BY <2>2, <4>1
    <3>2. Part(g, t \ {x}) = g[c] + Part(g, (t \ {x}) \ {c})
      <4>1. P(t \ {x})
        BY <1>3
      <4> QED BY <1>6, <2>2, <4>1
    <3>3. (t \ {x}) \ {c} = (t \ {c}) \ {x}
      OBVIOUS
    <3>4. Part(g, (t \ {c}) \ {x}) \in Nat /\ g[x] \in Nat
      <4>1. (t \ {c}) \ {x} \in SUBSET t /\ (t \ {c}) \ {x} # t
        BY <1>6
      <4>2. P((t \ {c}) \ {x})
        BY <1>3, <4>1
      <4> QED BY <4>2
    <3> HIDE DEF c
    <3> QED BY <1>7, <1>8, <3>1, <3>2, <3>3, <3>4
  <2> QED BY <2>1, <2>2
<1>10. P(t)
  BY <1>7, <1>8, <1>9
<1> QED BY <1>10

\* Equal values have equal sums.
LEMMA PartSame ==
  ASSUME NEW g, NEW h, NEW S, IsFiniteSet(S), \A x \in S : g[x] = h[x]
  PROVE  Part(g, S) = Part(h, S)
<1> DEFINE B == {t \in SUBSET S : Part(g, t) # Part(h, t)}
<1>1. SUFFICES ASSUME B # {} PROVE FALSE
  OBVIOUS
<1>2. PICK t \in B : \A u \in SUBSET t : u # t => u \notin B
  <2>1. B \subseteq SUBSET S
    OBVIOUS
  <2> HIDE DEF B
  <2> QED BY <1>1, <2>1, MinimalSubset
<1>4. IsFiniteSet(t)
  BY FS_Subset
<1>5. t # {}
  BY PartUnfold, FS_EmptySet
<1> DEFINE c == CHOOSE x \in t : TRUE
<1>6. c \in t
  BY <1>5
<1>7. /\ Part(g, t) = g[c] + Part(g, t \ {c})
      /\ Part(h, t) = h[c] + Part(h, t \ {c})
  BY <1>4, <1>5, PartUnfold
<1>8. Part(g, t \ {c}) = Part(h, t \ {c}) /\ g[c] = h[c]
  BY <1>2, <1>6
<1> QED BY <1>7, <1>8

\* One function has an argument more than the other, or another value at it.
LEMMA PartUpdate ==
  ASSUME NEW g, NEW h, NEW f, IsFiniteSet(DOMAIN g), IsFiniteSet(DOMAIN h),
         \A x \in DOMAIN g : g[x] \in Nat, \A x \in DOMAIN h : h[x] \in Nat,
         f \in DOMAIN h, DOMAIN g \ {f} = DOMAIN h \ {f},
         \A x \in DOMAIN g \ {f} : g[x] = h[x]
  PROVE  /\ Part(g, DOMAIN g) \in Nat /\ Part(h, DOMAIN h) \in Nat
         /\ f \in DOMAIN g => Part(h, DOMAIN h) = Part(g, DOMAIN g) - g[f] + h[f]
         /\ f \notin DOMAIN g => Part(h, DOMAIN h) = Part(g, DOMAIN g) + h[f]
<1> DEFINE rest == DOMAIN g \ {f}
<1>1. Part(h, DOMAIN h) \in Nat /\ Part(h, DOMAIN h) = h[f] + Part(h, DOMAIN h \ {f})
  BY PartAdd
<1>2. /\ Part(g, DOMAIN g) \in Nat /\ Part(g, rest) \in Nat
      /\ f \in DOMAIN g => Part(g, DOMAIN g) = g[f] + Part(g, rest)
  BY PartAdd
<1>3. Part(g, rest) = Part(h, rest)
  <2>1. IsFiniteSet(rest)
    BY FS_Subset
  <2>2. \A x \in rest : g[x] = h[x]
    OBVIOUS
  <2> HIDE DEF rest
  <2> QED BY <2>1, <2>2, PartSame
<1>4. f \notin DOMAIN g => rest = DOMAIN g
  OBVIOUS
<1>5. rest = DOMAIN h \ {f}
  OBVIOUS
<1> HIDE DEF rest
<1>7. h[f] \in Nat /\ (f \in DOMAIN g => g[f] \in Nat)
  OBVIOUS
<1> QED BY <1>1, <1>2, <1>3, <1>4, <1>5, <1>7

-----------------------------------------------------------------------------
(* The invariant *)

\* The phases of an open that has started.
Opening == {"repair", "sweep", "stamp"}

\* The chunks lie in their segments one behind the other, and every byte of a
\* segment belongs to one.
Layout ==
  /\ \A i \in 1..Len(journal) :
       /\ journal[i].file \in DOMAIN files
       /\ journal[i].off \in Nat
       /\ journal[i].bytes \in 1..FrameBytes(journal[i].payload)
       /\ journal[i].off + journal[i].bytes <= files[journal[i].file]
  /\ \A i, j \in 1..Len(journal) : i < j =>
       /\ journal[i].file <= journal[j].file
       /\ journal[i].file = journal[j].file =>
            journal[i].off + journal[i].bytes <= journal[j].off
  /\ \A f \in DOMAIN files : \A b \in 0..(files[f] - 1) : BelongsTo(f, b, Len(journal))

\* Where an open that has started stands.
Recovery ==
  /\ phase \in Opening =>
       /\ lastSeq <= Len(journal)
       /\ \A i \in 1..lastSeq : Sound(i)
       /\ lastSeq = 0 => chain = <<>>
  /\ phase = "repair" =>
       lastSeq < Len(journal) /\ journal[lastSeq + 1].file = kept
  /\ phase = "sweep" =>
       /\ \A i \in 1..lastSeq : journal[i].file <= kept
       /\ \A i \in (lastSeq + 1)..Len(journal) : journal[i].file > kept
  /\ phase = "stamp" =>
       \A i \in (lastSeq + 1)..Len(journal) : journal[i].file \in unremoved

\* Boots follow one another, under the trust set of the first.
Boots ==
  /\ \A e \in served \cup writers : e <= head.epoch
  /\ head # NoHead => head.epoch > 0
  /\ phase \in Opening =>
       /\ boot.epoch = head.epoch + 1 /\ boot.trust \in TrustSet
       /\ head # NoHead => boot.trust = head.trust
  /\ phase = "ready" => boot = head /\ boot.epoch > 0

\* The segment appends go to is the last, and the number of segments is
\* bounded by the counter that a rotation checks.
Segments ==
  /\ IsFiniteSet(DOMAIN files)
  /\ Cardinality(DOMAIN files) <= MaxSegments + 1
  /\ phase = "ready" =>
       /\ \A f \in DOMAIN files : f <= segment
       /\ Cardinality(DOMAIN files \cup {segment}) <= MaxSegments + 1
       /\ Cardinality(DOMAIN files \cup {segment}) <= segmentCount + 1

\* Without a failed write only the last chunk may be torn, and only while no
\* process serves.
Undisturbed ==
  faults = 0 =>
    /\ \A i \in 1..Len(journal) :
         /\ journal[i].seq = i
         /\ i < Len(journal) => Whole(journal[i])
    /\ \A a \in acked :
         /\ a[1] \in 1..Len(journal) /\ Whole(journal[a[1]])
         /\ journal[a[1]].payload = a[2]
    /\ phase = "repair" => lastSeq + 1 = Len(journal) /\ ~Whole(journal[Len(journal)])
    /\ phase \in {"sweep", "stamp", "ready"} => lastSeq = Len(journal)
    /\ phase = "ready" => \A i \in 1..Len(journal) : Whole(journal[i])

\* Without a failed write the counters are those of the directory.
Counted ==
  faults = 0 =>
    /\ \A f \in DOMAIN files : files[f] <= MaxSegmentBytes
    /\ StoredBytes <= MaxJournalBytes
    /\ phase = "ready" =>
         /\ retained = StoredBytes
         /\ segmentBytes = IF segment \in DOMAIN files THEN files[segment] ELSE 0

\* What the chunk after the first k links to.
LinkAfter(k) == IF k = 0 THEN <<>> ELSE ChainOf(journal[k])

\* While one incarnation wrote it all, every chunk links to the one before.
Linked ==
  /\ writers = {} => Len(journal) = 0
  /\ (faults = 0 /\ \E e : writers \subseteq {e}) =>
       \A i \in 1..Len(journal) : journal[i].link = LinkAfter(i - 1)
  /\ (faults = 0 /\ phase = "ready" /\ writers \subseteq {boot.epoch}) =>
       chain = LinkAfter(Len(journal))

LedgerInv ==
  TypeOK /\ Layout /\ Recovery /\ Boots /\ Segments /\ Undisturbed /\ Counted /\ Linked

-----------------------------------------------------------------------------
(* Types *)

\* What the proofs use of the types.
LEMMA Typed ==
  ASSUME TypeOK
  PROVE  /\ Len(journal) \in Nat /\ DOMAIN journal = 1..Len(journal)
         /\ \A i \in 1..Len(journal) : journal[i] \in Chunk
         /\ \A i \in 1..Len(journal) : FrameBytes(journal[i].payload) \in Nat
         /\ \A p \in Payload : FrameBytes(p) \in Nat /\ FrameBytes(p) > 0
<1>1. \A p \in Payload : FrameBytes(p) \in Nat /\ FrameBytes(p) > 0
  BY LedgerAssumption DEF FrameBytes
<1>2. /\ Len(journal) \in Nat /\ DOMAIN journal = 1..Len(journal)
      /\ \A i \in 1..Len(journal) : journal[i] \in Chunk
  BY DEF TypeOK
<1>3. \A c \in Chunk : c.payload \in Payload
  BY DEF Chunk
<1> QED BY <1>1, <1>2, <1>3

\* The journal without the chunks after `first' up to `last'.
LEMMA Removed ==
  ASSUME TypeOK, NEW first \in lastSeq..Len(journal), NEW last \in first..Len(journal)
  PROVE  /\ WithoutTail(first, last) \in Seq(Chunk)
         /\ Len(WithoutTail(first, last)) = Len(journal) - (last - first)
         /\ \A i \in 1..first : WithoutTail(first, last)[i] = journal[i]
         /\ \A i \in (first + 1)..Len(WithoutTail(first, last)) :
              WithoutTail(first, last)[i] = journal[i + (last - first)]
<1> DEFINE a == SubSeq(journal, 1, first)
           b == SubSeq(journal, last + 1, Len(journal))
<1>1. journal \in Seq(Chunk) /\ first \in Nat /\ Len(journal) \in Nat
  BY DEF TypeOK
<1>2. /\ a \in Seq(Chunk) /\ Len(a) = first
      /\ \A i \in 1..first : a[i] = journal[i]
  BY <1>1, SubSeqProperties
<1>3. /\ b \in Seq(Chunk) /\ Len(b) = Len(journal) - last
      /\ \A i \in 1..(Len(journal) - last) : b[i] = journal[last + i]
  BY <1>1, SubSeqProperties
<1> HIDE DEF a, b
<1>4. /\ a \o b \in Seq(Chunk) /\ Len(a \o b) = Len(a) + Len(b)
      /\ \A i \in 1..Len(a) : (a \o b)[i] = a[i]
      /\ \A i \in (Len(a) + 1)..(Len(a) + Len(b)) : (a \o b)[i] = b[i - Len(a)]
  <2>1. /\ a \o b \in Seq(Chunk) /\ Len(a \o b) = Len(a) + Len(b)
        /\ \A i \in 1..(Len(a) + Len(b)) :
             (a \o b)[i] = IF i <= Len(a) THEN a[i] ELSE b[i - Len(a)]
    BY <1>2, <1>3, ConcatProperties
  <2>2. Len(a) \in Nat /\ Len(b) \in Nat
    BY <1>1, <1>2, <1>3
  <2> QED BY <2>1, <2>2
<1>5. WithoutTail(first, last) = a \o b
  BY DEF WithoutTail, a, b
<1>6. ASSUME NEW i \in (first + 1)..(Len(a) + Len(b))
      PROVE  (a \o b)[i] = journal[i + (last - first)]
  <2>1. (a \o b)[i] = b[i - first] /\ i - first \in 1..(Len(journal) - last)
    BY <1>1, <1>2, <1>3, <1>4
  <2>2. last + (i - first) = i + (last - first)
    BY <1>1
  <2> QED BY <1>3, <2>1, <2>2
<1>7. /\ Len(a) + Len(b) = Len(journal) - (last - first)
      /\ \A i \in 1..first : (a \o b)[i] = journal[i]
  BY <1>1, <1>2, <1>3, <1>4
<1> QED BY <1>4, <1>5, <1>6, <1>7

\* What WriteBytes leaves in the directory.
LEMMA Written ==
  ASSUME TypeOK, NEW p \in Payload, NEW n \in 0..FrameBytes(p), WriteBytes(p, n)
  PROVE  LET f == TargetSegment(p)
             size == IF f \in DOMAIN files THEN files[f] ELSE 0
             frame == [file |-> f, off |-> size, bytes |-> n,
                       seq |-> lastSeq + 1, payload |-> p, link |-> chain]
         IN  /\ f \in Nat /\ f >= segment /\ size \in Nat /\ frame \in Chunk
             /\ DOMAIN files' = DOMAIN files \cup {f}
             /\ files'[f] = size + n
             /\ \A g \in DOMAIN files \ {f} : files'[g] = files[g]
             /\ n = 0 => journal' = journal /\ writers' = writers
             /\ n # 0 => /\ Len(journal') = Len(journal) + 1
                         /\ journal'[Len(journal) + 1] = frame
                         /\ \A i \in 1..Len(journal) : journal'[i] = journal[i]
                         /\ writers' = writers \cup {boot.epoch}
             /\ journal' \in Seq(Chunk)
             /\ DOMAIN files' \subseteq Nat
             /\ \A g \in DOMAIN files' : files'[g] \in Nat
<1> DEFINE f == TargetSegment(p)
           size == IF f \in DOMAIN files THEN files[f] ELSE 0
           frame == [file |-> f, off |-> size, bytes |-> n,
                     seq |-> lastSeq + 1, payload |-> p, link |-> chain]
<1>1. f \in Nat /\ f >= segment
  BY DEF TypeOK, TargetSegment
<1>2. size \in Nat /\ n \in Nat
  BY Typed DEF TypeOK
<1>3. frame \in Chunk
  BY <1>1, <1>2 DEF TypeOK, Chunk
<1>4. /\ files' = [g \in DOMAIN files \cup {f} |-> IF g = f THEN size + n ELSE files[g]]
      /\ journal' = IF n = 0 THEN journal ELSE Append(journal, frame)
      /\ writers' = IF n = 0 THEN writers ELSE writers \cup {boot.epoch}
  BY DEF WriteBytes
<1>5. journal \in Seq(Chunk)
  BY DEF TypeOK
<1> HIDE DEF f, size, frame
<1>6. /\ Append(journal, frame) \in Seq(Chunk)
      /\ Len(Append(journal, frame)) = Len(journal) + 1
      /\ Append(journal, frame)[Len(journal) + 1] = frame
      /\ \A i \in 1..Len(journal) : Append(journal, frame)[i] = journal[i]
  BY <1>3, <1>5, AppendProperties
<1>7. /\ DOMAIN files' = DOMAIN files \cup {f}
      /\ files'[f] = size + n
      /\ \A g \in DOMAIN files \ {f} : files'[g] = files[g]
  BY <1>4
<1>8. /\ DOMAIN files' \subseteq Nat
      /\ \A g \in DOMAIN files' : files'[g] \in Nat
  BY <1>1, <1>2, <1>7 DEF TypeOK
<1>9. /\ n = 0 => journal' = journal /\ writers' = writers
      /\ n # 0 => /\ Len(journal') = Len(journal) + 1
                  /\ journal'[Len(journal) + 1] = frame
                  /\ \A i \in 1..Len(journal) : journal'[i] = journal[i]
                  /\ writers' = writers \cup {boot.epoch}
      /\ journal' \in Seq(Chunk)
  BY <1>4, <1>5, <1>6
<1> QED BY <1>1, <1>2, <1>3, <1>7, <1>8, <1>9 DEF f, size, frame

\* Forget leaves the memory of a process that has not started.
LEMMA ForgetTyped ==
  ASSUME Forget
  PROVE  /\ phase' = "down" /\ boot' \in HeadRecord /\ lastSeq' \in Nat
         /\ chain' \in Digest /\ segment' \in Nat /\ segmentBytes' \in Nat
         /\ segmentCount' \in Nat /\ retained' \in Nat /\ kept' \in Nat
         /\ unremoved' = {}
BY DEF Forget, HeadRecord, NoHead, Digest

LEMMA CountersTyped ==
  ASSUME TypeOK, NEW p \in Payload
  PROVE  /\ TargetSegment(p) \in Nat /\ BytesInTarget(p) \in Nat
         /\ CountWithTarget(p) \in Nat
BY DEF TypeOK, TargetSegment, BytesInTarget, CountWithTarget

-----------------------------------------------------------------------------
(* Ledger::open keeps the invariant *)

LEMMA InitInv == Init => LedgerInv
<1> SUFFICES ASSUME Init PROVE LedgerInv
  OBVIOUS
<1> USE DEF Init
<1>1. DOMAIN files = {} /\ Len(journal) = 0 /\ IsFiniteSet({}) /\ Cardinality({}) = 0
  BY FS_EmptySet
<1>2. TypeOK
  BY <1>1, LedgerAssumption DEF TypeOK, HeadRecord, NoHead, Digest
<1>3. StoredBytes = 0
  <2>1. StoredBytes = Part(files, {})
    BY <1>1, StoredIsPart
  <2> QED BY <1>1, <2>1, PartUnfold
<1>4. Layout /\ Recovery
  BY <1>1 DEF Layout, Recovery, Opening
<1>5. Boots
  BY DEF Boots, NoHead, Opening
<1>6. Segments /\ Undisturbed
  BY <1>1, LedgerAssumption DEF Segments, Undisturbed
<1>7. Counted /\ Linked
  BY <1>1, <1>3, LedgerAssumption DEF Counted, Linked
<1> QED BY <1>2, <1>4, <1>5, <1>6, <1>7 DEF LedgerInv

\* Steps that leave the segments alone and are not those of a serving process.
LEMMA DiskSame ==
  ASSUME LedgerInv, UNCHANGED <<journal, files, writers, faults>>, phase' # "ready"
  PROVE  Layout' /\ Segments' /\ Counted' /\ Linked'
<1>1. Layout'
  BY DEF LedgerInv, Layout, BelongsTo
<1>2. Segments'
  BY DEF LedgerInv, Segments
<1>3. Counted'
  BY StoredSame DEF LedgerInv, Counted
<1>4. Linked'
  BY DEF LedgerInv, Linked, LinkAfter, ChainOf
<1> QED BY <1>1, <1>2, <1>3, <1>4

\* A refused open changes nothing but the phase.
LEMMA RefuseKeeps ==
  ASSUME LedgerInv, NEW t \in TrustSet, OpenRefuses(t)
  PROVE  LedgerInv'
<1>1. /\ phase' = "refused" /\ phase \in {"down", "refused"}
      /\ UNCHANGED <<head, journal, files, boot, lastSeq, chain, segment, segmentBytes,
                     segmentCount, retained, kept, unremoved, acked, served, writers, faults>>
  BY DEF OpenRefuses, disk, layout, observed
<1>2. TypeOK'
  BY <1>1 DEF LedgerInv, TypeOK
<1>3. Recovery' /\ Boots' /\ Undisturbed'
  BY <1>1 DEF LedgerInv, Recovery, Boots, Undisturbed, Opening, Whole
<1>4. Layout' /\ Segments' /\ Counted' /\ Linked'
  BY <1>1, DiskSame
<1> QED BY <1>2, <1>3, <1>4 DEF LedgerInv

\* The scan accepts what is sound; without a failed write all but a torn last
\* chunk is whole.
LEMMA ScanKeeps ==
  ASSUME LedgerInv, NEW t \in TrustSet, NEW k \in 0..Len(journal), OpenScan(t, k)
  PROVE  LedgerInv'
<1> USE DEF LedgerInv
<1>1. /\ phase \in {"down", "refused"} /\ ~DirectoryRefused(t)
      /\ ScanAccepts(k) /\ ~ScanRefuses(k)
      /\ boot' = NextBoot(t) /\ lastSeq' = k /\ chain' = RecoveredChain(k)
      /\ k < Len(journal) => phase' = "repair" /\ kept' = journal[k + 1].file
      /\ k = Len(journal) => phase' = "stamp" /\ kept' = 0
      /\ UNCHANGED <<head, journal, files, segment, segmentBytes,
                     segmentCount, retained, unremoved, acked, served, writers, faults>>
  BY DEF OpenScan, disk, layout, observed
<1>2. Len(journal) \in Nat /\ k \in Nat
  BY Typed
<1>3. CASE k < Len(journal)
  <2>1. phase' = "repair" /\ kept' = journal[k + 1].file /\ journal[k + 1] \in Chunk
    <3>1. k + 1 \in 1..Len(journal)
      BY <1>2, <1>3
    <3>2. journal[k + 1] \in Chunk
      BY <3>1, Typed
    <3> QED BY <1>1, <1>3, <3>2
  <2>2. Truncated(k + 1)
    BY <1>1, <1>3 DEF ScanRefuses
  <2>3. TypeOK'
    <3>1. boot' \in HeadRecord
      BY <1>1 DEF NextBoot, HeadRecord, TypeOK
    <3>2. chain' \in Digest
      <4>1. k # 0 => journal[k] \in Chunk
        BY Typed
      <4> QED BY <1>1, <4>1 DEF RecoveredChain, Chunk, Digest
    <3>3. kept' \in Nat
      BY <2>1 DEF Chunk
    <3> QED BY <1>1, <1>2, <2>1, <3>1, <3>2, <3>3 DEF TypeOK
  <2>4. Recovery'
    BY <1>1, <1>2, <1>3, <2>1 DEF Recovery, Opening, ScanAccepts, Sound, Whole, ChainOf,
       RecoveredChain
  <2>5. Undisturbed'
    <3>1. ~Whole(journal[k + 1])
      BY <2>2 DEF Truncated
    <3>2. faults = 0 => k + 1 = Len(journal)
      BY <1>2, <1>3, <3>1 DEF Undisturbed
    <3> QED BY <1>1, <1>2, <2>1, <3>1, <3>2 DEF Undisturbed, Whole
  <2>6. Boots'
    BY <1>1, <2>1 DEF Boots, Opening, NextBoot, DirectoryRefused, TypeOK, HeadRecord
  <2>7. Layout' /\ Segments' /\ Counted' /\ Linked'
    BY <1>1, <2>1, DiskSame
  <2> QED BY <2>3, <2>4, <2>5, <2>6, <2>7
<1>4. CASE k = Len(journal)
  <2>1. phase' = "stamp" /\ kept' = 0
    BY <1>1, <1>4
  <2>3. TypeOK'
    <3>1. boot' \in HeadRecord
      BY <1>1 DEF NextBoot, HeadRecord, TypeOK
    <3>2. chain' \in Digest
      <4>1. k # 0 => journal[k] \in Chunk
        BY Typed
      <4> QED BY <1>1, <4>1 DEF RecoveredChain, Chunk, Digest
    <3> QED BY <1>1, <1>2, <2>1, <3>1, <3>2 DEF TypeOK
  <2>4. Recovery'
    BY <1>1, <1>2, <1>4, <2>1 DEF Recovery, Opening, ScanAccepts, Sound, Whole, ChainOf,
       RecoveredChain
  <2>5. Undisturbed'
    BY <1>1, <1>2, <1>4, <2>1 DEF Undisturbed, Whole
  <2>6. Boots'
    BY <1>1, <2>1 DEF Boots, Opening, NextBoot, DirectoryRefused, TypeOK, HeadRecord
  <2>7. Layout' /\ Segments' /\ Counted' /\ Linked'
    BY <1>1, <2>1, DiskSame
  <2> QED BY <2>3, <2>4, <2>5, <2>6, <2>7
<1> QED BY <1>2, <1>3, <1>4

\* Chunks are taken out behind the accepted ones: what is left still lies in
\* order and covers what is left of the segments.
LEMMA CutKeepsLayout ==
  ASSUME LedgerInv, phase \in Opening,
         NEW first \in lastSeq..Len(journal), NEW last \in first..Len(journal),
         journal' = WithoutTail(first, last),
         \A i \in 1..Len(journal) : (i <= first \/ i > last) =>
           /\ journal[i].file \in DOMAIN files'
           /\ journal[i].off + journal[i].bytes <= files'[journal[i].file],
         \A f \in DOMAIN files' : /\ f \in DOMAIN files /\ files'[f] \in Nat
                                  /\ files'[f] <= files[f],
         \A i \in (first + 1)..last : journal[i].file \in DOMAIN files' =>
           files'[journal[i].file] <= journal[i].off
  PROVE  Layout'
<1> USE DEF LedgerInv
<1> DEFINE old(i) == IF i <= first THEN i ELSE i + (last - first)
<1>1. Len(journal) \in Nat /\ first \in Nat /\ last \in Nat /\ first <= last
  BY Typed DEF TypeOK
<1>2. /\ journal' \in Seq(Chunk)
      /\ Len(journal') = Len(journal) - (last - first)
  BY Removed
<1>3. \A i \in 1..Len(journal') : /\ old(i) \in 1..Len(journal)
                                  /\ old(i) <= first \/ old(i) > last
                                  /\ journal'[i] = journal[old(i)]
  <2> SUFFICES ASSUME NEW i \in 1..Len(journal')
               PROVE  /\ old(i) \in 1..Len(journal)
                      /\ old(i) <= first \/ old(i) > last
                      /\ journal'[i] = journal[old(i)]
    OBVIOUS
  <2>1. old(i) \in 1..Len(journal) /\ (old(i) <= first \/ old(i) > last)
    BY <1>1, <1>2
  <2>2. CASE i <= first
    <3>1. i \in 1..first
      BY <1>1, <2>2
    <3> QED BY <2>1, <2>2, <3>1, Removed
  <2>3. CASE i > first
    <3>1. i \in (first + 1)..Len(WithoutTail(first, last)) /\ ~(i <= first)
      BY <1>1, <1>2, <2>3
    <3> QED BY <2>1, <3>1, Removed
  <2> QED BY <1>1, <1>2, <2>2, <2>3
<1>4. \A i, j \in 1..Len(journal') : i < j => old(i) < old(j)
  BY <1>1, <1>2
<1>5. \A k \in 1..Len(journal) : (k <= first \/ k > last) =>
        \E i \in 1..Len(journal') : old(i) = k
  <2> SUFFICES ASSUME NEW k \in 1..Len(journal), k <= first \/ k > last
               PROVE  \E i \in 1..Len(journal') : old(i) = k
    OBVIOUS
  <2>1. CASE k <= first
    <3>1. k \in 1..Len(journal') /\ old(k) = k
      BY <1>1, <1>2, <2>1
    <3> QED BY <3>1
  <2>2. CASE k > last
    <3>1. k - (last - first) \in 1..Len(journal') /\ old(k - (last - first)) = k
      BY <1>1, <1>2, <2>2
    <3> QED BY <3>1
  <2> QED BY <2>1, <2>2
<1> HIDE DEF old
<1>6. \A i \in 1..Len(journal') :
        /\ journal'[i].file \in DOMAIN files'
        /\ journal'[i].off \in Nat
        /\ journal'[i].bytes \in 1..FrameBytes(journal'[i].payload)
        /\ journal'[i].off + journal'[i].bytes <= files'[journal'[i].file]
  BY <1>3 DEF Layout
<1>7. \A i, j \in 1..Len(journal') : i < j =>
        /\ journal'[i].file <= journal'[j].file
        /\ journal'[i].file = journal'[j].file =>
             journal'[i].off + journal'[i].bytes <= journal'[j].off
  <2>1. \A k, l \in 1..Len(journal) : k < l =>
          /\ journal[k].file <= journal[l].file
          /\ journal[k].file = journal[l].file =>
               journal[k].off + journal[k].bytes <= journal[l].off
    BY DEF Layout
  <2> SUFFICES ASSUME NEW i \in 1..Len(journal'), NEW j \in 1..Len(journal'), i < j
               PROVE  /\ journal'[i].file <= journal'[j].file
                      /\ journal'[i].file = journal'[j].file =>
                           journal'[i].off + journal'[i].bytes <= journal'[j].off
    OBVIOUS
  <2>2. old(i) < old(j) /\ old(i) \in 1..Len(journal) /\ old(j) \in 1..Len(journal)
    BY <1>3, <1>4
  <2>3. journal'[i] = journal[old(i)] /\ journal'[j] = journal[old(j)]
    BY <1>3
  <2> QED BY <2>1, <2>2, <2>3
<1>8. ASSUME NEW f \in DOMAIN files', NEW b \in 0..(files'[f] - 1)
      PROVE  BelongsTo(f, b, Len(journal))'
  <2>1. f \in DOMAIN files /\ files[f] \in Nat /\ b \in 0..(files[f] - 1) /\ b < files'[f]
    BY <1>8 DEF TypeOK
  <2>2. BelongsTo(f, b, Len(journal))
    BY <2>1 DEF Layout
  <2>3. PICK k \in 1..Len(journal) :
          /\ journal[k].file = f
          /\ journal[k].off <= b /\ b < journal[k].off + journal[k].bytes
    BY <2>2, Typed DEF BelongsTo
  <2>4. k <= first \/ k > last
    <3>1. SUFFICES ASSUME k \in (first + 1)..last PROVE FALSE
      BY <1>1
    <3>2. files'[f] <= journal[k].off
      BY <2>3, <3>1
    <3>3. journal[k].off \in Nat /\ files'[f] \in Nat
      BY DEF Layout
    <3> QED BY <2>1, <2>3, <3>2, <3>3
  <2>5. PICK i \in 1..Len(journal') : old(i) = k
    BY <1>5, <2>4
  <2>6. journal'[i] = journal[k]
    BY <1>3, <2>5
  <2> QED BY <2>3, <2>6 DEF BelongsTo
<1> QED BY <1>6, <1>7, <1>8 DEF Layout

\* Chunks are taken out behind the accepted ones: the accepted ones stay, and
\* with them the links.
LEMMA CutKeepsRest ==
  ASSUME LedgerInv, phase \in Opening,
         NEW first \in lastSeq..Len(journal), NEW last \in first..Len(journal),
         journal' = WithoutTail(first, last),
         UNCHANGED <<head, boot, lastSeq, chain, segment, segmentBytes, segmentCount,
                     retained, kept, acked, served, writers, faults>>,
         phase' = "sweep",
         faults = 0 => first = lastSeq /\ last = Len(journal)
  PROVE  /\ \A i \in 1..lastSeq : Sound(i)'
         /\ lastSeq <= Len(journal')
         /\ Boots' /\ Undisturbed' /\ Linked'
<1> USE DEF LedgerInv
<1>1. Len(journal) \in Nat /\ lastSeq \in Nat /\ first \in Nat /\ last \in Nat
      /\ lastSeq <= first /\ first <= last /\ last <= Len(journal)
  BY Typed DEF TypeOK
<1>2. /\ journal' \in Seq(Chunk) /\ Len(journal') \in Nat
      /\ Len(journal') = Len(journal) - (last - first)
      /\ \A i \in 1..lastSeq : journal'[i] = journal[i]
  <2>1. /\ journal' \in Seq(Chunk) /\ Len(journal') = Len(journal) - (last - first)
        /\ \A i \in 1..first : journal'[i] = journal[i]
    BY Removed
  <2>2. \A i \in 1..lastSeq : i \in 1..first
    BY <1>1
  <2> QED BY <1>1, <2>1, <2>2
<1>3. lastSeq <= Len(journal')
  BY <1>1, <1>2
<1>4. ASSUME NEW i \in 1..lastSeq PROVE Sound(i)'
  <2>1. Sound(i)
    BY DEF Recovery
  <2>2. journal'[i] = journal[i] /\ (i # 1 => journal'[i - 1] = journal[i - 1])
    BY <1>1, <1>2
  <2> QED BY <2>1, <2>2 DEF Sound, Whole, ChainOf
<1>5. Boots'
  BY DEF Boots, Opening
<1>6. faults = 0 => Len(journal') = lastSeq
  BY <1>1, <1>2
<1>7. \A i \in 1..lastSeq : Whole(journal[i])
  BY DEF Recovery, Sound
<1>8. Undisturbed'
  <2> SUFFICES ASSUME faults = 0 PROVE Undisturbed'
    BY DEF Undisturbed
  <2>1. Len(journal') = lastSeq
    BY <1>6
  <2>2. \A i \in 1..lastSeq : journal'[i].seq = i /\ Whole(journal'[i])
    BY <1>1, <1>2, <1>7 DEF Undisturbed
  <2>3. ASSUME NEW a \in acked
        PROVE  a[1] \in 1..lastSeq /\ Whole(journal'[a[1]]) /\ journal'[a[1]].payload = a[2]
    <3>1. a[1] \in 1..Len(journal) /\ Whole(journal[a[1]]) /\ journal[a[1]].payload = a[2]
      BY DEF Undisturbed
    <3>2. a[1] <= lastSeq
      BY <1>1, <3>1 DEF Undisturbed, Opening
    <3> QED BY <1>1, <1>2, <3>1, <3>2
  <2> QED BY <2>1, <2>2, <2>3 DEF Undisturbed, Whole
<1>9. Linked'
  <2>1. writers = {} => Len(journal') = 0
    BY <1>1, <1>2 DEF Linked
  <2>2. (faults = 0 /\ \E e : writers \subseteq {e}) =>
          \A i \in 1..Len(journal') : journal'[i].link = LinkAfter(i - 1)'
    <3> SUFFICES ASSUME faults = 0, \E e : writers \subseteq {e},
                        NEW i \in 1..Len(journal')
                 PROVE  journal'[i].link = LinkAfter(i - 1)'
      OBVIOUS
    <3>1. i \in 1..lastSeq /\ i \in 1..Len(journal)
      BY <1>1, <1>6
    <3>2. journal[i].link = LinkAfter(i - 1)
      BY <3>1 DEF Linked
    <3>3. journal'[i] = journal[i] /\ (i - 1 # 0 => journal'[i - 1] = journal[i - 1])
      BY <1>1, <1>2, <3>1
    <3> QED BY <3>2, <3>3 DEF LinkAfter, ChainOf
  <2> QED BY <2>1, <2>2 DEF Linked
<1> QED BY <1>3, <1>4, <1>5, <1>8, <1>9

\* truncate_file on the torn segment.
LEMMA TruncateKeeps ==
  ASSUME LedgerInv, NEW last \in 0..Len(journal), TruncateTail(last)
  PROVE  LedgerInv'
<1> USE DEF LedgerInv
<1>1. /\ phase = "repair" /\ phase' = "sweep" /\ TailOf(kept, lastSeq, last)
      /\ journal' = WithoutTail(lastSeq, last)
      /\ files' = [files EXCEPT ![kept] = ValidBytes]
      /\ UNCHANGED <<head, boot, lastSeq, chain, segment, segmentBytes, segmentCount,
                     retained, kept, unremoved, acked, served, writers, faults>>
  BY DEF TruncateTail, layout, observed
<1>2. /\ Len(journal) \in Nat /\ lastSeq \in Nat /\ last \in lastSeq..Len(journal)
      /\ last \in Nat /\ lastSeq \in lastSeq..Len(journal)
  BY <1>1, Typed DEF TypeOK, TailOf
<1>3. /\ lastSeq + 1 \in 1..Len(journal) /\ journal[lastSeq + 1].file = kept
      /\ kept \in DOMAIN files
  BY <1>1, <1>2 DEF Recovery, Layout
<1>4. /\ \A i \in (lastSeq + 1)..last : journal[i].file = kept
      /\ last < Len(journal) => journal[last + 1].file # kept
  BY <1>1, <1>2 DEF TailOf
<1>5. last > lastSeq
  BY <1>1, <1>2, <1>3 DEF TailOf
<1>6. \A i \in 1..Len(journal) : journal[i].file \in Nat
  BY Typed DEF Chunk
<1>7. \A i, j \in 1..Len(journal) : i < j =>
        /\ journal[i].file <= journal[j].file
        /\ journal[i].file = journal[j].file =>
             journal[i].off + journal[i].bytes <= journal[j].off
  BY DEF Layout
<1>8. \A i \in 1..Len(journal) : i > last => journal[i].file > kept
  <2> SUFFICES ASSUME NEW i \in 1..Len(journal), i > last PROVE journal[i].file > kept
    OBVIOUS
  <2>1. last + 1 \in 1..Len(journal) /\ lastSeq + 1 < last + 1
    BY <1>2, <1>5
  <2>2. journal[last + 1].file > kept
    BY <1>2, <1>3, <1>4, <1>6, <1>7, <2>1
  <2>3. CASE i = last + 1
    BY <2>2, <2>3
  <2>4. CASE i > last + 1
    <3>1. journal[last + 1].file <= journal[i].file
      BY <1>7, <2>1, <2>4
    <3>2. kept \in Nat
      BY <1>3, <1>6
    <3> QED BY <1>6, <2>1, <2>2, <3>1, <3>2
  <2> QED BY <1>2, <2>3, <2>4
<1>9. ValidBytes \in Nat /\ ValidBytes <= files[kept]
  <2>1. /\ journal[lastSeq + 1].off \in Nat
        /\ journal[lastSeq + 1].bytes \in Nat
        /\ journal[lastSeq + 1].off + journal[lastSeq + 1].bytes <= files[kept]
    BY <1>3, Typed DEF Layout, Chunk
  <2>2. files[kept] \in Nat
    BY <1>3 DEF TypeOK
  <2> QED BY <2>1, <2>2 DEF ValidBytes
<1>10. /\ DOMAIN files' = DOMAIN files /\ files'[kept] = ValidBytes
       /\ \A f \in DOMAIN files : f # kept => files'[f] = files[f]
  BY <1>1, <1>3
<1>11. Layout'
  <2>1. ASSUME NEW i \in 1..Len(journal), i <= lastSeq \/ i > last
        PROVE  /\ journal[i].file \in DOMAIN files'
               /\ journal[i].off + journal[i].bytes <= files'[journal[i].file]
    <3>1. /\ journal[i].file \in DOMAIN files
          /\ journal[i].off + journal[i].bytes <= files[journal[i].file]
      BY DEF Layout
    <3>2. CASE journal[i].file # kept
      BY <1>10, <3>1, <3>2
    <3>3. CASE journal[i].file = kept
      <4>1. i < lastSeq + 1
        BY <1>2, <1>3, <1>6, <1>8, <2>1, <3>3
      <4>2. journal[i].off + journal[i].bytes <= journal[lastSeq + 1].off
        BY <1>3, <1>7, <3>3, <4>1
      <4> QED BY <1>10, <3>1, <3>3, <4>2 DEF ValidBytes
    <3> QED BY <3>2, <3>3
  <2>2. \A f \in DOMAIN files' : /\ f \in DOMAIN files /\ files'[f] \in Nat
                                 /\ files'[f] <= files[f]
    BY <1>9, <1>10 DEF TypeOK
  <2>3. ASSUME NEW i \in (lastSeq + 1)..last, journal[i].file \in DOMAIN files'
        PROVE  files'[journal[i].file] <= journal[i].off
    <3>1. i \in 1..Len(journal) /\ journal[i].file = kept
      BY <1>2, <1>4, <2>3
    <3>2. i # lastSeq + 1 =>
            journal[lastSeq + 1].off + journal[lastSeq + 1].bytes <= journal[i].off
      <4>1. i # lastSeq + 1 => lastSeq + 1 < i
        BY <1>2
      <4> QED BY <1>3, <1>7, <3>1, <4>1
    <3>3. /\ journal[lastSeq + 1].off \in Nat /\ journal[lastSeq + 1].bytes \in Nat
          /\ journal[i].off \in Nat
      BY <1>3, <3>1, Typed DEF Layout, Chunk
    <3> QED BY <1>10, <3>1, <3>2, <3>3 DEF ValidBytes
  <2>4. phase \in Opening
    BY <1>1 DEF Opening
  <2> QED BY <1>1, <1>2, <2>1, <2>2, <2>3, <2>4, CutKeepsLayout
<1>12. faults = 0 => last = Len(journal)
  BY <1>1, <1>2, <1>5 DEF Undisturbed
<1>13. /\ \A i \in 1..lastSeq : Sound(i)'
       /\ lastSeq <= Len(journal')
       /\ Boots' /\ Undisturbed' /\ Linked'
  BY <1>1, <1>2, <1>12, CutKeepsRest DEF Opening
<1>14. TypeOK'
  <2>1. journal' \in Seq(Chunk)
    BY <1>1, <1>2, Removed
  <2>2. DOMAIN files' \subseteq Nat /\ \A f \in DOMAIN files' : files'[f] \in Nat
    BY <1>9, <1>10 DEF TypeOK
  <2> QED BY <1>1, <2>1, <2>2 DEF TypeOK
<1>15. Recovery'
  <2>1. \A i \in 1..lastSeq : journal'[i].file <= kept
    <3> SUFFICES ASSUME NEW i \in 1..lastSeq PROVE journal'[i].file <= kept
      OBVIOUS
    <3>1. journal'[i] = journal[i] /\ i < lastSeq + 1 /\ i \in 1..Len(journal)
      BY <1>1, <1>2, <1>3, Removed
    <3> QED BY <1>3, <1>7, <3>1
  <2>2. \A i \in (lastSeq + 1)..Len(journal') : journal'[i].file > kept
    <3> SUFFICES ASSUME NEW i \in (lastSeq + 1)..Len(journal') PROVE journal'[i].file > kept
      OBVIOUS
    <3>1. /\ journal'[i] = journal[i + (last - lastSeq)]
          /\ Len(journal') = Len(journal) - (last - lastSeq)
      BY <1>1, <1>2, Removed
    <3>2. i + (last - lastSeq) \in 1..Len(journal) /\ i + (last - lastSeq) > last
      BY <1>2, <3>1
    <3> QED BY <1>8, <3>1, <3>2
  <2> QED BY <1>1, <1>13, <2>1, <2>2 DEF Recovery, Opening
<1>16. Segments'
  BY <1>1, <1>10 DEF Segments
<1>17. Counted'
  <2>1. /\ StoredBytes \in Nat /\ StoredBytes' \in Nat
        /\ StoredBytes' = StoredBytes - files[kept] + ValidBytes
    <3>1. /\ IsFiniteSet(DOMAIN files) /\ IsFiniteSet(DOMAIN files')
          /\ \A f \in DOMAIN files : files[f] \in Nat
          /\ \A f \in DOMAIN files' : files'[f] \in Nat
          /\ kept \in DOMAIN files' /\ DOMAIN files \ {kept} = DOMAIN files' \ {kept}
          /\ \A f \in DOMAIN files \ {kept} : files[f] = files'[f]
      BY <1>3, <1>10, <1>14 DEF Segments, TypeOK
    <3>2. /\ Part(files, DOMAIN files) \in Nat /\ Part(files', DOMAIN files') \in Nat
          /\ Part(files', DOMAIN files') = Part(files, DOMAIN files) - files[kept] + files'[kept]
      BY <1>3, <3>1, PartUpdate
    <3> QED BY <1>10, <3>2, StoredIsPart
  <2>2. files[kept] \in Nat
    BY <1>3 DEF TypeOK
  <2>3. StoredBytes' <= StoredBytes
    BY <1>9, <2>1, <2>2
  <2>4. faults = 0 => StoredBytes' <= MaxJournalBytes
    BY <2>1, <2>3, LedgerAssumption DEF Counted
  <2>5. faults = 0 => \A f \in DOMAIN files' : files'[f] <= MaxSegmentBytes
    BY <1>9, <1>10, <2>2, LedgerAssumption DEF Counted
  <2> QED BY <1>1, <2>4, <2>5 DEF Counted
<1> QED BY <1>11, <1>13, <1>14, <1>15, <1>16, <1>17

\* remove_file on the first segment after the torn one that is left.
LEMMA RemoveKeeps ==
  ASSUME LedgerInv, NEW f \in DOMAIN files, NEW first \in 0..Len(journal),
         NEW last \in 0..Len(journal), RemoveExcess(f, first, last)
  PROVE  LedgerInv'
<1> USE DEF LedgerInv
<1>1. /\ phase = "sweep" /\ phase' = "sweep" /\ TailOf(f, first, last)
      /\ f > kept /\ f \notin unremoved
      /\ journal' = WithoutTail(first, last)
      /\ files' = [g \in DOMAIN files \ {f} |-> files[g]]
      /\ UNCHANGED <<head, boot, lastSeq, chain, segment, segmentBytes, segmentCount,
                     retained, kept, unremoved, acked, served, writers, faults>>
  BY DEF RemoveExcess, Excess, memory, layout, observed
<1>2. /\ Len(journal) \in Nat /\ lastSeq \in Nat /\ first \in lastSeq..Len(journal)
      /\ last \in first..Len(journal)
      /\ first \in Nat /\ last \in Nat /\ kept \in Nat /\ f \in Nat
  BY <1>1, Typed DEF TypeOK, TailOf
<1>3. \A i \in (lastSeq + 1)..Len(journal) :
        journal[i].file = f <=> i \in (first + 1)..last
  BY <1>1 DEF TailOf
<1>4. /\ \A i \in 1..lastSeq : journal[i].file <= kept
      /\ \A i \in (lastSeq + 1)..Len(journal) : journal[i].file > kept
  BY <1>1 DEF Recovery
<1>5. \A i \in 1..Len(journal) : journal[i].file \in DOMAIN files /\ journal[i].file \in Nat
  BY Typed DEF Layout, Chunk
<1>8. /\ DOMAIN files' = DOMAIN files \ {f}
      /\ \A g \in DOMAIN files \ {f} : files'[g] = files[g]
  BY <1>1
<1>9. \A i \in 1..Len(journal) : (i <= first \/ i > last) => journal[i].file # f
  <2> SUFFICES ASSUME NEW i \in 1..Len(journal), i <= first \/ i > last
               PROVE  journal[i].file # f
    OBVIOUS
  <2>1. CASE i <= lastSeq
    <3>1. i \in 1..lastSeq
      BY <1>2, <2>1
    <3> QED BY <1>1, <1>2, <1>4, <1>5, <3>1
  <2>2. CASE i > lastSeq
    <3>1. i \in (lastSeq + 1)..Len(journal) /\ i \notin (first + 1)..last
      BY <1>2, <2>2
    <3> QED BY <1>3, <3>1
  <2> QED BY <1>2, <2>1, <2>2
<1>10. Layout'
  <2>1. \A i \in 1..Len(journal) : (i <= first \/ i > last) =>
          /\ journal[i].file \in DOMAIN files'
          /\ journal[i].off + journal[i].bytes <= files'[journal[i].file]
    BY <1>8, <1>9 DEF Layout
  <2>2. \A g \in DOMAIN files' : /\ g \in DOMAIN files /\ files'[g] \in Nat
                                 /\ files'[g] <= files[g]
    BY <1>8 DEF TypeOK
  <2>3. \A i \in (first + 1)..last : journal[i].file \in DOMAIN files' =>
          files'[journal[i].file] <= journal[i].off
    BY <1>2, <1>3, <1>8
  <2>4. phase \in Opening
    BY <1>1 DEF Opening
  <2> QED BY <1>1, <1>2, <2>1, <2>2, <2>3, <2>4, CutKeepsLayout
<1>11. faults = 0 => first = lastSeq /\ last = Len(journal)
  BY <1>1, <1>2 DEF Undisturbed
<1>12. /\ \A i \in 1..lastSeq : Sound(i)'
       /\ lastSeq <= Len(journal')
       /\ Boots' /\ Undisturbed' /\ Linked'
  BY <1>1, <1>2, <1>11, CutKeepsRest DEF Opening
<1>13. TypeOK'
  <2>1. journal' \in Seq(Chunk)
    BY <1>1, <1>2, Removed
  <2>2. DOMAIN files' \subseteq Nat /\ \A g \in DOMAIN files' : files'[g] \in Nat
    BY <1>8 DEF TypeOK
  <2>3. unremoved' \subseteq DOMAIN files'
    BY <1>1, <1>8 DEF TypeOK
  <2> QED BY <1>1, <2>1, <2>2, <2>3 DEF TypeOK
<1>14. Recovery'
  <2>1. \A i \in 1..lastSeq : journal'[i].file <= kept
    <3>1. \A i \in 1..lastSeq : i \in 1..first
      BY <1>2
    <3> QED BY <1>1, <1>2, <1>4, <3>1, Removed
  <2>2. \A i \in (lastSeq + 1)..Len(journal') : journal'[i].file > kept
    <3> SUFFICES ASSUME NEW i \in (lastSeq + 1)..Len(journal') PROVE journal'[i].file > kept
      OBVIOUS
    <3>1. Len(journal') = Len(journal) - (last - first)
      BY <1>1, <1>2, Removed
    <3>2. CASE i <= first
      <4>1. i \in 1..first /\ i \in (lastSeq + 1)..Len(journal)
        BY <1>2, <3>2
      <4>2. journal'[i] = journal[i]
        BY <1>1, <1>2, <4>1, Removed
      <4> QED BY <1>4, <4>1, <4>2
    <3>3. CASE i > first
      <4>1. i \in (first + 1)..Len(journal')
        BY <1>2, <3>3
      <4>2. journal'[i] = journal[i + (last - first)]
        BY <1>1, <1>2, <4>1, Removed
      <4>3. i + (last - first) \in (lastSeq + 1)..Len(journal)
        BY <1>2, <3>1, <4>1
      <4> QED BY <1>4, <4>2, <4>3
    <3> QED BY <1>2, <3>2, <3>3
  <2> QED BY <1>1, <1>12, <2>1, <2>2 DEF Recovery, Opening
<1>15. /\ IsFiniteSet(DOMAIN files) /\ IsFiniteSet(DOMAIN files')
       /\ Cardinality(DOMAIN files') <= Cardinality(DOMAIN files)
       /\ Cardinality(DOMAIN files') \in Nat /\ Cardinality(DOMAIN files) \in Nat
  <2>1. IsFiniteSet(DOMAIN files) /\ DOMAIN files' \subseteq DOMAIN files
    BY <1>8 DEF Segments
  <2> QED BY <2>1, FS_Subset, FS_CardinalityType
<1>16. Segments'
  BY <1>1, <1>15, LedgerAssumption DEF Segments
<1>17. Counted'
  <2>1. /\ StoredBytes \in Nat /\ StoredBytes' \in Nat
        /\ StoredBytes = StoredBytes' + files[f]
    <3>1. /\ IsFiniteSet(DOMAIN files) /\ IsFiniteSet(DOMAIN files')
          /\ \A g \in DOMAIN files : files[g] \in Nat
          /\ \A g \in DOMAIN files' : files'[g] \in Nat
          /\ DOMAIN files' \ {f} = DOMAIN files \ {f} /\ f \notin DOMAIN files'
          /\ \A g \in DOMAIN files' \ {f} : files'[g] = files[g]
      BY <1>8, <1>13, <1>15 DEF TypeOK
    <3>2. /\ Part(files, DOMAIN files) \in Nat /\ Part(files', DOMAIN files') \in Nat
          /\ Part(files, DOMAIN files) = Part(files', DOMAIN files') + files[f]
      BY <3>1, PartUpdate
    <3> QED BY <3>2, StoredIsPart
  <2>2. files[f] \in Nat
    BY DEF TypeOK
  <2>3. faults = 0 => StoredBytes' <= MaxJournalBytes
    BY <2>1, <2>2, LedgerAssumption DEF Counted
  <2>4. faults = 0 => \A g \in DOMAIN files' : files'[g] <= MaxSegmentBytes
    BY <1>8 DEF Counted
  <2> QED BY <1>1, <2>3, <2>4 DEF Counted
<1> QED BY <1>10, <1>12, <1>13, <1>14, <1>16, <1>17

\* remove_file fails and the segment stays.
LEMMA RemoveFailsKeeps ==
  ASSUME LedgerInv, NEW f \in DOMAIN files, RemoveFails(f)
  PROVE  LedgerInv'
<1> USE DEF LedgerInv
<1>1. /\ phase = "sweep" /\ phase' = "sweep"
      /\ faults < MaxFaults /\ faults' = faults + 1
      /\ unremoved' = unremoved \cup {f}
      /\ UNCHANGED <<head, journal, files, boot, lastSeq, chain, segment, segmentBytes,
                     segmentCount, retained, kept, acked, served, writers>>
  BY DEF RemoveFails, disk, layout
<1>2. faults' \in 0..MaxFaults /\ faults' # 0
  BY <1>1, LedgerAssumption DEF TypeOK
<1>3. TypeOK'
  BY <1>1, <1>2 DEF TypeOK
<1>4. Recovery'
  BY <1>1 DEF Recovery, Opening, Sound, Whole, ChainOf
<1>5. Boots' /\ Segments'
  BY <1>1 DEF Boots, Opening, Segments
<1>6. Undisturbed' /\ Counted' /\ Linked'
  BY <1>1, <1>2 DEF Undisturbed, Counted, Linked
<1>7. Layout'
  BY <1>1 DEF Layout, BelongsTo
<1> QED BY <1>3, <1>4, <1>5, <1>6, <1>7

\* Once every segment after the torn one is gone or could not be removed, all
\* that is left behind the accepted chunks lies in those.
LEMMA RepairDoneKeeps ==
  ASSUME LedgerInv, RepairDone
  PROVE  LedgerInv'
<1> USE DEF LedgerInv
<1>1. /\ phase = "sweep" /\ phase' = "stamp"
      /\ \A g \in DOMAIN files : g > kept => g \in unremoved
      /\ UNCHANGED <<head, journal, files, boot, lastSeq, chain, segment, segmentBytes,
                     segmentCount, retained, kept, unremoved, acked, served, writers, faults>>
  BY DEF RepairDone, Excess, disk, layout, observed
<1>2. /\ \A i \in 1..lastSeq : Sound(i)
      /\ lastSeq <= Len(journal)
      /\ \A i \in (lastSeq + 1)..Len(journal) : journal[i].file \in unremoved
  <2>1. Len(journal) \in Nat /\ lastSeq \in Nat
    BY <1>1, Typed DEF TypeOK
  <2>2. /\ \A i \in 1..lastSeq : Sound(i)
        /\ lastSeq <= Len(journal)
        /\ \A i \in (lastSeq + 1)..Len(journal) : journal[i].file > kept
    BY <1>1 DEF Recovery, Opening
  <2>3. \A i \in (lastSeq + 1)..Len(journal) : i \in 1..Len(journal)
    BY <2>1
  <2>4. \A i \in (lastSeq + 1)..Len(journal) : journal[i].file \in DOMAIN files
    BY <2>3 DEF Layout
  <2> QED BY <1>1, <2>2, <2>4
<1>3. TypeOK'
  BY <1>1 DEF TypeOK
<1>4. Recovery'
  BY <1>1, <1>2 DEF Recovery, Opening, Sound, Whole, ChainOf
<1>5. Boots' /\ Undisturbed'
  BY <1>1 DEF Boots, Opening, Undisturbed, Whole
<1>6. Layout' /\ Segments' /\ Counted' /\ Linked'
  BY <1>1, DiskSame
<1> QED BY <1>3, <1>4, <1>5, <1>6

\* The head is written: the layout is read off the directory.
LEMMA WriteHeadKeeps ==
  ASSUME LedgerInv, NEW f \in {1} \cup DOMAIN files, WriteHead(f)
  PROVE  LedgerInv'
<1> USE DEF LedgerInv
<1>1. /\ phase = "stamp" /\ phase' = "ready" /\ LastFile(f)
      /\ segment' = f /\ segmentBytes' = (IF f \in DOMAIN files THEN files[f] ELSE 0)
      /\ segmentCount' = Cardinality(DOMAIN files) /\ retained' = StoredBytes
      /\ head' = boot /\ served' = served \cup {boot.epoch}
      /\ unremoved' = {}
      /\ UNCHANGED <<journal, files, boot, lastSeq, chain, kept, acked, writers, faults>>
  BY DEF WriteHead
<1>2. /\ Len(journal) \in Nat /\ lastSeq \in Nat /\ lastSeq <= Len(journal)
      /\ faults = 0 => lastSeq = Len(journal)
  BY <1>1, Typed DEF TypeOK, Recovery, Opening, Undisturbed
<1>3. IsFiniteSet(DOMAIN files) /\ Cardinality(DOMAIN files) \in Nat
  BY FS_CardinalityType DEF Segments
<1>4. StoredBytes \in Nat /\ StoredBytes' = StoredBytes
  <2>1. DOMAIN files \in SUBSET DOMAIN files
    OBVIOUS
  <2>2. Part(files, DOMAIN files) \in Nat
    BY <1>3, <2>1, PartAdd DEF TypeOK
  <2> QED BY <1>1, <2>2, StoredIsPart, StoredSame
<1>5. head.epoch \in Nat /\ boot.epoch \in Nat /\ boot.epoch = head.epoch + 1
  BY <1>1 DEF TypeOK, HeadRecord, Boots, Opening
<1>6. TypeOK'
  <2>1. f \in Nat
    BY DEF TypeOK
  <2>2. segmentBytes' \in Nat /\ served' \subseteq Nat
    BY <1>1, <1>5 DEF TypeOK
  <2> QED BY <1>1, <1>3, <1>4, <2>1, <2>2 DEF TypeOK
<1>7. Layout' /\ Recovery'
  BY <1>1 DEF Layout, BelongsTo, Recovery, Opening
<1>8. Boots'
  <2>1. \A e \in served' \cup writers' : e <= head'.epoch
    <3> SUFFICES ASSUME NEW e \in served' \cup writers' PROVE e <= head'.epoch
      OBVIOUS
    <3>1. CASE e \in served \cup writers
      <4>1. e <= head.epoch /\ e \in Nat
        BY <3>1 DEF Boots, TypeOK
      <4> QED BY <1>1, <1>5, <4>1
    <3>2. CASE e = boot.epoch
      BY <1>1, <1>5, <3>2
    <3> QED BY <1>1, <3>1, <3>2
  <2>2. boot.epoch > 0
    BY <1>5
  <2> QED BY <1>1, <2>1, <2>2 DEF Boots, Opening
<1>9. Segments'
  <2>1. /\ Cardinality(DOMAIN files \cup {f}) <= MaxSegments + 1
        /\ Cardinality(DOMAIN files \cup {f}) <= Cardinality(DOMAIN files) + 1
        /\ \A g \in DOMAIN files : g <= f
    <3>1. CASE DOMAIN files = {}
      <4>1. Cardinality({f}) = 1 /\ Cardinality({}) = 0 /\ DOMAIN files \cup {f} = {f}
        BY <3>1, FS_EmptySet, FS_Singleton
      <4> QED BY <3>1, <4>1, LedgerAssumption
    <3>2. CASE DOMAIN files # {}
      <4>1. DOMAIN files \cup {f} = DOMAIN files /\ \A g \in DOMAIN files : g <= f
        BY <1>1, <3>2 DEF LastFile
      <4> QED BY <1>3, <4>1 DEF Segments
    <3> QED BY <3>1, <3>2
  <2> QED BY <1>1, <2>1 DEF Segments
<1>10. Undisturbed'
  <2>1. faults = 0 => \A i \in 1..Len(journal) : Whole(journal[i])
    BY <1>1, <1>2 DEF Recovery, Opening, Sound
  <2> QED BY <1>1, <1>2, <2>1 DEF Undisturbed, Whole
<1>11. Counted'
  BY <1>1, <1>4 DEF Counted
<1>12. Linked'
  <2>1. writers \subseteq {boot.epoch} => writers = {}
    BY <1>5 DEF Boots, TypeOK
  <2>2. writers = {} => Len(journal) = 0 /\ chain = <<>>
    BY <1>1, <1>2 DEF Linked, Recovery, Opening
  <2>3. Len(journal) = 0 => LinkAfter(Len(journal)) = <<>>
    BY DEF LinkAfter
  <2> QED BY <1>1, <2>1, <2>2, <2>3 DEF Linked, LinkAfter, ChainOf
<1> QED BY <1>6, <1>7, <1>8, <1>9, <1>10, <1>11, <1>12

-----------------------------------------------------------------------------
(* Ledger::append keeps the invariant *)

\* What Accepts lets through.
LEMMA Accepted ==
  ASSUME LedgerInv, NEW p \in Payload, Accepts(p)
  PROVE  /\ FrameBytes(p) \in Nat /\ FrameBytes(p) > 0 /\ FrameBytes(p) <= MaxSegmentBytes
         /\ BytesInTarget(p) \in Nat /\ BytesInTarget(p) + FrameBytes(p) <= MaxSegmentBytes
         /\ Rotates(p) => segmentCount < MaxSegments
         /\ retained + FrameBytes(p) <= MaxJournalBytes
<1>1. FrameBytes(p) \in Nat /\ FrameBytes(p) > 0
  BY Typed DEF LedgerInv
<1>2. segmentBytes \in Nat /\ segmentCount \in Nat /\ retained \in Nat
  BY DEF LedgerInv, TypeOK
<1> QED BY <1>1, <1>2, LedgerAssumption DEF Accepts, TooLarge, RotationRefused, JournalFull,
       Rotates, BytesInTarget

\* The segment a rotation moves to, and the counter with it.
LEMMA Target ==
  ASSUME LedgerInv, phase = "ready", NEW p \in Payload, ~RotationRefused(p)
  PROVE  LET f == TargetSegment(p)
         IN  /\ f \in Nat /\ \A g \in DOMAIN files : g <= f
             /\ IsFiniteSet(DOMAIN files \cup {f})
             /\ Cardinality(DOMAIN files \cup {f}) <= MaxSegments + 1
             /\ Cardinality(DOMAIN files \cup {f}) <= CountWithTarget(p) + 1
             /\ Rotates(p) => f \notin DOMAIN files
<1> USE DEF LedgerInv
<1> DEFINE f == TargetSegment(p)
<1>1. /\ segment \in Nat /\ segmentCount \in Nat /\ \A g \in DOMAIN files : g \in Nat
      /\ \A g \in DOMAIN files : g <= segment
  BY DEF Segments, TypeOK
<1>2. /\ IsFiniteSet(DOMAIN files) /\ IsFiniteSet(DOMAIN files \cup {segment})
      /\ IsFiniteSet(DOMAIN files \cup {f})
  BY FS_AddElement DEF Segments
<1>3. /\ Cardinality(DOMAIN files) \in Nat /\ Cardinality(DOMAIN files \cup {segment}) \in Nat
      /\ Cardinality(DOMAIN files) <= Cardinality(DOMAIN files \cup {segment})
      /\ Cardinality(DOMAIN files \cup {f}) \in Nat
      /\ Cardinality(DOMAIN files \cup {f}) <= Cardinality(DOMAIN files) + 1
  <2>1. DOMAIN files \subseteq DOMAIN files \cup {segment}
    OBVIOUS
  <2>2. f \notin DOMAIN files =>
          Cardinality(DOMAIN files \cup {f}) = Cardinality(DOMAIN files) + 1
    BY <1>2, FS_AddElement
  <2>3. f \in DOMAIN files => DOMAIN files \cup {f} = DOMAIN files
    OBVIOUS
  <2> HIDE DEF f
  <2>4. /\ Cardinality(DOMAIN files) \in Nat
        /\ Cardinality(DOMAIN files \cup {segment}) \in Nat
        /\ Cardinality(DOMAIN files \cup {f}) \in Nat
    BY <1>2, FS_CardinalityType
  <2>5. Cardinality(DOMAIN files) <= Cardinality(DOMAIN files \cup {segment})
    BY <1>2, <2>1, FS_Subset
  <2> QED BY <2>2, <2>3, <2>4, <2>5
<1>4. CASE Rotates(p)
  <2>1. f = segment + 1 /\ CountWithTarget(p) = segmentCount + 1 /\ segmentCount < MaxSegments
    BY <1>1, <1>4, LedgerAssumption DEF TargetSegment, CountWithTarget, RotationRefused
  <2>2. Cardinality(DOMAIN files) <= segmentCount + 1
    BY <1>1, <1>3 DEF Segments
  <2>3. f \in Nat /\ f \notin DOMAIN files /\ \A g \in DOMAIN files : g <= f
    BY <1>1, <2>1
  <2> HIDE DEF f
  <2> QED BY <1>1, <1>2, <1>3, <2>1, <2>2, <2>3, LedgerAssumption DEF f
<1>5. CASE ~Rotates(p)
  <2>1. f = segment /\ CountWithTarget(p) = segmentCount
    BY <1>5 DEF TargetSegment, CountWithTarget
  <2> QED BY <1>1, <1>2, <1>5, <2>1 DEF Segments
<1> QED BY <1>4, <1>5

\* A write puts its chunk behind all others, in the last segment.
LEMMA WriteLayout ==
  ASSUME LedgerInv, phase = "ready", NEW p \in Payload, Accepts(p),
         NEW n \in 0..FrameBytes(p), WriteBytes(p, n)
  PROVE  Layout'
<1> USE DEF LedgerInv
<1> DEFINE f == TargetSegment(p)
           size == IF f \in DOMAIN files THEN files[f] ELSE 0
           frame == [file |-> f, off |-> size, bytes |-> n,
                     seq |-> lastSeq + 1, payload |-> p, link |-> chain]
           L == Len(journal)
<1>1. /\ f \in Nat /\ size \in Nat /\ n \in Nat
      /\ DOMAIN files' = DOMAIN files \cup {f}
      /\ files'[f] = size + n
      /\ \A g \in DOMAIN files \ {f} : files'[g] = files[g]
      /\ n = 0 => journal' = journal
      /\ n # 0 => /\ Len(journal') = L + 1
                  /\ journal'[L + 1] = frame
                  /\ \A i \in 1..L : journal'[i] = journal[i]
      /\ journal' \in Seq(Chunk)
  <2>1. TypeOK /\ n \in Nat
    BY Typed
  <2> QED BY <2>1, Written
<1>2. L \in Nat /\ FrameBytes(p) \in Nat
  BY Typed
<1>3. \A g \in DOMAIN files : g <= f
  BY Target DEF Accepts
<1>4. \A g \in DOMAIN files : files'[g] \in Nat /\ files[g] \in Nat /\ files[g] <= files'[g]
  BY <1>1 DEF TypeOK
<1>5. \A i \in 1..L :
        /\ journal[i].file \in DOMAIN files /\ journal[i].file \in Nat
        /\ journal[i].off \in Nat
        /\ journal[i].bytes \in Nat
        /\ journal[i].bytes \in 1..FrameBytes(journal[i].payload)
        /\ journal[i].off + journal[i].bytes <= files[journal[i].file]
  BY Typed DEF Layout, Chunk
<1>6. \A i, j \in 1..L : i < j =>
        /\ journal[i].file <= journal[j].file
        /\ journal[i].file = journal[j].file =>
             journal[i].off + journal[i].bytes <= journal[j].off
  BY DEF Layout
<1>7. \A i \in 1..L : journal'[i] = journal[i]
  BY <1>1
<1>8. /\ Len(journal') \in Nat /\ L <= Len(journal') /\ DOMAIN journal' = 1..Len(journal')
      /\ \A i \in 1..Len(journal') : i \notin 1..L =>
           n # 0 /\ i = L + 1 /\ journal'[i] = frame
  BY <1>1, <1>2
<1>9. frame.file = f /\ frame.off = size /\ frame.bytes = n /\ frame.payload = p
  OBVIOUS
<1> HIDE DEF f, size, frame, L
<1>10. ASSUME NEW i \in 1..Len(journal')
       PROVE  /\ journal'[i].file \in DOMAIN files'
              /\ journal'[i].off \in Nat
              /\ journal'[i].bytes \in 1..FrameBytes(journal'[i].payload)
              /\ journal'[i].off + journal'[i].bytes <= files'[journal'[i].file]
  <2>1. CASE i \in 1..L
    <3>1. journal'[i] = journal[i]
      BY <1>7, <2>1
    <3>2. /\ journal[i].file \in DOMAIN files /\ journal[i].off \in Nat
          /\ journal[i].bytes \in Nat
          /\ journal[i].bytes \in 1..FrameBytes(journal[i].payload)
          /\ journal[i].off + journal[i].bytes <= files[journal[i].file]
      BY <1>5, <2>1
    <3>3. /\ files'[journal[i].file] \in Nat /\ files[journal[i].file] \in Nat
          /\ files[journal[i].file] <= files'[journal[i].file]
      BY <1>4, <3>2
    <3> QED BY <1>1, <3>1, <3>2, <3>3
  <2>2. CASE i \notin 1..L
    <3>1. journal'[i] = frame /\ n # 0
      BY <1>8, <2>2
    <3>2. n \in 1..FrameBytes(p)
      BY <1>1, <1>2, <3>1
    <3> QED BY <1>1, <1>9, <3>1, <3>2
  <2> QED BY <2>1, <2>2
<1>11. ASSUME NEW i \in 1..Len(journal'), NEW j \in 1..Len(journal'), i < j
       PROVE  /\ journal'[i].file <= journal'[j].file
              /\ journal'[i].file = journal'[j].file =>
                   journal'[i].off + journal'[i].bytes <= journal'[j].off
  <2>1. i \in 1..L
    BY <1>2, <1>8, <1>11
  <2>2. CASE j \in 1..L
    BY <1>6, <1>7, <1>11, <2>1, <2>2
  <2>3. CASE j \notin 1..L
    <3>1. journal'[j] = frame /\ journal'[i] = journal[i]
      BY <1>7, <1>8, <2>1, <2>3
    <3>2. journal[i].file <= f
      BY <1>3, <1>5, <2>1
    <3>3. journal[i].file = f => journal[i].off + journal[i].bytes <= size
      BY <1>5, <2>1 DEF size
    <3> QED BY <1>9, <3>1, <3>2, <3>3
  <2> QED BY <2>2, <2>3
<1>12. ASSUME NEW g \in DOMAIN files', NEW b \in 0..(files'[g] - 1)
       PROVE  BelongsTo(g, b, Len(journal))'
  <2>1. CASE g \in DOMAIN files /\ b < files[g]
    <3>1. b \in 0..(files[g] - 1)
      BY <1>4, <2>1
    <3>2. BelongsTo(g, b, Len(journal))
      BY <2>1, <3>1 DEF Layout
    <3>3. PICK k \in 1..L :
            /\ journal[k].file = g
            /\ journal[k].off <= b /\ b < journal[k].off + journal[k].bytes
      BY <3>2, Typed DEF BelongsTo, L
    <3>4. journal'[k] = journal[k] /\ k \in 1..Len(journal')
      BY <1>2, <1>7, <1>8
    <3> QED BY <3>3, <3>4 DEF BelongsTo
  <2>2. CASE ~(g \in DOMAIN files /\ b < files[g])
    <3>1. g = f
      BY <1>1, <1>4, <2>2
    <3>2. b >= size /\ b < size + n
      BY <1>1, <1>4, <2>2, <3>1 DEF size
    <3>3. n # 0 /\ L + 1 \in 1..Len(journal') /\ journal'[L + 1] = frame
      <4>1. n # 0
        BY <1>1, <3>2
      <4> QED BY <1>1, <1>2, <1>8, <4>1
    <3> QED BY <1>9, <3>1, <3>2, <3>3 DEF BelongsTo
  <2> QED BY <2>1, <2>2
<1> QED BY <1>10, <1>11, <1>12 DEF Layout

\* Without a failed write the chunk written by a serving process carries the
\* next sequence, behind whole ones, and keeps the acknowledged records.
LEMMA WriteUndisturbed ==
  ASSUME LedgerInv, phase = "ready", NEW p \in Payload, faults = 0,
         NEW n \in 0..FrameBytes(p), WriteBytes(p, n)
  PROVE  /\ \A i \in 1..Len(journal') :
              /\ journal'[i].seq = i
              /\ i < Len(journal') => Whole(journal'[i])
              /\ n = FrameBytes(p) => Whole(journal'[i])
         /\ \A a \in acked :
              /\ a[1] \in 1..Len(journal') /\ Whole(journal'[a[1]])
              /\ journal'[a[1]].payload = a[2]
         /\ n # 0 => /\ Len(journal') = Len(journal) + 1
                     /\ journal'[Len(journal) + 1].payload = p
<1> USE DEF LedgerInv
<1> DEFINE L == Len(journal)
<1>1. /\ L \in Nat /\ n \in Nat /\ lastSeq = L /\ FrameBytes(p) \in Nat
      /\ \A i \in 1..L : journal[i].seq = i /\ Whole(journal[i])
  BY Typed DEF Undisturbed
<1>2. /\ \A i \in 1..L : journal'[i] = journal[i]
      /\ n = 0 => journal' = journal
      /\ n # 0 => /\ Len(journal') = L + 1
                  /\ journal'[L + 1].seq = lastSeq + 1
                  /\ journal'[L + 1].payload = p /\ journal'[L + 1].bytes = n
  <2> DEFINE f == TargetSegment(p)
             size == IF f \in DOMAIN files THEN files[f] ELSE 0
             frame == [file |-> f, off |-> size, bytes |-> n,
                       seq |-> lastSeq + 1, payload |-> p, link |-> chain]
  <2>1. TypeOK
    OBVIOUS
  <2>2. /\ n = 0 => journal' = journal
        /\ n # 0 => /\ Len(journal') = L + 1 /\ journal'[L + 1] = frame
                    /\ \A i \in 1..L : journal'[i] = journal[i]
    BY <2>1, Written
  <2>3. frame.seq = lastSeq + 1 /\ frame.payload = p /\ frame.bytes = n
    OBVIOUS
  <2> HIDE DEF frame
  <2> QED BY <2>2, <2>3
<1> HIDE DEF L
<1>3. L <= Len(journal') /\ Len(journal') \in Nat
  BY <1>1, <1>2 DEF L
<1>4. ASSUME NEW i \in 1..Len(journal')
      PROVE  /\ journal'[i].seq = i
             /\ i < Len(journal') => Whole(journal'[i])
             /\ n = FrameBytes(p) => Whole(journal'[i])
  <2>1. CASE i \in 1..L
    BY <1>1, <1>2, <2>1
  <2>2. CASE i \notin 1..L
    <3>1. n # 0 /\ i = L + 1 /\ Len(journal') = L + 1
      BY <1>1, <1>2, <1>3, <2>2 DEF L
    <3> QED BY <1>1, <1>2, <3>1 DEF Whole
  <2> QED BY <2>1, <2>2
<1>5. ASSUME NEW a \in acked
      PROVE  /\ a[1] \in 1..Len(journal') /\ Whole(journal'[a[1]])
             /\ journal'[a[1]].payload = a[2]
  <2>1. /\ a[1] \in 1..L /\ Whole(journal[a[1]])
        /\ journal[a[1]].payload = a[2]
    BY DEF Undisturbed, L
  <2> QED BY <1>1, <1>2, <1>3, <2>1
<1> QED BY <1>2, <1>4, <1>5 DEF L

\* Without a failed write a write stays within the bounds that were checked.
LEMMA WriteCounted ==
  ASSUME LedgerInv, phase = "ready", NEW p \in Payload, Accepts(p), faults = 0,
         NEW n \in 0..FrameBytes(p), WriteBytes(p, n)
  PROVE  /\ \A f \in DOMAIN files' : files'[f] <= MaxSegmentBytes
         /\ StoredBytes' = retained + n
         /\ StoredBytes' <= MaxJournalBytes
         /\ TargetSegment(p) \in DOMAIN files'
         /\ files'[TargetSegment(p)] = BytesInTarget(p) + n
<1> USE DEF LedgerInv
<1> DEFINE f == TargetSegment(p)
           size == IF f \in DOMAIN files THEN files[f] ELSE 0
<1>1. /\ f \in Nat /\ size \in Nat /\ n \in Nat
      /\ DOMAIN files' = DOMAIN files \cup {f}
      /\ files'[f] = size + n
      /\ \A g \in DOMAIN files \ {f} : files'[g] = files[g]
      /\ \A g \in DOMAIN files' : files'[g] \in Nat
  <2>1. TypeOK /\ n \in Nat
    BY Typed
  <2> QED BY <2>1, Written
<1>2. /\ FrameBytes(p) \in Nat
      /\ BytesInTarget(p) \in Nat /\ BytesInTarget(p) + FrameBytes(p) <= MaxSegmentBytes
      /\ retained + FrameBytes(p) <= MaxJournalBytes
  BY Accepted
<1>3. /\ IsFiniteSet(DOMAIN files \cup {f})
      /\ Rotates(p) => f \notin DOMAIN files
  BY Target DEF Accepts
<1>4. size = BytesInTarget(p)
  <2>1. CASE Rotates(p)
    BY <1>3, <2>1 DEF BytesInTarget
  <2>2. CASE ~Rotates(p)
    BY <2>2 DEF BytesInTarget, TargetSegment, Counted
  <2> QED BY <2>1, <2>2
<1>5. retained = StoredBytes /\ retained \in Nat
  BY DEF Counted, TypeOK
<1>6. StoredBytes' = StoredBytes + n
  <2>1. /\ IsFiniteSet(DOMAIN files) /\ IsFiniteSet(DOMAIN files')
        /\ \A g \in DOMAIN files : files[g] \in Nat
        /\ \A g \in DOMAIN files' : files'[g] \in Nat
        /\ f \in DOMAIN files' /\ DOMAIN files \ {f} = DOMAIN files' \ {f}
        /\ \A g \in DOMAIN files \ {f} : files[g] = files'[g]
    BY <1>1, <1>3 DEF Segments, TypeOK
  <2>2. f \in DOMAIN files => size = files[f]
    OBVIOUS
  <2>3. f \notin DOMAIN files => size = 0
    OBVIOUS
  <2> HIDE DEF f, size
  <2>4. /\ Part(files, DOMAIN files) \in Nat /\ Part(files', DOMAIN files') \in Nat
        /\ f \in DOMAIN files =>
             Part(files', DOMAIN files') = Part(files, DOMAIN files) - files[f] + files'[f]
        /\ f \notin DOMAIN files =>
             Part(files', DOMAIN files') = Part(files, DOMAIN files) + files'[f]
    BY <2>1, PartUpdate
  <2> QED BY <1>1, <2>2, <2>3, <2>4, StoredIsPart
<1>7. \A g \in DOMAIN files' : files'[g] <= MaxSegmentBytes
  BY <1>1, <1>2, <1>4, LedgerAssumption DEF Counted
<1>8. StoredBytes' = retained + n /\ StoredBytes' <= MaxJournalBytes
  BY <1>1, <1>2, <1>5, <1>6, LedgerAssumption
<1> QED BY <1>1, <1>4, <1>7, <1>8

\* The chunk written by the only writer links to the chunk before it.
LEMMA WriteLinked ==
  ASSUME LedgerInv, phase = "ready", NEW p \in Payload,
         NEW n \in 0..FrameBytes(p), WriteBytes(p, n)
  PROVE  /\ writers' = {} => Len(journal') = 0
         /\ (faults = 0 /\ \E e : writers' \subseteq {e}) =>
              \A i \in 1..Len(journal') : journal'[i].link = LinkAfter(i - 1)'
         /\ n # 0 => LinkAfter(Len(journal))' = <<lastSeq + 1, p>>
         /\ writers' \subseteq Nat /\ \A e \in writers' : e <= head.epoch
<1> USE DEF LedgerInv
<1> DEFINE L == Len(journal)
<1>1. L \in Nat /\ boot = head /\ boot.epoch \in Nat
  BY Typed DEF Boots, TypeOK, HeadRecord
<1>2. /\ \A i \in 1..L : journal'[i] = journal[i]
      /\ n = 0 => journal' = journal /\ writers' = writers
      /\ n # 0 => /\ Len(journal') = L + 1 /\ writers' = writers \cup {boot.epoch}
                  /\ journal'[L + 1].link = chain
                  /\ journal'[L + 1].seq = lastSeq + 1
                  /\ journal'[L + 1].payload = p
  <2> DEFINE f == TargetSegment(p)
             size == IF f \in DOMAIN files THEN files[f] ELSE 0
             frame == [file |-> f, off |-> size, bytes |-> n,
                       seq |-> lastSeq + 1, payload |-> p, link |-> chain]
  <2>1. TypeOK
    OBVIOUS
  <2>2. /\ n = 0 => journal' = journal /\ writers' = writers
        /\ n # 0 => /\ Len(journal') = L + 1 /\ journal'[L + 1] = frame
                    /\ writers' = writers \cup {boot.epoch}
                    /\ \A i \in 1..L : journal'[i] = journal[i]
    BY <2>1, Written
  <2>3. frame.seq = lastSeq + 1 /\ frame.payload = p /\ frame.link = chain
    OBVIOUS
  <2> HIDE DEF frame
  <2> QED BY <2>2, <2>3
<1>3. writers' = {} => Len(journal') = 0
  BY <1>2 DEF Linked
<1>4. n # 0 => LinkAfter(Len(journal))' = <<lastSeq + 1, p>>
  BY <1>1, <1>2 DEF LinkAfter, ChainOf
<1>5. ASSUME faults = 0, NEW e, writers' \subseteq {e}, NEW i \in 1..Len(journal')
      PROVE  journal'[i].link = LinkAfter(i - 1)'
  <2>1. CASE i \in 1..L
    <3>1. writers \subseteq {e}
      BY <1>2, <1>5
    <3>2. journal[i].link = LinkAfter(i - 1)
      BY <1>5, <2>1, <3>1 DEF Linked
    <3>3. journal'[i] = journal[i] /\ (i - 1 # 0 => journal'[i - 1] = journal[i - 1])
      BY <1>1, <1>2, <2>1
    <3> QED BY <3>2, <3>3 DEF LinkAfter, ChainOf
  <2>2. CASE i \notin 1..L
    <3>1. n # 0 /\ i = L + 1
      BY <1>1, <1>2, <2>2
    <3>2. writers \subseteq {boot.epoch}
      BY <1>2, <1>5, <3>1
    <3>3. chain = LinkAfter(L)
      BY <1>5, <3>2 DEF Linked
    <3>4. i - 1 = L /\ (L # 0 => journal'[L] = journal[L])
      BY <1>1, <1>2, <3>1
    <3> QED BY <1>2, <3>1, <3>3, <3>4 DEF LinkAfter, ChainOf
  <2> QED BY <2>1, <2>2
<1>6. writers' \subseteq Nat /\ \A e \in writers' : e <= head.epoch
  <2>1. boot.epoch = head.epoch /\ head.epoch \in Nat
    BY <1>1 DEF Boots, TypeOK, HeadRecord
  <2>2. writers \subseteq Nat /\ \A e \in writers : e <= head.epoch
    BY DEF Boots, TypeOK
  <2>3. \A e \in writers' : e \in writers \/ e = boot.epoch
    BY <1>2
  <2>4. ASSUME NEW e \in writers' PROVE e \in Nat /\ e <= head.epoch
    <3>1. CASE e \in writers
      BY <2>2, <3>1
    <3>2. CASE e = boot.epoch
      BY <2>1, <3>2
    <3> QED BY <2>3, <3>1, <3>2
  <2> QED BY <2>4
<1> QED BY <1>3, <1>4, <1>5, <1>6

\* A record is written, flushed and acknowledged.
LEMMA AppendKeeps ==
  ASSUME LedgerInv, NEW p \in Payload, AppendRecord(p)
  PROVE  LedgerInv'
<1> USE DEF LedgerInv
<1> DEFINE n == FrameBytes(p)
<1>1. /\ phase = "ready" /\ phase' = "ready" /\ Accepts(p) /\ WriteBytes(p, n)
      /\ lastSeq' = lastSeq + 1 /\ chain' = <<lastSeq + 1, p>>
      /\ segment' = TargetSegment(p) /\ segmentBytes' = BytesInTarget(p) + n
      /\ segmentCount' = CountWithTarget(p) /\ retained' = retained + n
      /\ acked' = acked \cup {<<lastSeq + 1, p>>}
      /\ UNCHANGED <<head, boot, kept, unremoved, served, faults>>
  BY DEF AppendRecord, CanWrite
<1>2. n \in Nat /\ n \in 0..n /\ n # 0
  BY Typed
<1>3. /\ journal' \in Seq(Chunk) /\ Len(journal') = Len(journal) + 1 /\ Len(journal) \in Nat
      /\ DOMAIN files' = DOMAIN files \cup {TargetSegment(p)}
      /\ DOMAIN files' \subseteq Nat /\ \A g \in DOMAIN files' : files'[g] \in Nat
  <2>1. TypeOK /\ Len(journal) \in Nat
    BY Typed
  <2> HIDE DEF n
  <2> QED BY <1>1, <1>2, <2>1, Written DEF n
<1> HIDE DEF n
<1>4. Layout'
  BY <1>1, <1>2, WriteLayout DEF n
<1>5. /\ writers' = {} => Len(journal') = 0
      /\ (faults = 0 /\ \E e : writers' \subseteq {e}) =>
           \A i \in 1..Len(journal') : journal'[i].link = LinkAfter(i - 1)'
      /\ LinkAfter(Len(journal))' = <<lastSeq + 1, p>>
      /\ writers' \subseteq Nat /\ \A e \in writers' : e <= head.epoch
  BY <1>1, <1>2, WriteLinked DEF n
<1>6. TypeOK'
  <2>1. chain' \in Digest /\ acked' \subseteq Nat \X Payload
    BY <1>1 DEF TypeOK, Digest
  <2>2. /\ segment' \in Nat /\ segmentBytes' \in Nat /\ segmentCount' \in Nat
        /\ retained' \in Nat /\ lastSeq' \in Nat
    BY <1>1, <1>2, CountersTyped, SMTT(30) DEF TypeOK
  <2> QED BY <1>1, <1>3, <1>5, <2>1, <2>2 DEF TypeOK
<1>7. Recovery'
  BY <1>1 DEF Recovery, Opening
<1>8. Boots'
  BY <1>1, <1>5 DEF Boots, Opening
<1>9. Segments'
  <2>1. LET f == TargetSegment(p)
        IN  /\ \A g \in DOMAIN files : g <= f
            /\ f \in Nat /\ IsFiniteSet(DOMAIN files \cup {f})
            /\ Cardinality(DOMAIN files \cup {f}) <= MaxSegments + 1
            /\ Cardinality(DOMAIN files \cup {f}) <= CountWithTarget(p) + 1
    BY <1>1, Target DEF Accepts
  <2>2. /\ DOMAIN files' = DOMAIN files \cup {TargetSegment(p)}
        /\ DOMAIN files' \cup {segment'} = DOMAIN files \cup {TargetSegment(p)}
    BY <1>1, <1>3
  <2>3. \A g \in DOMAIN files' : g <= segment'
    BY <1>1, <2>1, <2>2
  <2> QED BY <1>1, <2>1, <2>2, <2>3 DEF Segments
<1>10. Undisturbed'
  <2> SUFFICES ASSUME faults = 0 PROVE Undisturbed'
    BY <1>1 DEF Undisturbed
  <2>1. /\ \A i \in 1..Len(journal') : journal'[i].seq = i /\ Whole(journal'[i])
        /\ \A a \in acked :
             /\ a[1] \in 1..Len(journal') /\ Whole(journal'[a[1]])
             /\ journal'[a[1]].payload = a[2]
        /\ journal'[Len(journal) + 1].payload = p
    BY <1>1, <1>2, WriteUndisturbed DEF n
  <2>2. lastSeq = Len(journal)
    BY <1>1 DEF Undisturbed
  <2>3. ASSUME NEW a \in acked'
        PROVE  /\ a[1] \in 1..Len(journal') /\ Whole(journal'[a[1]])
               /\ journal'[a[1]].payload = a[2]
    <3>1. CASE a \in acked
      BY <2>1, <3>1
    <3>2. CASE a = <<lastSeq + 1, p>>
      <4>1. a[1] = Len(journal') /\ a[2] = p /\ a[1] \in 1..Len(journal')
        BY <1>3, <2>2, <3>2
      <4> QED BY <1>3, <2>1, <4>1
    <3> QED BY <1>1, <3>1, <3>2
  <2> QED BY <1>1, <1>3, <2>1, <2>2, <2>3 DEF Undisturbed, Whole
<1>11. Counted'
  <2> SUFFICES ASSUME faults = 0 PROVE Counted'
    BY <1>1 DEF Counted
  <2>1. /\ \A f \in DOMAIN files' : files'[f] <= MaxSegmentBytes
        /\ StoredBytes' = retained + n /\ StoredBytes' <= MaxJournalBytes
        /\ TargetSegment(p) \in DOMAIN files'
        /\ files'[TargetSegment(p)] = BytesInTarget(p) + n
    BY <1>1, <1>2, WriteCounted DEF n
  <2> QED BY <1>1, <2>1 DEF Counted
<1>12. Linked'
  <2>1. chain' = LinkAfter(Len(journal))'
    BY <1>1, <1>5
  <2> QED BY <1>1, <1>5, <2>1 DEF Linked
<1> QED BY <1>4, <1>6, <1>7, <1>8, <1>9, <1>10, <1>11, <1>12

\* A bound refuses the record; a rotation made before stays.
LEMMA AppendRefusedKeeps ==
  ASSUME LedgerInv, NEW p \in Payload, AppendRefused(p)
  PROVE  LedgerInv'
<1> USE DEF LedgerInv
<1>1. /\ phase = "ready" /\ phase' = "ready"
      /\ UNCHANGED <<head, journal, files, boot, lastSeq, chain, retained, kept, unremoved, acked,
                     served, writers, faults>>
      /\ \/ UNCHANGED <<segment, segmentBytes, segmentCount>>
         \/ /\ ~RotationRefused(p)
            /\ segment' = TargetSegment(p)
            /\ segmentBytes' = BytesInTarget(p)
            /\ segmentCount' = CountWithTarget(p)
  BY DEF AppendRefused, disk, observed
<1>2. TypeOK'
  BY <1>1, CountersTyped DEF TypeOK
<1>3. Layout' /\ Recovery' /\ Boots' /\ Undisturbed' /\ Linked'
  <2>1. Layout'
    BY <1>1 DEF Layout, BelongsTo
  <2>2. Recovery' /\ Boots'
    BY <1>1 DEF Recovery, Opening, Boots
  <2>3. Undisturbed'
    BY <1>1 DEF Undisturbed, Whole
  <2>4. Linked'
    BY <1>1 DEF Linked, LinkAfter, ChainOf
  <2> QED BY <2>1, <2>2, <2>3, <2>4
<1>4. StoredBytes' = StoredBytes
  BY <1>1, StoredSame
<1>5. CASE UNCHANGED <<segment, segmentBytes, segmentCount>>
  BY <1>1, <1>2, <1>3, <1>4, <1>5 DEF Segments, Counted
<1>6. CASE /\ ~RotationRefused(p)
           /\ segment' = TargetSegment(p)
           /\ segmentBytes' = BytesInTarget(p)
           /\ segmentCount' = CountWithTarget(p)
  <2>1. LET f == TargetSegment(p)
        IN  /\ \A g \in DOMAIN files : g <= f
            /\ Cardinality(DOMAIN files \cup {f}) <= MaxSegments + 1
            /\ Cardinality(DOMAIN files \cup {f}) <= CountWithTarget(p) + 1
            /\ Rotates(p) => f \notin DOMAIN files
    BY <1>1, <1>6, Target
  <2>2. Segments'
    BY <1>1, <1>6, <2>1 DEF Segments
  <2>3. Counted'
    <3>1. CASE Rotates(p)
      BY <1>1, <1>4, <1>6, <2>1, <3>1 DEF Counted, BytesInTarget
    <3>2. CASE ~Rotates(p)
      BY <1>1, <1>4, <1>6, <3>2 DEF Counted, BytesInTarget, TargetSegment
    <3> QED BY <3>1, <3>2
  <2> QED BY <1>2, <1>3, <2>2, <2>3
<1> QED BY <1>1, <1>5, <1>6

\* The write fails in a process that goes on: nothing is promised of the
\* contents any more, but the layout and the number of segments.
LEMMA AppendFailsKeeps ==
  ASSUME LedgerInv, NEW p \in Payload, NEW n \in 0..FrameBytes(p), AppendFails(p, n)
  PROVE  LedgerInv'
<1> USE DEF LedgerInv
<1>1. /\ phase = "ready" /\ phase' = "ready" /\ Accepts(p)
      /\ faults < MaxFaults /\ faults' = faults + 1
      /\ WriteBytes(p, n) \/ UNCHANGED <<journal, files, writers>>
      /\ segment' = TargetSegment(p) /\ segmentBytes' = BytesInTarget(p)
      /\ segmentCount' = CountWithTarget(p)
      /\ UNCHANGED <<head, boot, lastSeq, chain, retained, kept, unremoved, acked, served>>
  BY DEF AppendFails, CanWrite
<1>2. faults' \in 0..MaxFaults /\ faults' # 0
  BY <1>1, LedgerAssumption DEF TypeOK
<1>3. /\ Layout' /\ journal' \in Seq(Chunk)
      /\ DOMAIN files' \subseteq Nat /\ \A g \in DOMAIN files' : files'[g] \in Nat
      /\ writers' \subseteq Nat /\ \A e \in writers' : e <= head.epoch
      /\ writers' = {} => Len(journal') = 0
      /\ DOMAIN files' = DOMAIN files \/ DOMAIN files' = DOMAIN files \cup {TargetSegment(p)}
  <2>1. CASE WriteBytes(p, n)
    <3>1. Layout'
      BY <1>1, <2>1, WriteLayout
    <3>2. /\ writers' \subseteq Nat /\ \A e \in writers' : e <= head.epoch
          /\ writers' = {} => Len(journal') = 0
      BY <1>1, <2>1, WriteLinked
    <3>3. TypeOK
      OBVIOUS
    <3>4. /\ journal' \in Seq(Chunk)
          /\ DOMAIN files' = DOMAIN files \cup {TargetSegment(p)}
          /\ DOMAIN files' \subseteq Nat /\ \A g \in DOMAIN files' : files'[g] \in Nat
      BY <2>1, <3>3, Written
    <3> QED BY <3>1, <3>2, <3>4
  <2>2. CASE UNCHANGED <<journal, files, writers>>
    BY <2>2 DEF Layout, BelongsTo, TypeOK, Boots, Linked
  <2> QED BY <1>1, <2>1, <2>2
<1>4. TypeOK'
  BY <1>1, <1>2, <1>3, CountersTyped DEF TypeOK
<1>5. Recovery' /\ Boots' /\ Undisturbed' /\ Counted' /\ Linked'
  BY <1>1, <1>2, <1>3 DEF Recovery, Opening, Boots, Undisturbed, Counted, Linked
<1>6. Segments'
  <2>1. LET f == TargetSegment(p)
        IN  /\ \A g \in DOMAIN files : g <= f
            /\ f \in Nat /\ IsFiniteSet(DOMAIN files \cup {f})
            /\ Cardinality(DOMAIN files \cup {f}) <= MaxSegments + 1
            /\ Cardinality(DOMAIN files \cup {f}) <= CountWithTarget(p) + 1
    BY <1>1, Target DEF Accepts
  <2>2. DOMAIN files' \cup {segment'} = DOMAIN files \cup {TargetSegment(p)}
    BY <1>1, <1>3
  <2>3. CASE DOMAIN files' = DOMAIN files
    BY <1>1, <2>1, <2>2, <2>3 DEF Segments
  <2>4. CASE DOMAIN files' = DOMAIN files \cup {TargetSegment(p)}
    BY <1>1, <2>1, <2>2, <2>4 DEF Segments
  <2> QED BY <1>3, <2>3, <2>4
<1> QED BY <1>3, <1>4, <1>5, <1>6

\* The process dies inside append.
LEMMA CrashInAppendKeeps ==
  ASSUME LedgerInv, NEW p \in Payload, NEW n \in 0..FrameBytes(p), CrashInAppend(p, n)
  PROVE  LedgerInv'
<1> USE DEF LedgerInv
<1>1. /\ phase = "ready" /\ phase' = "down" /\ Accepts(p) /\ WriteBytes(p, n) /\ Forget
      /\ UNCHANGED <<head, acked, served, faults>>
  BY DEF CrashInAppend, CanWrite, Forget
<1>2. TypeOK
  OBVIOUS
<1>3. /\ journal' \in Seq(Chunk)
      /\ DOMAIN files' = DOMAIN files \cup {TargetSegment(p)}
      /\ DOMAIN files' \subseteq Nat /\ \A g \in DOMAIN files' : files'[g] \in Nat
  BY <1>1, <1>2, Written
<1>4. Layout'
  BY <1>1, WriteLayout
<1>5. /\ writers' = {} => Len(journal') = 0
      /\ (faults = 0 /\ \E e : writers' \subseteq {e}) =>
           \A i \in 1..Len(journal') : journal'[i].link = LinkAfter(i - 1)'
      /\ writers' \subseteq Nat /\ \A e \in writers' : e <= head.epoch
  BY <1>1, WriteLinked
<1>6. TypeOK'
  BY <1>1, <1>3, <1>5, ForgetTyped DEF TypeOK
<1>7. Recovery' /\ Boots' /\ Linked'
  BY <1>1, <1>5 DEF Recovery, Opening, Boots, Linked
<1>8. Segments'
  <2>1. LET f == TargetSegment(p)
        IN  /\ IsFiniteSet(DOMAIN files \cup {f})
            /\ Cardinality(DOMAIN files \cup {f}) <= MaxSegments + 1
    BY <1>1, Target DEF Accepts
  <2> QED BY <1>1, <1>3, <2>1 DEF Segments
<1>9. Undisturbed'
  <2> SUFFICES ASSUME faults = 0 PROVE Undisturbed'
    BY <1>1 DEF Undisturbed
  <2>1. /\ \A i \in 1..Len(journal') :
             /\ journal'[i].seq = i
             /\ i < Len(journal') => Whole(journal'[i])
        /\ \A a \in acked :
             /\ a[1] \in 1..Len(journal') /\ Whole(journal'[a[1]])
             /\ journal'[a[1]].payload = a[2]
    BY <1>1, WriteUndisturbed
  <2> QED BY <1>1, <2>1 DEF Undisturbed, Whole
<1>10. Counted'
  <2> SUFFICES ASSUME faults = 0 PROVE Counted'
    BY <1>1 DEF Counted
  <2>1. /\ \A f \in DOMAIN files' : files'[f] <= MaxSegmentBytes
        /\ StoredBytes' <= MaxJournalBytes
    BY <1>1, WriteCounted
  <2> QED BY <1>1, <2>1 DEF Counted
<1> QED BY <1>4, <1>6, <1>7, <1>8, <1>9, <1>10

\* The process dies between two operations or inside open.
LEMMA CrashKeeps ==
  ASSUME LedgerInv, Crash
  PROVE  LedgerInv'
<1> USE DEF LedgerInv
<1>1. /\ phase' = "down" /\ Forget
      /\ UNCHANGED <<head, journal, files, acked, served, writers, faults>>
  BY DEF Crash, Forget, disk, observed
<1>2. TypeOK'
  BY <1>1, ForgetTyped DEF TypeOK
<1>3. Recovery' /\ Boots' /\ Undisturbed'
  BY <1>1 DEF Recovery, Boots, Undisturbed, Opening, Whole
<1>4. Layout' /\ Segments' /\ Counted' /\ Linked'
  BY <1>1, DiskSame
<1> QED BY <1>2, <1>3, <1>4

-----------------------------------------------------------------------------
(* The theorems *)

LEMMA NextKeeps == LedgerInv /\ [Next]_vars => LedgerInv'
<1> SUFFICES ASSUME LedgerInv, [Next]_vars PROVE LedgerInv'
  OBVIOUS
<1>1. CASE Open
  BY <1>1, RefuseKeeps, ScanKeeps, TruncateKeeps, RemoveKeeps,
     RemoveFailsKeeps, RepairDoneKeeps,
     WriteHeadKeeps DEF Open
<1>2. CASE Appending
  BY <1>2, AppendKeeps, AppendRefusedKeeps, AppendFailsKeeps, CrashInAppendKeeps
     DEF Appending
<1>3. CASE Crash
  BY <1>3, CrashKeeps
<1>4. CASE UNCHANGED vars
  <2>1. UNCHANGED <<head, journal, files, phase, boot, lastSeq, chain, segment, segmentBytes,
                    segmentCount, retained, kept, unremoved, acked, served, writers, faults>>
    BY <1>4 DEF vars, disk, memory, layout, observed
  <2>2. TypeOK' /\ Recovery' /\ Boots'
    BY <2>1 DEF LedgerInv, TypeOK, Recovery, Boots, Sound, Whole, ChainOf
  <2>3. Layout'
    BY <2>1 DEF LedgerInv, Layout, BelongsTo
  <2>4. Segments' /\ Undisturbed'
    BY <2>1 DEF LedgerInv, Segments, Undisturbed, Whole
  <2>5. Counted'
    BY <2>1, StoredSame DEF LedgerInv, Counted
  <2>6. Linked'
    BY <2>1 DEF LedgerInv, Linked, LinkAfter, ChainOf
  <2> QED BY <2>2, <2>3, <2>4, <2>5, <2>6 DEF LedgerInv
<1> QED BY <1>1, <1>2, <1>3, <1>4 DEF Next

\* The invariant of the ledger is inductive: every step of Ledger::open and
\* Ledger::append keeps it, with a crash or a failed write at any point.
THEOREM LedgerInvariant == Spec => []LedgerInv
<1>1. Init => LedgerInv
  BY InitInv
<1>2. LedgerInv /\ [Next]_vars => LedgerInv'
  BY NextKeeps
<1> QED BY <1>1, <1>2, PTL DEF Spec

\* Every variable of the directory and of the Ledger object keeps its type.
THEOREM LedgerTypes == Spec => []TypeOK
<1>1. LedgerInv => TypeOK
  BY DEF LedgerInv
<1> QED BY <1>1, LedgerInvariant, PTL

\* What append acknowledged is on disk, whole and at its sequence, whatever
\* crashes and recoveries follow, as long as no write failed in a process that
\* lived on.
THEOREM AckedStay == Spec => []AckedDurable
<1>1. LedgerInv => AckedDurable
  <2> SUFFICES ASSUME LedgerInv, faults = 0, NEW a \in acked
               PROVE  /\ a[1] \in 1..Len(journal)
                      /\ Whole(journal[a[1]])
                      /\ ChainOf(journal[a[1]]) = a
    BY DEF AckedDurable
  <2>1. /\ a[1] \in 1..Len(journal) /\ Whole(journal[a[1]])
        /\ journal[a[1]].payload = a[2] /\ journal[a[1]].seq = a[1]
    BY DEF LedgerInv, Undisturbed
  <2>2. a = <<a[1], a[2]>>
    BY DEF LedgerInv, TypeOK
  <2> QED BY <2>1, <2>2 DEF ChainOf
<1> QED BY <1>1, LedgerInvariant, PTL

\* The counters append checks its bounds against are those of the directory,
\* and no sequence of crashes, rotations and failed writes leaves more than
\* one segment beyond the bound.
THEOREM Accounting == Spec => []AccountingExact
<1>1. LedgerInv => AccountingExact
  BY DEF LedgerInv, AccountingExact, Segments, Counted
<1> QED BY <1>1, LedgerInvariant, PTL

\* Ledger::open writes the head only over a sound prefix of the journal: every
\* byte behind it lies in a segment that this open tried to remove and could
\* not (remove_file answers false and open goes on).
THEOREM CleanRecovery == Spec => []RecoveryLeavesCleanJournal
<1>1. LedgerInv => RecoveryLeavesCleanJournal
  <2> SUFFICES ASSUME LedgerInv, phase = "stamp"
               PROVE  /\ \A i \in 1..lastSeq : Sound(i)
                      /\ \A i \in (lastSeq + 1)..Len(journal) : journal[i].file \in unremoved
                      /\ \A f \in DOMAIN files \ unremoved : \A b \in 0..(files[f] - 1) :
                           BelongsTo(f, b, lastSeq)
    BY DEF RecoveryLeavesCleanJournal
  <2>1. /\ \A i \in 1..lastSeq : Sound(i)
        /\ \A i \in (lastSeq + 1)..Len(journal) : journal[i].file \in unremoved
    BY DEF LedgerInv, Recovery, Opening
  <2>2. Len(journal) \in Nat /\ lastSeq \in Nat
    BY Typed DEF LedgerInv, TypeOK
  <2>3. ASSUME NEW f \in DOMAIN files \ unremoved, NEW b \in 0..(files[f] - 1)
        PROVE  BelongsTo(f, b, lastSeq)
    <3>1. BelongsTo(f, b, Len(journal))
      BY DEF LedgerInv, Layout
    <3>2. PICK i \in 1..Len(journal) :
            /\ journal[i].file = f
            /\ journal[i].off <= b /\ b < journal[i].off + journal[i].bytes
      BY <3>1 DEF BelongsTo
    <3>3. i \in 1..lastSeq
      BY <2>1, <2>2, <3>2
    <3> QED BY <3>2, <3>3 DEF BelongsTo
  <2> QED BY <2>1, <2>3
<1> QED BY <1>1, LedgerInvariant, PTL

\* The last chunk ends where its segment ends.
LEMMA LastChunkEnds ==
  ASSUME LedgerInv, Len(journal) > 0
  PROVE  LET c == journal[Len(journal)] IN files[c.file] = c.off + c.bytes
<1> DEFINE L == Len(journal)
           c == journal[L]
<1>1. L \in 1..L /\ L \in Nat
  BY Typed DEF LedgerInv
<1>2. /\ c.file \in DOMAIN files /\ c.off \in Nat /\ c.bytes \in Nat /\ c.bytes > 0
      /\ c.off + c.bytes <= files[c.file]
  BY <1>1, Typed DEF LedgerInv, Layout, Chunk
<1>3. files[c.file] \in Nat
  BY <1>2 DEF LedgerInv, TypeOK
<1>4. SUFFICES ASSUME c.off + c.bytes < files[c.file] PROVE FALSE
  BY <1>2, <1>3
<1>5. c.off + c.bytes \in 0..(files[c.file] - 1)
  BY <1>2, <1>3, <1>4
<1>6. BelongsTo(c.file, c.off + c.bytes, L)
  BY <1>2, <1>5 DEF LedgerInv, Layout
<1>7. PICK i \in 1..L : /\ journal[i].file = c.file
                        /\ journal[i].off <= c.off + c.bytes
                        /\ c.off + c.bytes < journal[i].off + journal[i].bytes
  BY <1>6, Typed DEF LedgerInv, BelongsTo
<1>8. journal[i].off \in Nat /\ journal[i].bytes \in Nat
  BY Typed DEF LedgerInv, Layout, Chunk
<1>9. i # L
  BY <1>2, <1>7
<1>10. i < L
  BY <1>1, <1>9
<1>11. \A j, k \in 1..L : j < k =>
         (journal[j].file = journal[k].file =>
            journal[j].off + journal[j].bytes <= journal[k].off)
  BY DEF LedgerInv, Layout
<1>12. journal[i].off + journal[i].bytes <= c.off
  BY <1>1, <1>7, <1>10, <1>11
<1> HIDE DEF c, L
<1> QED BY <1>2, <1>7, <1>8, <1>12

\* While one incarnation has written the journal and no write of it failed,
\* no crash makes the directory unreadable: the scan of Ledger::open ends at
\* the end of the journal or at a torn last frame.
THEOREM OneWriterReadable == Spec => []ReadableAfterOneWriter
<1>1. LedgerInv => ReadableAfterOneWriter
  <2> SUFFICES ASSUME LedgerInv, NEW k \in 0..Len(journal), faults = 0,
                      Cardinality(writers) <= 1, ScanAccepts(k)
               PROVE  ~ScanRefuses(k)
    BY DEF ReadableAfterOneWriter
  <2> USE DEF LedgerInv
  <2>1. Len(journal) \in Nat /\ k \in Nat
    BY Typed
  <2>2. \E e : writers \subseteq {e}
    <3>1. head.epoch \in Nat /\ writers \subseteq 0..head.epoch
      BY DEF TypeOK, HeadRecord, Boots
    <3>2. IsFiniteSet(writers)
      <4>1. IsFiniteSet(0..head.epoch)
        <5>1. 0 \in Int /\ head.epoch \in Int
          BY <3>1
        <5> QED BY <5>1, FS_Interval
      <4> QED BY <3>1, <4>1, FS_Subset
    <3>3. Cardinality(writers) \in Nat
      BY <3>2, FS_CardinalityType
    <3>4. CASE Cardinality(writers) = 0
      BY <3>2, <3>4, FS_EmptySet
    <3>5. CASE Cardinality(writers) = 1
      BY <3>2, <3>5, FS_Singleton
    <3>6. Cardinality(writers) = 0 \/ Cardinality(writers) = 1
      BY <3>3
    <3> QED BY <3>4, <3>5, <3>6
  <2>3. \A f \in DOMAIN files : ~Oversized(f)
    BY LedgerAssumption DEF Counted, Oversized, TypeOK
  <2>4. ASSUME k < Len(journal) PROVE Truncated(k + 1)
    <3>1. k + 1 \in 1..Len(journal) /\ ~Sound(k + 1)
      BY <2>1, <2>4 DEF ScanAccepts
    <3>2. journal[k + 1].seq = k + 1
      BY <3>1 DEF Undisturbed
    <3>3. journal[k + 1].link = IF k + 1 = 1 THEN <<>> ELSE ChainOf(journal[k + 1 - 1])
      <4>3. \A i \in 1..Len(journal) : journal[i].link = LinkAfter(i - 1)
        BY <2>2 DEF Linked
      <4>1. journal[k + 1].link = LinkAfter(k + 1 - 1)
        BY <3>1, <4>3
      <4>2. k + 1 = 1 <=> k + 1 - 1 = 0
        BY <2>1
      <4> QED BY <4>1, <4>2 DEF LinkAfter
    <3>4. ~Whole(journal[k + 1])
      BY <3>1, <3>2, <3>3 DEF Sound
    <3>5. k + 1 = Len(journal)
      BY <2>1, <3>1, <3>4 DEF Undisturbed
    <3> DEFINE c == journal[k + 1]
    <3>6. files[c.file] = c.off + c.bytes
      BY <2>1, <3>5, LastChunkEnds
    <3>7. /\ c.off \in Nat /\ c.bytes \in Nat /\ FrameBytes(c.payload) \in Nat
          /\ c.bytes <= FrameBytes(c.payload)
      BY <3>1, Typed DEF Layout, Chunk
    <3>8. c.bytes < FrameBytes(c.payload)
      BY <3>4, <3>7 DEF Whole
    <3>9. files[c.file] - c.off = c.bytes
      <4> HIDE DEF c
      <4> QED BY <3>6, <3>7
    <3> QED BY <3>4, <3>8, <3>9 DEF Truncated
  <2>5. \A f \in ScannedFiles(k) : ~Oversized(f)
    BY <2>3 DEF ScannedFiles
  <2> QED BY <2>4, <2>5 DEF ScanRefuses
<1> QED BY <1>1, LedgerInvariant, PTL

-----------------------------------------------------------------------------
(* Ledger implements RecordLog *)

\* The records in a journal, as Durable takes them.
RecordsIn(j) ==
  LET n == Len(j) IN
  [k \in 1..(IF n > 0 /\ ~Whole(j[n]) THEN n - 1 ELSE n) |-> j[k].payload]

\* A journal of complete frames, or one that ends in an interrupted write.
LEMMA RecordsAre ==
  ASSUME NEW j \in Seq(Chunk)
  PROVE  /\ (\A i \in 1..Len(j) : Whole(j[i])) =>
              RecordsIn(j) = [k \in 1..Len(j) |-> j[k].payload]
         /\ (Len(j) > 0 /\ ~Whole(j[Len(j)])) =>
              RecordsIn(j) = [k \in 1..(Len(j) - 1) |-> j[k].payload]
<1>1. Len(j) \in Nat
  OBVIOUS
<1>2. (\A i \in 1..Len(j) : Whole(j[i])) => ~(Len(j) > 0 /\ ~Whole(j[Len(j)]))
  BY <1>1
<1> QED BY <1>1, <1>2 DEF RecordsIn

\* Journals of complete frames: the records of the longer one.
LEMMA RecordsGrow ==
  ASSUME NEW j \in Seq(Chunk), NEW h \in Seq(Chunk), NEW p,
         \A i \in 1..Len(j) : Whole(j[i]) /\ h[i] = j[i],
         Len(h) = Len(j) + 1, h[Len(j) + 1].payload = p
  PROVE  /\ Len(RecordsIn(j)) = Len(j)
         /\ Whole(h[Len(j) + 1]) => RecordsIn(h) = Append(RecordsIn(j), p)
         /\ ~Whole(h[Len(j) + 1]) => RecordsIn(h) = RecordsIn(j)
<1> DEFINE n == Len(j)
           s == RecordsIn(j)
<1>1. n \in Nat /\ Len(h) = n + 1
  OBVIOUS
<1>2. s = [k \in 1..n |-> j[k].payload]
  BY RecordsAre
<1>3. \A i \in 1..n : Whole(h[i]) /\ h[i] = j[i]
  OBVIOUS
<1> HIDE DEF n, s
<1>4. Len(s) = n /\ Append(s, p) = [k \in 1..(n + 1) |-> IF k = n + 1 THEN p ELSE s[k]]
  <2> DEFINE W == {j[k].payload : k \in 1..n} \cup {p}
             a == Append(s, p)
             b == [k \in 1..(n + 1) |-> IF k = n + 1 THEN p ELSE s[k]]
  <2>1. p \in W /\ \A k \in 1..n : s[k] \in W
    BY <1>2
  <2> HIDE DEF W
  <2>2. s \in Seq(W) /\ Len(s) = n
    BY <1>1, <1>2, <2>1, SMTT(30)
  <2>3. a \in Seq(W) /\ Len(a) = n + 1 /\ a[n + 1] = p /\ \A k \in 1..n : a[k] = s[k]
    BY <2>1, <2>2, AppendProperties
  <2>4. b \in Seq(W) /\ Len(b) = n + 1
    BY <1>1, <2>1
  <2>5. \A k \in 1..(n + 1) : b[k] = a[k]
    BY <1>1, <2>3
  <2> HIDE DEF a, b
  <2>6. a = b
    BY <2>3, <2>4, <2>5, SeqEqual
  <2> QED BY <2>2, <2>6 DEF a, b
<1>5. ASSUME Whole(h[n + 1]) PROVE RecordsIn(h) = Append(s, p)
  <2>1. \A i \in 1..Len(h) : Whole(h[i])
    BY <1>1, <1>3, <1>5
  <2>2. RecordsIn(h) = [k \in 1..(n + 1) |-> h[k].payload]
    BY <1>1, <2>1, RecordsAre
  <2>3. \A k \in 1..(n + 1) : h[k].payload = IF k = n + 1 THEN p ELSE s[k]
    BY <1>1, <1>2, <1>3 DEF n
  <2> QED BY <1>4, <2>2, <2>3
<1>6. ASSUME ~Whole(h[n + 1]) PROVE RecordsIn(h) = s
  <2>1. RecordsIn(h) = [k \in 1..n |-> h[k].payload]
    <3>1. Len(h) > 0 /\ ~Whole(h[Len(h)]) /\ Len(h) - 1 = n
      BY <1>1, <1>6
    <3> QED BY <3>1, RecordsAre
  <2> QED BY <1>2, <1>3, <2>1
<1> QED BY <1>4, <1>5, <1>6 DEF n, s

\* While no write has failed the repair takes away an interrupted write only.
LEMMA RepairKeepsRecords ==
  ASSUME LedgerInv, faults = 0, NEW first \in lastSeq..Len(journal),
         NEW last \in first..Len(journal), journal' = WithoutTail(first, last),
         \/ phase = "repair" /\ first = lastSeq /\ TailOf(kept, first, last)
         \/ phase = "sweep"
  PROVE  Durable' = Durable
<1>1. Len(journal) \in Nat /\ lastSeq \in Nat /\ TypeOK /\ journal \in Seq(Chunk)
  BY Typed DEF LedgerInv, TypeOK
<1>2. /\ journal' \in Seq(Chunk) /\ Len(journal') = Len(journal) - (last - first)
      /\ \A i \in 1..first : journal'[i] = journal[i]
  BY <1>1, Removed
<1>3. Durable = RecordsIn(journal) /\ Durable' = RecordsIn(journal')
  BY DEF Durable, RecordsIn
<1>4. CASE phase = "sweep"
  <2>1. lastSeq = Len(journal)
    BY <1>4 DEF LedgerInv, Undisturbed
  <2>2. first = Len(journal) /\ last = Len(journal)
    BY <1>1, <2>1
  <2>3. journal' = journal
    BY <1>1, <1>2, <2>1, <2>2, SeqEqual
  <2> QED BY <1>3, <2>3
<1>5. CASE phase = "repair" /\ first = lastSeq /\ TailOf(kept, first, last)
  <2>1. lastSeq + 1 = Len(journal) /\ ~Whole(journal[Len(journal)])
    BY <1>5 DEF LedgerInv, Undisturbed
  <2>2. \A i \in 1..Len(journal) : i < Len(journal) => Whole(journal[i])
    BY DEF LedgerInv, Undisturbed
  <2>3. last = Len(journal)
    <3>1. journal[lastSeq + 1].file = kept
      BY <1>5 DEF LedgerInv, Recovery
    <3> QED BY <1>1, <1>5, <2>1, <3>1 DEF TailOf
  <2>4. Len(journal') = lastSeq /\ first = lastSeq
    BY <1>1, <1>2, <1>5, <2>1, <2>3
  <2>5. \A i \in 1..Len(journal') : Whole(journal'[i])
    BY <1>1, <1>2, <2>1, <2>2, <2>4
  <2>6. RecordsIn(journal') = [k \in 1..lastSeq |-> journal'[k].payload]
    BY <1>2, <2>4, <2>5, RecordsAre
  <2>7. RecordsIn(journal) = [k \in 1..lastSeq |-> journal[k].payload]
    <3>1. Len(journal) > 0 /\ Len(journal) - 1 = lastSeq
      BY <1>1, <2>1
    <3> QED BY <1>1, <2>1, <3>1, RecordsAre
  <2> QED BY <1>2, <1>3, <2>4, <2>6, <2>7
<1> QED BY <1>4, <1>5

\* Every step of the journal is a step of RecordLog, or none.
LEMMA LogStep ==
  ASSUME LedgerInv, [Next]_vars
  PROVE  [Log!Next]_(Log!vars)
<1> DEFINE Same == Durable' = Durable /\ acked' = acked /\ faults' = faults
<1>1. /\ faults \in Nat /\ TypeOK /\ Len(journal) \in Nat /\ lastSeq \in Nat
      /\ journal \in Seq(Chunk)
  BY Typed DEF LedgerInv, TypeOK
<1>2. faults' = faults \/ faults' = faults + 1
  BY DEF Next, Open, Appending, OpenRefuses, OpenScan, TruncateTail, RemoveExcess, RemoveFails,
     RepairDone, WriteHead, AppendRecord, AppendRefused, AppendFails, CrashInAppend, Crash, observed, vars
<1>3. CASE faults' # 0
  <2>1. faults' > 0
    BY <1>1, <1>2, <1>3
  <2> QED BY <2>1 DEF Log!Next, Log!Fault
<1> SUFFICES ASSUME faults = 0, faults' = 0 PROVE [Log!Next]_(Log!vars)
  BY <1>1, <1>2, <1>3
<1>4. journal' = journal => Durable' = Durable
  BY DEF Durable, Whole
<1>5. ASSUME Same, phase # "ready", phase' # "ready" PROVE UNCHANGED Log!vars
  BY <1>5 DEF Log!vars
<1>6. ASSUME Same, phase = "ready", phase' = "ready", lastSeq' = lastSeq
      PROVE  UNCHANGED Log!vars
  BY <1>6 DEF Log!vars
<1>7. ASSUME phase = "ready", phase' = "down", acked' = acked,
             Durable' = Durable \/ \E p \in Payload : Durable' = Append(Durable, p)
      PROVE  Log!Die
  BY <1>7 DEF Log!Die
<1>8. ASSUME NEW t \in TrustSet, OpenRefuses(t) PROVE UNCHANGED Log!vars
  BY <1>4, <1>5, <1>8 DEF OpenRefuses, disk, observed
<1>9. ASSUME NEW t \in TrustSet, NEW i \in 0..Len(journal), OpenScan(t, i)
      PROVE  UNCHANGED Log!vars
  BY <1>4, <1>5, <1>9 DEF OpenScan, disk, observed
<1>10. ASSUME NEW last \in 0..Len(journal), TruncateTail(last) PROVE UNCHANGED Log!vars
  <2>1. /\ phase = "repair" /\ journal' = WithoutTail(lastSeq, last)
        /\ TailOf(kept, lastSeq, last) /\ lastSeq \in lastSeq..Len(journal)
        /\ last \in lastSeq..Len(journal) /\ phase' = "sweep" /\ acked' = acked
    BY <1>10 DEF TruncateTail, TailOf, observed
  <2>2. Durable' = Durable
    BY <2>1, RepairKeepsRecords
  <2> QED BY <1>5, <2>1, <2>2
<1>11. ASSUME NEW f \in DOMAIN files, NEW first \in 0..Len(journal),
              NEW last \in 0..Len(journal), RemoveExcess(f, first, last)
       PROVE  UNCHANGED Log!vars
  <2>1. /\ phase = "sweep" /\ journal' = WithoutTail(first, last)
        /\ first \in lastSeq..Len(journal) /\ last \in first..Len(journal) /\ phase' = "sweep" /\ acked' = acked
    BY <1>11 DEF RemoveExcess, TailOf, observed, memory
  <2>2. Durable' = Durable
    BY <2>1, RepairKeepsRecords
  <2> QED BY <1>5, <2>1, <2>2
<1>23. ASSUME NEW f \in DOMAIN files, RemoveFails(f) PROVE FALSE
  BY <1>1, <1>23 DEF RemoveFails
<1>12. ASSUME RepairDone PROVE UNCHANGED Log!vars
  BY <1>4, <1>5, <1>12 DEF RepairDone, disk, observed
<1>13. ASSUME NEW f \in {1} \cup DOMAIN files, WriteHead(f) PROVE Log!Serve
  <2>1. /\ phase = "stamp" /\ phase' = "ready" /\ journal' = journal /\ lastSeq' = lastSeq
        /\ acked' = acked
    BY <1>13 DEF WriteHead
  <2>2. lastSeq = Len(journal) /\ \A i \in 1..Len(journal) : Whole(journal[i])
    BY <2>1 DEF LedgerInv, Recovery, Opening, Sound, Undisturbed
  <2>3. Durable = [k \in 1..Len(journal) |-> journal[k].payload]
    BY <1>1, <2>2, RecordsAre DEF Durable, RecordsIn
  <2>4. Len(Durable) = lastSeq
    BY <1>1, <2>2, <2>3
  <2>5. Durable' = Durable
    BY <1>4, <2>1
  <2> HIDE DEF Durable
  <2> QED BY <2>1, <2>4, <2>5 DEF Log!Serve
<1>14. ASSUME NEW p \in Payload, NEW n \in 0..FrameBytes(p), phase = "ready", WriteBytes(p, n)
       PROVE  /\ Len(Durable) = lastSeq /\ (Durable' = Durable \/ Durable' = Append(Durable, p))
              /\ n = FrameBytes(p) => Durable' = Append(Durable, p)
  <2>1. lastSeq = Len(journal) /\ \A i \in 1..Len(journal) : Whole(journal[i])
    BY <1>14 DEF LedgerInv, Undisturbed
  <2>2. /\ n = 0 => journal' = journal
        /\ n # 0 => /\ Len(journal') = Len(journal) + 1
                    /\ \A i \in 1..Len(journal) : journal'[i] = journal[i]
                    /\ journal'[Len(journal) + 1].payload = p
                    /\ journal'[Len(journal) + 1].bytes = n
        /\ journal' \in Seq(Chunk)
    <3> DEFINE f == TargetSegment(p)
               size == IF f \in DOMAIN files THEN files[f] ELSE 0
               frame == [file |-> f, off |-> size, bytes |-> n,
                         seq |-> lastSeq + 1, payload |-> p, link |-> chain]
    <3>1. frame.payload = p /\ frame.bytes = n
      OBVIOUS
    <3>2. /\ n = 0 => journal' = journal
          /\ n # 0 => /\ Len(journal') = Len(journal) + 1
                      /\ \A i \in 1..Len(journal) : journal'[i] = journal[i]
                      /\ journal'[Len(journal) + 1] = frame
          /\ journal' \in Seq(Chunk)
      BY <1>1, <1>14, Written
    <3> HIDE DEF frame
    <3> QED BY <3>1, <3>2
  <2>3. FrameBytes(p) # 0
    BY <1>1, Typed
  <2>4. Durable = RecordsIn(journal) /\ Durable' = RecordsIn(journal')
    BY DEF Durable, RecordsIn
  <2>5. Len(Durable) = lastSeq
    <3>1. Durable = [k \in 1..Len(journal) |-> journal[k].payload]
      BY <1>1, <2>1, <2>4, RecordsAre
    <3> QED BY <1>1, <2>1, <3>1
  <2>6. CASE n = 0
    BY <1>4, <2>2, <2>3, <2>5, <2>6
  <2>7. CASE n # 0
    <3> DEFINE j == journal
               h == journal'
    <3>1. /\ j \in Seq(Chunk) /\ h \in Seq(Chunk) /\ Len(h) = Len(j) + 1
          /\ \A i \in 1..Len(j) : Whole(j[i]) /\ h[i] = j[i]
          /\ h[Len(j) + 1].payload = p
      BY <1>1, <2>1, <2>2, <2>7
    <3>2. n = FrameBytes(p) => Whole(h[Len(j) + 1])
      BY <2>2, <2>7 DEF Whole
    <3> HIDE DEF j, h
    <3>3. /\ Whole(h[Len(j) + 1]) => RecordsIn(h) = Append(RecordsIn(j), p)
          /\ ~Whole(h[Len(j) + 1]) => RecordsIn(h) = RecordsIn(j)
      BY <3>1, RecordsGrow
    <3> QED BY <2>4, <2>5, <3>2, <3>3 DEF j, h
  <2> QED BY <2>6, <2>7
<1>15. ASSUME NEW p \in Payload, AppendRecord(p) PROVE Log!AppendRecord(p)
  <2>1. /\ phase = "ready" /\ phase' = "ready" /\ WriteBytes(p, FrameBytes(p))
        /\ lastSeq' = lastSeq + 1 /\ acked' = acked \cup {<<lastSeq + 1, p>>}
    BY <1>15 DEF AppendRecord, CanWrite
  <2>2. FrameBytes(p) \in 0..FrameBytes(p)
    BY <1>1, Typed
  <2>3. Len(Durable) = lastSeq /\ Durable' = Append(Durable, p)
    BY <1>14, <2>1, <2>2
  <2> HIDE DEF Durable
  <2> QED BY <2>1, <2>3 DEF Log!AppendRecord
<1>16. ASSUME NEW p \in Payload, AppendRefused(p) PROVE UNCHANGED Log!vars
  BY <1>4, <1>6, <1>16 DEF AppendRefused, disk, observed
<1>17. ASSUME NEW p \in Payload, NEW n \in 0..FrameBytes(p), AppendFails(p, n) PROVE FALSE
  BY <1>1, <1>17 DEF AppendFails
<1>18. ASSUME NEW p \in Payload, NEW n \in 0..FrameBytes(p), CrashInAppend(p, n)
       PROVE  Log!Die
  <2>1. /\ phase = "ready" /\ phase' = "down" /\ WriteBytes(p, n) /\ acked' = acked
    BY <1>18 DEF CrashInAppend, CanWrite, Forget
  <2>2. Durable' = Durable \/ Durable' = Append(Durable, p)
    BY <1>14, <2>1
  <2> QED BY <1>7, <2>1, <2>2
<1>19. ASSUME Crash PROVE [Log!Next]_(Log!vars)
  <2>1. journal' = journal /\ acked' = acked /\ phase' = "down"
    BY <1>19 DEF Crash, Forget, disk, observed
  <2>2. CASE phase = "ready"
    BY <1>4, <1>7, <2>1, <2>2 DEF Log!Next
  <2>3. CASE phase # "ready"
    BY <1>4, <1>5, <2>1, <2>3
  <2> QED BY <2>2, <2>3
<1>20. CASE UNCHANGED vars
  <2>1. Same /\ phase' = phase /\ lastSeq' = lastSeq
    BY <1>4, <1>20 DEF vars, disk, memory, observed
  <2> QED BY <1>5, <1>6, <2>1
<1>21. CASE Open
  BY <1>8, <1>9, <1>10, <1>11, <1>12, <1>13, <1>21, <1>23 DEF Open, Log!Next
<1>22. CASE Appending
  BY <1>15, <1>16, <1>17, <1>18, <1>22 DEF Appending, Log!Next
<1> QED BY <1>19, <1>20, <1>21, <1>22 DEF Next

\* Wherever inside Ledger::open or append a process dies, the journal is a log
\* that only grows, at its end: the repair takes away interrupted writes only,
\* and a boot serves with all the records there are.
THEOREM RefinesLog == Spec => ImplementsLog
<1>1. Init => Log!Init
  BY DEF Init, Log!Init, Durable
<1>2. LedgerInv /\ [Next]_vars => [Log!Next]_(Log!vars)
  BY LogStep
<1> QED BY <1>1, <1>2, LedgerInvariant, PTL DEF Spec, ImplementsLog, Log!Spec

\* Each boot that serves has a higher epoch than all before it, wherever
\* inside Ledger::open a boot dies, and the trust set of a directory stays.
THEOREM HeadAdvancing == Spec => HeadAdvances
<1>1. LedgerInv /\ [Next]_vars =>
        /\ phase # "ready" /\ phase' = "ready" => \A e \in served : e < boot'.epoch
        /\ head # NoHead => head'.trust = head.trust
  <2> SUFFICES ASSUME LedgerInv, [Next]_vars
               PROVE  /\ phase # "ready" /\ phase' = "ready" =>
                           \A e \in served : e < boot'.epoch
                      /\ head # NoHead => head'.trust = head.trust
    OBVIOUS
  <2>1. CASE head' = head /\ (phase' = phase \/ phase' # "ready")
    BY <2>1
  <2>2. ASSUME NEW f \in {1} \cup DOMAIN files, WriteHead(f)
        PROVE  /\ \A e \in served : e < boot'.epoch
               /\ head # NoHead => head'.trust = head.trust
    <3>1. phase = "stamp" /\ head' = boot /\ boot' = boot
      BY <2>2 DEF WriteHead
    <3>2. /\ boot.epoch = head.epoch + 1 /\ head.epoch \in Nat
          /\ \A e \in served : e <= head.epoch /\ e \in Nat
          /\ head # NoHead => boot.trust = head.trust
      BY <3>1 DEF LedgerInv, Boots, Opening, TypeOK, HeadRecord
    <3> QED BY <3>1, <3>2
  <2>3. CASE Open
    <3>1. ASSUME NEW t \in TrustSet, OpenRefuses(t)
          PROVE  head' = head /\ phase' # "ready"
      BY <3>1 DEF OpenRefuses, disk
    <3>2. ASSUME NEW t \in TrustSet, NEW i \in 0..Len(journal), OpenScan(t, i)
          PROVE  head' = head /\ phase' # "ready"
      BY <3>2 DEF OpenScan, disk
    <3>3. ASSUME NEW last \in 0..Len(journal), TruncateTail(last)
          PROVE  head' = head /\ phase' # "ready"
      BY <3>3 DEF TruncateTail
    <3>4. ASSUME NEW f \in DOMAIN files, NEW first \in 0..Len(journal),
                 NEW last \in 0..Len(journal), RemoveExcess(f, first, last)
          PROVE  head' = head /\ phase' = phase
      BY <3>4 DEF RemoveExcess, memory
    <3>5. ASSUME RepairDone PROVE head' = head /\ phase' # "ready"
      BY <3>5 DEF RepairDone, disk
    <3>6. ASSUME NEW f \in DOMAIN files, RemoveFails(f)
          PROVE  head' = head /\ phase' = phase
      BY <3>6 DEF RemoveFails, disk
    <3> QED BY <2>1, <2>2, <2>3, <3>1, <3>2, <3>3, <3>4, <3>5, <3>6 DEF Open
  <2>4. CASE Appending
    <3>1. head' = head /\ (phase' = phase \/ phase' # "ready")
      BY <2>4 DEF Appending, AppendRecord, AppendRefused, AppendFails, CrashInAppend,
         Forget, disk
    <3> QED BY <2>1, <3>1
  <2>5. CASE Crash \/ UNCHANGED vars
    BY <2>1, <2>5 DEF Crash, Forget, vars, disk, memory
  <2> QED BY <2>3, <2>4, <2>5 DEF Next
<1> QED BY <1>1, LedgerInvariant, PTL DEF HeadAdvances, Spec
=============================================================================
