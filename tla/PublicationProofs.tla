-------------------------- MODULE PublicationProofs --------------------------
(***************************************************************************)
(* A chain of compatible generations never loses what was required, for    *)
(* all bodies and policies and chains of any length.  Each step compares   *)
(* with the generation just before; that the whole chain is sound is what  *)
(* the transitivity of Covers gives.                                       *)
(***************************************************************************)
EXTENDS Publication, FiniteSetTheorems, WellFoundedInduction, TLAPS

-----------------------------------------------------------------------------
(* Asking for at least as much *)

\* A requirement asks for everything it asks for.
LEMMA CoversReflexive ==
  ASSUME NEW r, WellTyped(r)
  PROVE  Covers(r, r)
BY DEF Covers, WellTyped, Strengths, Informational, Preferred, Required

\* Requirements with the same key have the same kind.
LEMMA KeyKind ==
  ASSUME NEW r, NEW s, CompositeKey(r) = CompositeKey(s)
  PROVE  r.kind = s.kind
BY DEF CompositeKey

\* Asking for at least as much is transitive.
LEMMA CoversTransitive ==
  ASSUME NEW r, NEW s, NEW t, WellTyped(r), WellTyped(s), WellTyped(t),
         Covers(t, s), Covers(s, r)
  PROVE  Covers(t, r)
<1>1. CompositeKey(t) = CompositeKey(r) /\ s.kind = r.kind /\ t.numeric = r.numeric
  BY KeyKind DEF Covers
<1>2. t.strength >= r.strength
  BY DEF Covers, WellTyped, Strengths, Informational, Preferred, Required
<1>3. r.numeric => IF IsFloor(r.kind) THEN t.target >= r.target /\ t.minimum >= r.minimum
                                      ELSE t.target <= r.target /\ t.minimum <= r.minimum
  BY <1>1 DEF Covers, WellTyped
<1>4. ~r.numeric => t.value = r.value
  BY <1>1 DEF Covers
<1>5. r.kind = "collective" => r.members \subseteq t.members
  BY <1>1 DEF Covers
<1> QED
  BY <1>1, <1>2, <1>3, <1>4, <1>5 DEF Covers

\* check_compatibility replaces a required requirement only by one that asks
\* for at least as much.
LEMMA MayReplaceCovers ==
  ASSUME NEW r, NEW s, WellTyped(r), WellTyped(s), CompositeKey(s) = CompositeKey(r),
         MayReplace(r, s), r.strength = Required, r.kind # "collective"
  PROVE  Covers(s, r)
BY DEF MayReplace, Covers, Weakened, WellTyped, Required

\* An observation that satisfies a required requirement satisfies every
\* required requirement it covers, collectives apart.
LEMMA CoversDecides ==
  ASSUME NEW r, NEW s, NEW c, WellTyped(r), WellTyped(s),
         ValidRequirement(r), ValidRequirement(s),
         r.strength = Required, r.kind # "collective", Covers(s, r), TypedCandidate(c),
         Decide(s, c) = "satisfied"
  PROVE  Decide(r, c) = "satisfied"
<1>1. s.kind = r.kind /\ s.key = r.key
  BY DEF Covers, CompositeKey
<1>2. s.strength = Required
  BY DEF Covers, WellTyped, Strengths, Required, Preferred, Informational
<1>3. CASE IsNumeric(r.kind)
  <2>0. r.kind \notin TextKinds \cup {"collective", "checkpoint_isolation", "attribute"}
    BY <1>3 DEF IsNumeric, TextKinds, FloorKinds, CeilingKinds
  <2>1. DecideNumber(s, c) = "satisfied" /\ Decide(r, c) = DecideNumber(r, c)
    BY <1>1, <1>3, <2>0 DEF Decide
  <2>2. r.numeric /\ s.numeric
    BY <1>1, <1>3 DEF ValidRequirement
  <2>3. c.number[r.kind] \in Int /\ c.number[r.kind] # NotSupplied
    BY <1>1, <1>3, <2>1 DEF DecideNumber, TypedCandidate, IsNumeric, NotSupplied
  <2>4. WithinBand(c.number[r.kind], s)
    BY <1>1, <2>1, <2>3 DEF DecideNumber, Verdict
  <2>5. WithinBand(c.number[r.kind], r)
    BY <1>1, <1>2, <2>2, <2>3, <2>4 DEF WithinBand, Covers, WellTyped, Required, Preferred
  <2> QED
    BY <2>1, <2>3, <2>5 DEF DecideNumber, Verdict
<1>4. CASE r.kind \in TextKinds
  <2>1. ~IsNumeric(r.kind) /\ r.kind \notin {"collective", "checkpoint_isolation", "attribute"}
    BY <1>4 DEF IsNumeric, TextKinds, FloorKinds, CeilingKinds
  <2>2. DecideText(s, c) = "satisfied" /\ Decide(r, c) = DecideText(r, c)
    BY <1>1, <1>4, <2>1 DEF Decide
  <2>3. s.value = r.value
    BY <2>1 DEF Covers, ValidRequirement
  <2> QED
    BY <1>1, <1>2, <2>2, <2>3 DEF DecideText, Verdict, Matches
<1>5. CASE r.kind = "checkpoint_isolation"
  <2>1. ~IsNumeric(r.kind) /\ r.kind \notin TextKinds
    BY <1>5 DEF IsNumeric, TextKinds, FloorKinds, CeilingKinds
  <2>2. DecideIsolation(s, c) = "satisfied" /\ Decide(r, c) = DecideIsolation(r, c)
    BY <1>1, <1>5, <2>1 DEF Decide
  <2>3. s.value = r.value
    BY <2>1 DEF Covers, ValidRequirement
  <2> QED
    BY <2>2, <2>3 DEF DecideIsolation
<1>6. CASE r.kind = "attribute"
  <2>1. ~IsNumeric(r.kind) /\ r.kind \notin TextKinds
    BY <1>6 DEF IsNumeric, TextKinds, FloorKinds, CeilingKinds
  <2>2. DecideAttribute(s, c) = "satisfied" /\ Decide(r, c) = DecideAttribute(r, c)
    BY <1>1, <1>6, <2>1 DEF Decide
  <2>3. s.value = r.value
    BY <2>1 DEF Covers, ValidRequirement
  <2> QED
    BY <1>1, <2>2, <2>3 DEF DecideAttribute
<1> QED
  BY <1>3, <1>4, <1>5, <1>6 DEF WellTyped, Kinds, IsNumeric

-----------------------------------------------------------------------------
(* Chains of generations *)

\* A body holds a required counterpart of `r' and declares its scope.
Keeps(b, r) ==
  /\ \E l \in DOMAIN b.requirements : Covers(b.requirements[l], r)
  /\ r.scope \in b.scopes

Firm(r) == r.strength = Required /\ r.kind # "collective"

\* The requirements of a submitted body are valid and well typed.
LEMMA BodyRequirements ==
  ASSUME NEW b \in Bodies, NEW i \in DOMAIN b.requirements
  PROVE  /\ WellTyped(b.requirements[i]) /\ ValidRequirement(b.requirements[i])
         /\ b.requirements[i].scope \in b.scopes
BY PublicationAssumption DEF ValidBody

\* A body keeps its own requirements.
LEMMA KeepsOwn ==
  ASSUME NEW b \in Bodies, NEW i \in DOMAIN b.requirements
  PROVE  Keeps(b, b.requirements[i])
BY BodyRequirements, CoversReflexive DEF Keeps

\* A compatible body keeps what the one before kept: the counterpart is
\* required, so check_compatibility neither lets it go nor lets it weaken.
LEMMA CompatibleKeeps ==
  ASSUME NEW a \in Bodies, NEW b \in Bodies, NEW r, WellTyped(r), Firm(r),
         Keeps(a, r), Compatible(a, b)
  PROVE  Keeps(b, r)
<1>1. PICK l \in DOMAIN a.requirements : Covers(a.requirements[l], r)
  BY DEF Keeps
<1> DEFINE q == a.requirements[l]
<1>2. WellTyped(q)
  BY BodyRequirements
<1>3. q.kind = r.kind /\ q.strength = Required
  BY <1>1, <1>2, KeyKind
     DEF Firm, Covers, WellTyped, Strengths, Required, Preferred, Informational
<1>4. Match(b, q) # {} /\ \A j \in Match(b, q) : MayReplace(q, b.requirements[j])
  BY <1>3 DEF Compatible, MayRemove
<1>5. PICK j \in Match(b, q) : MayReplace(q, b.requirements[j])
  BY <1>4
<1>6. j \in DOMAIN b.requirements /\ CompositeKey(b.requirements[j]) = CompositeKey(q)
  BY <1>5 DEF Match
<1>7. WellTyped(b.requirements[j]) /\ b.requirements[j].scope \in b.scopes
  BY <1>6, BodyRequirements
<1>8. Covers(b.requirements[j], q)
  BY <1>2, <1>3, <1>5, <1>6, <1>7, MayReplaceCovers DEF Firm
<1>9. Covers(b.requirements[j], r)
  BY <1>1, <1>2, <1>7, <1>8, CoversTransitive
<1>10. b.requirements[j].scope = r.scope
  BY <1>9 DEF Covers, CompositeKey
<1> QED
  BY <1>6, <1>7, <1>9, <1>10 DEF Keeps

-----------------------------------------------------------------------------
(* Types *)

\* What Append does to the chain.
LEMMA Appended ==
  ASSUME NEW S, NEW s \in Seq(S), NEW e \in S
  PROVE  /\ Append(s, e) \in Seq(S) /\ Len(Append(s, e)) = Len(s) + 1
         /\ \A i \in 1..Len(s) : Append(s, e)[i] = s[i]
         /\ Append(s, e)[Len(s) + 1] = e
OBVIOUS

\* Every step keeps the types.
LEMMA TypeStep ==
  ASSUME TypeOK, [Next]_vars
  PROVE  TypeOK'
<1>1. ASSUME NEW p \in Policies, InstallPolicy(p) PROVE TypeOK'
  BY <1>1 DEF TypeOK, InstallPolicy
<1>2. ASSUME NEW b \in Bodies, Accept(b), Len(chain) < MaxGeneration PROVE TypeOK'
  <2>1. chain' \in Seq(Bodies) /\ Len(chain') = Len(chain) + 1
    BY <1>2, Appended DEF TypeOK, Accept
  <2>2. under' \in Seq(Policies \cup {NoPolicy}) /\ Len(under') = Len(under) + 1
    BY <1>2, Appended DEF TypeOK, Accept
  <2>3. Len(chain) \in Nat
    BY DEF TypeOK
  <2> QED
    BY <1>2, <2>1, <2>2, <2>3, PublicationAssumption DEF TypeOK, Accept
<1>3. ASSUME NEW b \in Bodies, Register(b) PROVE TypeOK'
  BY <1>2, <1>3 DEF Register
<1>4. ASSUME NEW b \in Bodies, Publish(b) PROVE TypeOK'
  BY <1>2, <1>4 DEF Publish
<1>5. CASE UNCHANGED vars
  BY <1>5 DEF TypeOK, vars
<1> QED
  BY <1>1, <1>3, <1>4, <1>5 DEF Next

\* Types of the chain, and the installed policy is always a valid one.
THEOREM PublicationTypes == Spec => []TypeOK
<1>1. Init => TypeOK
  BY PublicationAssumption DEF Init, TypeOK
<1>2. TypeOK /\ [Next]_vars => TypeOK'
  BY TypeStep
<1> QED
  BY <1>1, <1>2, PTL DEF Spec

-----------------------------------------------------------------------------
(* What was required stays *)

\* RequiredKept, with the counterpart in every later generation named Keeps.
KeptInv ==
  \A i \in 1..Len(chain) : \A j \in i..Len(chain) :
    \A k \in DOMAIN chain[i].requirements :
      Firm(chain[i].requirements[k]) => Keeps(chain[j], chain[i].requirements[k])

\* Appending a body that keeps what the last one kept.
LEMMA KeptAppend ==
  ASSUME TypeOK, KeptInv, NEW b \in Bodies, chain' = Append(chain, b),
         Len(chain) > 0 => Compatible(chain[Len(chain)], b)
  PROVE  KeptInv'
<1> DEFINE n == Len(chain)
<1>1. /\ n \in Nat /\ Len(chain') = n + 1 /\ chain'[n + 1] = b
      /\ \A i \in 1..n : chain'[i] = chain[i] /\ chain[i] \in Bodies
  BY Appended DEF TypeOK
<1> HIDE DEF n
<1>2. SUFFICES ASSUME NEW i \in 1..(n + 1), NEW j \in i..(n + 1),
                      NEW k \in DOMAIN chain'[i].requirements,
                      Firm(chain'[i].requirements[k])
               PROVE  Keeps(chain'[j], chain'[i].requirements[k])
  BY <1>1 DEF KeptInv
<1>3. CASE j <= n
  <2>1. i \in 1..n /\ j \in i..n /\ j \in 1..n
    BY <1>1, <1>3
  <2> QED
    BY <1>1, <1>2, <2>1 DEF KeptInv, n
<1>4. CASE j = n + 1 /\ i = n + 1
  BY <1>1, <1>2, <1>4, KeepsOwn
<1>5. CASE j = n + 1 /\ i # n + 1
  <2>1. i \in 1..n /\ n \in i..n /\ n \in 1..n /\ n > 0
    BY <1>1, <1>5
  <2>2. chain'[i] = chain[i] /\ chain[i] \in Bodies /\ chain[n] \in Bodies
    BY <1>1, <2>1
  <2>3. Keeps(chain[n], chain[i].requirements[k])
    BY <1>2, <2>1, <2>2 DEF KeptInv, n
  <2>4. WellTyped(chain[i].requirements[k])
    BY <1>2, <2>2, BodyRequirements
  <2>5. Compatible(chain[n], b)
    BY <2>1 DEF n
  <2>6. Keeps(b, chain[i].requirements[k])
    BY <1>2, <2>2, <2>3, <2>4, <2>5, CompatibleKeeps
  <2> QED
    BY <1>1, <1>5, <2>2, <2>6
<1> QED
  BY <1>1, <1>3, <1>4, <1>5

\* KeptInv is kept by every step.
LEMMA KeptStep ==
  ASSUME TypeOK, KeptInv, [Next]_vars
  PROVE  KeptInv'
<1>1. CASE chain' = chain
  BY <1>1 DEF KeptInv
<1>2. ASSUME NEW b \in Bodies, Register(b) PROVE KeptInv'
  <2>1. chain' = Append(chain, b) /\ Len(chain) = 0
    BY <1>2 DEF Register, Accept
  <2> QED
    BY <2>1, KeptAppend
<1>3. ASSUME NEW b \in Bodies, Publish(b) PROVE KeptInv'
  <2>1. chain' = Append(chain, b) /\ Compatible(chain[Len(chain)], b)
    BY <1>3 DEF Publish, Accept
  <2> QED
    BY <2>1, KeptAppend
<1> QED
  BY <1>1, <1>2, <1>3 DEF Next, vars, InstallPolicy

\* The invariant of the chain.
THEOREM ChainInvariant == Spec => [](TypeOK /\ KeptInv)
<1>1. Init => TypeOK /\ KeptInv
  BY PublicationAssumption DEF Init, TypeOK, KeptInv
<1>2. TypeOK /\ KeptInv /\ [Next]_vars => TypeOK' /\ KeptInv'
  BY TypeStep, KeptStep
<1> QED
  BY <1>1, <1>2, PTL DEF Spec

\* What a generation requires is required, with at least its bounds and in a
\* declared scope, by every later generation: register_workload and publish
\* with check_compatibility never lose it.
THEOREM RequiredStays == Spec => []RequiredKept
<1>1. TypeOK /\ KeptInv => RequiredKept
  <2>1. TypeOK => DOMAIN chain = 1..Len(chain)
    BY DEF TypeOK
  <2> QED
    BY <2>1 DEF KeptInv, RequiredKept, Keeps, Firm
<1> QED
  BY <1>1, ChainInvariant, PTL

\* An observation that decide_requirement accepts for a later generation it
\* accepts for what was required before.
THEOREM LaterSuffices == Spec => []LaterSatisfiesEarlier
<1>1. ASSUME TypeOK, KeptInv PROVE LaterSatisfiesEarlier
  <2>1. /\ DOMAIN chain = 1..Len(chain) /\ Len(chain) \in Nat
        /\ \A i \in 1..Len(chain) : chain[i] \in Bodies
    BY <1>1 DEF TypeOK
  <2>2. SUFFICES ASSUME NEW i \in 1..Len(chain), NEW j \in i..Len(chain),
                        NEW k \in DOMAIN chain[i].requirements,
                        Firm(chain[i].requirements[k])
                 PROVE  \E l \in Match(chain[j], chain[i].requirements[k]) :
                          \A c \in Candidates :
                            Decide(chain[j].requirements[l], c) = "satisfied" =>
                              Decide(chain[i].requirements[k], c) = "satisfied"
    BY <2>1 DEF LaterSatisfiesEarlier, Firm
  <2> DEFINE r == chain[i].requirements[k]
  <2>3. chain[i] \in Bodies /\ chain[j] \in Bodies
    BY <2>1
  <2>4. PICK l \in DOMAIN chain[j].requirements : Covers(chain[j].requirements[l], r)
    BY <1>1, <2>2 DEF KeptInv, Keeps
  <2> DEFINE s == chain[j].requirements[l]
  <2>5. WellTyped(r) /\ ValidRequirement(r) /\ WellTyped(s) /\ ValidRequirement(s)
    BY <2>3, BodyRequirements
  <2>6. l \in Match(chain[j], r)
    BY <2>4 DEF Match, Covers
  <2>7. ASSUME NEW c \in Candidates, Decide(s, c) = "satisfied"
        PROVE  Decide(r, c) = "satisfied"
    <3>1. TypedCandidate(c)
      BY PublicationAssumption
    <3> QED
      BY <2>2, <2>4, <2>5, <2>7, <3>1, CoversDecides DEF Firm
  <2> QED
    BY <2>6, <2>7
<1> QED
  BY <1>1, ChainInvariant, PTL

-----------------------------------------------------------------------------
(* The policy binds *)

\* A set of natural numbers with a member has a least one.
LEMMA LeastMember ==
  ASSUME NEW N, N \subseteq Nat, N # {}
  PROVE  \E n \in N : \A m \in N : n <= m
<1> DEFINE R == OpToRel(<, Nat)
<1>1. IsWellFoundedOn(R, Nat)
  BY NatLessThanWellFounded
<1>2. PICK n \in N : \A m \in N : <<m, n>> \notin R
  <2> HIDE DEF R
  <2> QED
    BY <1>1, WFMin
<1>3. \A m \in N : ~(m < n)
  BY <1>2 DEF OpToRel
<1> QED
  BY <1>3

\* The running totals of a list of numbers exist: by the least length that
\* has none.
LEMMA TotalsExist ==
  ASSUME NEW n \in Nat, NEW t
  PROVE  \E f : f = [i \in 1..n |-> IF i = 1 THEN 0 ELSE f[i - 1] + t[i - 1]]
<1> DEFINE Has(m) == \E f : f = [i \in 1..m |-> IF i = 1 THEN 0 ELSE f[i - 1] + t[i - 1]]
           N == {m \in Nat : ~Has(m)}
<1>1. SUFFICES ASSUME N # {} PROVE FALSE
  OBVIOUS
<1>2. PICK m \in N : \A k \in N : m <= k
  BY <1>1, LeastMember
<1>3. Has(0)
  <2> DEFINE f == [i \in 1..0 |-> 0]
  <2>1. f = [i \in 1..0 |-> IF i = 1 THEN 0 ELSE f[i - 1] + t[i - 1]]
    OBVIOUS
  <2> QED
    BY <2>1
<1>4. m \in Nat /\ m # 0 /\ ~Has(m) /\ Has(m - 1)
  <2>1. m \in Nat /\ ~Has(m)
    OBVIOUS
  <2>2. m # 0
    BY <1>3, <2>1
  <2>3. m - 1 \in Nat /\ ~(m <= m - 1)
    BY <2>1, <2>2
  <2>4. m - 1 \notin N
    BY <1>2, <2>3
  <2> QED
    BY <2>1, <2>2, <2>3, <2>4
<1>5. PICK f : f = [i \in 1..(m - 1) |-> IF i = 1 THEN 0 ELSE f[i - 1] + t[i - 1]]
  BY <1>4
<1> DEFINE g == [i \in 1..m |-> IF i = m THEN IF i = 1 THEN 0 ELSE f[i - 1] + t[i - 1]
                                         ELSE f[i]]
<1>6. \A i \in 1..(m - 1) : f[i] = IF i = 1 THEN 0 ELSE f[i - 1] + t[i - 1]
  BY <1>5
<1>7. \A i \in 1..(m - 1) : g[i] = f[i]
  BY <1>4
<1>8. ASSUME NEW i \in 1..m
      PROVE  g[i] = IF i = 1 THEN 0 ELSE g[i - 1] + t[i - 1]
  <2>1. CASE i = 1
    <3>1. g[i] = IF i = m THEN 0 ELSE f[i]
      BY <2>1
    <3>2. i # m => i \in 1..(m - 1)
      BY <1>4
    <3> QED
      BY <2>1, <3>1, <3>2, <1>6
  <2>2. CASE i # 1
    <3>1. i - 1 \in 1..(m - 1) /\ (i # m => i \in 1..(m - 1))
      BY <1>4, <2>2
    <3>2. g[i] = IF i = m THEN f[i - 1] + t[i - 1] ELSE f[i]
      BY <2>2
    <3>3. g[i - 1] = f[i - 1]
      BY <1>7, <3>1
    <3> HIDE DEF g
    <3> QED
      BY <2>2, <3>1, <3>2, <3>3, <1>6
  <2> QED
    BY <2>1, <2>2
<1>9. g = [i \in 1..m |-> IF i = 1 THEN 0 ELSE g[i - 1] + t[i - 1]]
  <2>1. g = [i \in 1..m |-> g[i]]
    OBVIOUS
  <2> HIDE DEF g
  <2> QED
    BY <1>8, <2>1
<1> QED
  BY <1>4, <1>9

\* Before, entry by entry.
LEMMA BeforeIs ==
  ASSUME NEW p, NEW b, Len(b.requirements) \in Nat
  PROVE  \A i \in 1..Len(b.requirements) :
           Before(p, b)[i] = IF i = 1 THEN 0
                             ELSE Before(p, b)[i - 1] + EntriesOf(p, b.requirements[i - 1])
<1> DEFINE n == Len(b.requirements)
           t == [i \in 1..n |-> EntriesOf(p, b.requirements[i])]
           Is(f) == f = [i \in 1..n |-> IF i = 1 THEN 0
                                        ELSE f[i - 1] + EntriesOf(p, b.requirements[i - 1])]
<1>1. \E f : Is(f)
  <2>1. PICK f : f = [i \in 1..n |-> IF i = 1 THEN 0 ELSE f[i - 1] + t[i - 1]]
    <3> HIDE DEF t
    <3> QED
      BY TotalsExist
  <2>2. ASSUME NEW i \in 1..n, i # 1
        PROVE  t[i - 1] = EntriesOf(p, b.requirements[i - 1])
    <3>1. i - 1 \in 1..n
      BY <2>2
    <3> QED
      BY <3>1
  <2> HIDE DEF t, n
  <2>3. Is(f)
    BY <2>1, <2>2
  <2> QED
    BY <2>3
<1>2. Before(p, b) = CHOOSE f : Is(f)
  BY DEF Before
<1>3. Is(Before(p, b))
  <2> HIDE DEF Is
  <2> QED
    BY <1>1, <1>2
<1> QED
  BY <1>3

\* A requirement without errors leaves at most one entry: the note that no
\* rule constrains it.
LEMMA NoteAtMost ==
  ASSUME NEW p, NEW r, ErrorsOf(p, r) = {}
  PROVE  EntriesOf(p, r) \in 0..1
<1>1. Cardinality(ErrorsOf(p, r)) = 0
  BY FS_EmptySet
<1> QED
  BY <1>1 DEF EntriesOf

\* A permitted body: the log cannot be full before its LogLimit-th
\* requirement, since the first one with an error would be among the entries
\* kept.
LEMMA PermittedHasNoErrors ==
  ASSUME NEW p, NEW b \in Bodies, PolicyPermits(p, b)
  PROVE  \A k \in DOMAIN b.requirements \cap (1..LogLimit) : ErrorsOf(p, b.requirements[k]) = {}
<1> DEFINE n == Len(b.requirements)
           c == Before(p, b)
           Clean(i) == c[i] \in 0..(i - 1) /\ ErrorsOf(p, b.requirements[i]) = {}
           N == {i \in Nat : i \in 1..n /\ i \in 1..LogLimit /\ ~Clean(i)}
<1>1. n \in Nat /\ DOMAIN b.requirements = 1..n /\ LogLimit \in Nat
  BY PublicationAssumption DEF IsList
<1>2. SUFFICES ASSUME N # {} PROVE FALSE
  <2>1. \A i \in 1..n : i \in 1..LogLimit => (N = {} => Clean(i))
    <3> HIDE DEF Clean, n
    <3> QED
      BY <1>1
  <2>2. \A i \in 1..n : Clean(i) => ErrorsOf(p, b.requirements[i]) = {}
    OBVIOUS
  <2> HIDE DEF N, n, Clean
  <2> QED
    BY <1>1, <2>1, <2>2
<1>3. PICK i \in N : \A j \in N : i <= j
  BY <1>2, LeastMember
<1>4. i \in Nat /\ i \in 1..n /\ i <= LogLimit /\ ~Clean(i)
  BY <1>1
<1>5. c[i] = IF i = 1 THEN 0 ELSE c[i - 1] + EntriesOf(p, b.requirements[i - 1])
  BY <1>1, <1>4, BeforeIs
<1>6. c[i] \in 0..(i - 1)
  <2>1. CASE i = 1
    BY <1>5, <2>1
  <2>2. CASE i # 1
    <3>1. i - 1 \in Nat /\ i - 1 \in 1..n /\ i - 1 \in 1..LogLimit /\ ~(i <= i - 1)
      BY <1>1, <1>4, <2>2
    <3>2. Clean(i - 1)
      BY <1>3, <3>1
    <3>3. c[i - 1] \in 0..(i - 1 - 1) /\ EntriesOf(p, b.requirements[i - 1]) \in 0..1
      BY <3>2, NoteAtMost
    <3> HIDE DEF c
    <3> QED
      BY <1>4, <1>5, <2>2, <3>3
  <2> QED
    BY <2>1, <2>2
<1>7. ErrorsOf(p, b.requirements[i]) # {} => c[i] >= LogLimit
  BY <1>1, <1>4 DEF PolicyPermits
<1>8. ~(c[i] >= LogLimit)
  <2> HIDE DEF c
  <2> QED
    BY <1>1, <1>4, <1>6
<1> QED
  BY <1>4, <1>6, <1>7, <1>8

\* Without errors the requirement obeys the rules that speak of it.
LEMMA NoErrorsObeys ==
  ASSUME NEW p, NEW rule \in p.rules, NEW r, TypedRule(rule), WellTyped(r),
         RuleApplies(rule, r), ErrorsOf(p, r) = {}
  PROVE  Obeys(rule, r)
<1>1. RuleErrors(rule, r) = {}
  <2>1. rule \in Applicable(p, r)
    BY DEF Applicable
  <2>2. ASSUME NEW e \in RuleErrors(rule, r)
        PROVE  <<rule, e>> \in ErrorsOf(p, r)
    <3> DEFINE F == {<<rule, x>> : x \in RuleErrors(rule, r)}
    <3>1. F \in {{<<q, x>> : x \in RuleErrors(q, r)} : q \in Applicable(p, r)}
      BY <2>1
    <3>2. <<rule, e>> \in F
      BY <2>2
    <3> HIDE DEF F
    <3> QED
      BY <3>1, <3>2 DEF ErrorsOf
  <2> QED
    BY <2>2
<1>2. rule.allow
  BY <1>1 DEF RuleErrors
<1> DEFINE Bad(e) ==
      CASE e = <<"floor">> -> r.strength < rule.minStrength
        [] e = <<"ceiling">> -> r.strength > rule.maxStrength
        [] e = <<"target">> -> r.numeric /\ (r.target < rule.minTarget
                                             \/ r.target > rule.maxTarget)
        [] e = <<"minimum">> -> r.numeric /\ (r.minimum < rule.minMinimum
                                              \/ r.minimum > rule.maxMinimum)
        [] e = <<"value">> -> ~ValueAllowed(rule, r.value)
<1>3. /\ \A e \in {<<"floor">>, <<"ceiling">>, <<"target">>, <<"minimum">>, <<"value">>} : ~Bad(e)
      /\ \A a \in r.attributes : ValueAllowed(rule, a)
  BY <1>1, <1>2 DEF RuleErrors
<1>4. ~(r.strength < rule.minStrength) /\ ~(r.strength > rule.maxStrength)
  <2>1. ~Bad(<<"floor">>) /\ ~Bad(<<"ceiling">>)
    BY <1>3
  <2> QED
    BY <2>1
<1>5. r.numeric => /\ ~(r.target < rule.minTarget) /\ ~(r.target > rule.maxTarget)
                   /\ ~(r.minimum < rule.minMinimum) /\ ~(r.minimum > rule.maxMinimum)
  <2>1. ~Bad(<<"target">>) /\ ~Bad(<<"minimum">>)
    BY <1>3
  <2> QED
    BY <2>1
<1>6. ValueAllowed(rule, r.value)
  <2>1. ~Bad(<<"value">>)
    BY <1>3
  <2> QED
    BY <2>1
<1> HIDE DEF Bad
<1>7. r.strength \in rule.minStrength..rule.maxStrength
  BY <1>4 DEF TypedRule, WellTyped, Strengths, Informational, Preferred, Required
<1>8. r.numeric => /\ r.target \in rule.minTarget..rule.maxTarget
                   /\ r.minimum \in rule.minMinimum..rule.maxMinimum
  BY <1>5 DEF TypedRule, WellTyped
<1>9. rule.values # {} => {r.value} \cup r.attributes \subseteq rule.values
  BY <1>3, <1>6 DEF ValueAllowed
<1> QED
  BY <1>2, <1>7, <1>8, <1>9 DEF Obeys

\* Every accepted body was permitted by the policy then in force.
PermittedInv ==
  \A i \in 1..Len(chain) : under[i] # NoPolicy => PolicyPermits(under[i], chain[i])

\* Accepting a body keeps that.
LEMMA PermittedStep ==
  ASSUME TypeOK, PermittedInv, [Next]_vars
  PROVE  PermittedInv'
<1>1. CASE UNCHANGED <<chain, under>>
  BY <1>1 DEF PermittedInv
<1>2. ASSUME NEW b \in Bodies, Accept(b) PROVE PermittedInv'
  <2>1. /\ chain' = Append(chain, b) /\ under' = Append(under, policy)
        /\ policy # NoPolicy => PolicyPermits(policy, b)
    BY <1>2 DEF Accept
  <2> DEFINE n == Len(chain)
  <2>2. /\ n \in Nat /\ Len(chain') = n + 1 /\ chain'[n + 1] = b
        /\ \A i \in 1..n : chain'[i] = chain[i]
    BY <2>1, Appended DEF TypeOK
  <2>3. under'[n + 1] = policy /\ \A i \in 1..n : under'[i] = under[i]
    BY <2>1, Appended DEF TypeOK
  <2>4. \A i \in 1..n : under[i] # NoPolicy => PolicyPermits(under[i], chain[i])
    BY DEF PermittedInv
  <2> HIDE DEF n
  <2>5. ASSUME NEW i \in 1..(n + 1), under'[i] # NoPolicy
        PROVE  PolicyPermits(under'[i], chain'[i])
    <3>1. CASE i = n + 1
      BY <2>1, <2>2, <2>3, <2>5, <3>1
    <3>2. CASE i # n + 1
      <4>1. i \in 1..n
        BY <2>2, <3>2
      <4> QED
        BY <2>2, <2>3, <2>4, <2>5, <4>1
    <3> QED
      BY <3>1, <3>2
  <2> QED
    BY <2>2, <2>5 DEF PermittedInv
<1> QED
  BY <1>1, <1>2 DEF Next, vars, InstallPolicy, Register, Publish

\* check_contract_against_policy binds the first LogLimit requirements of
\* every accepted body, whatever the order and the number of the others and
\* however many diagnostics the log has dropped.
THEOREM PolicyIsBinding == Spec => []PolicyBinds
<1>1. Init => PermittedInv
  BY DEF Init, PermittedInv
<1>2. TypeOK /\ PermittedInv /\ [Next]_vars => PermittedInv'
  BY PermittedStep
<1>3. ASSUME TypeOK, PermittedInv PROVE PolicyBinds
  <2>1. /\ DOMAIN chain = 1..Len(chain)
        /\ \A i \in 1..Len(chain) : chain[i] \in Bodies /\ under[i] \in Policies \cup {NoPolicy}
    BY <1>3 DEF TypeOK
  <2>2. SUFFICES ASSUME NEW i \in 1..Len(chain),
                        NEW k \in DOMAIN chain[i].requirements \cap (1..LogLimit),
                        under[i] # NoPolicy, NEW rule \in under[i].rules,
                        rule.kind = chain[i].requirements[k].kind,
                        rule.scope \in {"", chain[i].requirements[k].scope},
                        rule.key \in {"", chain[i].requirements[k].key}
                 PROVE  Obeys(rule, chain[i].requirements[k])
    BY <2>1 DEF PolicyBinds
  <2>3. chain[i] \in Bodies /\ under[i] \in Policies
    BY <2>1, <2>2
  <2>4. ErrorsOf(under[i], chain[i].requirements[k]) = {}
    BY <1>3, <2>2, <2>3, PermittedHasNoErrors DEF PermittedInv
  <2>5. TypedRule(rule) /\ WellTyped(chain[i].requirements[k])
    BY <2>3, PublicationAssumption
  <2>6. RuleApplies(rule, chain[i].requirements[k])
    BY <2>2 DEF RuleApplies
  <2> QED
    BY <2>4, <2>5, <2>6, NoErrorsObeys
<1> QED
  BY <1>1, <1>2, <1>3, PublicationTypes, PTL DEF Spec
=============================================================================
