-------------------------- MODULE CompositionProofs --------------------------
(***************************************************************************)
(* What compose guarantees for all bases, layers and bounds.  The          *)
(* inductive invariant is CompositionInv; the step that needs an argument  *)
(* is Strengthen, where the requirement that replaces another one has to   *)
(* cover everything the replaced one covered.                              *)
(***************************************************************************)
EXTENDS Composition, TLAPS

-----------------------------------------------------------------------------
(* Asking for at least as much *)

\* A requirement asks for everything it asks for.
LEMMA CoversReflexive ==
  ASSUME NEW r, WellTyped(r)
  PROVE  Covers(r, r)
BY DEF Covers, WellTyped, Strengths, Informational, Preferred, Required

\* Requirements with the same key have the same kind.
LEMMA KeyKind ==
  ASSUME NEW r, NEW s, CompositeKey(r) = CompositeKey(s)
  PROVE  r.kind = s.kind
BY DEF CompositeKey

\* Asking for at least as much is transitive.
LEMMA CoversTransitive ==
  ASSUME NEW r, NEW s, NEW t, WellTyped(r), WellTyped(s), WellTyped(t),
         Covers(t, s), Covers(s, r)
  PROVE  Covers(t, r)
<1>1. CompositeKey(t) = CompositeKey(r) /\ s.kind = r.kind /\ t.numeric = r.numeric
  BY KeyKind DEF Covers
<1>2. t.strength >= r.strength
  BY DEF Covers, WellTyped, Strengths, Informational, Preferred, Required
<1>3. r.numeric => IF IsFloor(r.kind) THEN t.target >= r.target /\ t.minimum >= r.minimum
                                      ELSE t.target <= r.target /\ t.minimum <= r.minimum
  BY <1>1 DEF Covers, WellTyped
<1>4. ~r.numeric => t.value = r.value
  BY <1>1 DEF Covers
<1>5. r.kind = "collective" => r.members \subseteq t.members
  BY <1>1 DEF Covers
<1> QED
  BY <1>1, <1>2, <1>3, <1>4, <1>5 DEF Covers

-----------------------------------------------------------------------------
(* Declared as a function of the arguments and the position *)

Passed(n, i, a) == n < a.layer \/ (n = a.layer /\ i < a.item)

DeclaredAt(b, l, a) ==
  RequirementsOf(b)
    \cup {r \in UNION {RequirementsOf(l[n]) : n \in DOMAIN l} :
            \E n \in DOMAIN l : \E i \in DOMAIN l[n].requirements :
              l[n].requirements[i] = r /\ Passed(n, i, a)}

\* Declared depends on the arguments and the position only.
LEMMA DeclaredIs ==
  /\ Declared = DeclaredAt(base, layers, at)
  /\ Declared' = DeclaredAt(base', layers', at')
BY DEF Declared, DeclaredAt, Passed, RequirementsOf

\* Membership in DeclaredAt, element by element.
LEMMA DeclaredMember ==
  ASSUME NEW b, NEW l, NEW a, NEW r
  PROVE  r \in DeclaredAt(b, l, a) <=>
           \/ r \in RequirementsOf(b)
           \/ \E n \in DOMAIN l : \E i \in DOMAIN l[n].requirements :
                l[n].requirements[i] = r /\ Passed(n, i, a)
BY DEF DeclaredAt, RequirementsOf

\* A declared requirement has the types and the band the decoder demands.
LEMMA DeclaredTyped ==
  ASSUME NEW b \in Bases, NEW l \in LayerLists, NEW a, NEW r \in DeclaredAt(b, l, a)
  PROVE  WellTyped(r)
<1>1. CASE r \in RequirementsOf(b)
  BY <1>1, CompositionAssumption DEF RequirementsOf, Decoded
<1>2. CASE \E n \in DOMAIN l : \E i \in DOMAIN l[n].requirements :
             l[n].requirements[i] = r /\ Passed(n, i, a)
  <2>1. PICK n \in DOMAIN l : \E i \in DOMAIN l[n].requirements :
               l[n].requirements[i] = r /\ Passed(n, i, a)
    BY <1>2
  <2>2. Decoded(l[n])
    BY CompositionAssumption
  <2> QED
    BY <2>1, <2>2 DEF Decoded
<1> QED
  BY <1>1, <1>2, DeclaredMember

-----------------------------------------------------------------------------
(* The order of requirements *)

\* compare_requirement_strength prefers to a required requirement only one
\* that asks for at least as much: nothing is stronger than required, so the
\* bounds or the value have been compared.
LEMMA CompareCovers ==
  ASSUME NEW s, NEW r, WellTyped(s), WellTyped(r), CompositeKey(s) = CompositeKey(r),
         Compare(s, r) > 0, r.strength = Required, r.kind # "collective"
  PROVE  Covers(s, r)
<1>1. s.strength = r.strength
  BY DEF Compare, WellTyped, Strengths, Informational, Preferred, Required
<1>2. s.kind = r.kind
  BY KeyKind
<1>3. CASE s.numeric /\ r.numeric
  <2>1. Dominates(s, r)
    BY <1>1, <1>3 DEF Compare
  <2> QED
    BY <2>1, <1>1, <1>2, <1>3 DEF Dominates, Covers, WellTyped, Required
<1>4. CASE ~s.numeric /\ ~r.numeric
  <2>1. SameConstraint(s, r)
    BY <1>1, <1>4 DEF Compare
  <2> QED
    BY <2>1, <1>1, <1>2, <1>4 DEF SameConstraint, Covers, WellTyped, Required
<1>5. CASE s.numeric # r.numeric
  <2>1. Compare(s, r) = 0
    BY <1>1, <1>5 DEF Compare, WellTyped
  <2> QED
    BY <2>1
<1> QED
  BY <1>3, <1>4, <1>5 DEF WellTyped

-----------------------------------------------------------------------------
(* What each step does to the declared requirements *)

\* The lists of a layer are sequences.
LEMMA LayerTyped ==
  ASSUME NEW l \in LayerLists
  PROVE  /\ Len(l) \in Nat /\ DOMAIN l = 1..Len(l)
         /\ \A n \in DOMAIN l :
              /\ Len(l[n].scopes) \in Nat /\ DOMAIN l[n].scopes = 1..Len(l[n].scopes)
              /\ Len(l[n].requirements) \in Nat
              /\ DOMAIN l[n].requirements = 1..Len(l[n].requirements)
BY CompositionAssumption DEF IsList, Decoded

\* At the start the base alone is declared.
LEMMA DeclaredFirst ==
  ASSUME NEW b, NEW l \in LayerLists
  PROVE  DeclaredAt(b, l, [layer |-> 1, scope |-> 1, item |-> 1]) = RequirementsOf(b)
<1> DEFINE a == [layer |-> 1, scope |-> 1, item |-> 1]
<1>1. ASSUME NEW n \in DOMAIN l, NEW i \in DOMAIN l[n].requirements
      PROVE  ~Passed(n, i, a)
  BY LayerTyped DEF Passed
<1> HIDE DEF a
<1>2. \A r : r \in DeclaredAt(b, l, a) <=> r \in RequirementsOf(b)
  BY <1>1, DeclaredMember
<1> QED
  BY <1>2 DEF a

\* A requirement that is passed becomes declared, and nothing else does.
LEMMA DeclaredNext ==
  ASSUME NEW b, NEW l \in LayerLists, NEW a, NEW c,
         a \in [layer : Nat, scope : Nat, item : Nat],
         a.layer \in DOMAIN l, a.item \in DOMAIN l[a.layer].requirements,
         c = [a EXCEPT !.item = @ + 1]
  PROVE  DeclaredAt(b, l, c) = DeclaredAt(b, l, a) \cup {l[a.layer].requirements[a.item]}
<1> DEFINE q == l[a.layer].requirements[a.item]
<1>1. ASSUME NEW n \in DOMAIN l, NEW i \in DOMAIN l[n].requirements
      PROVE  Passed(n, i, c) <=> (Passed(n, i, a) \/ (n = a.layer /\ i = a.item))
  BY LayerTyped DEF Passed
<1> HIDE DEF q
<1>2. ASSUME NEW r
      PROVE  r \in DeclaredAt(b, l, c) <=> (r \in DeclaredAt(b, l, a) \/ r = q)
  <2>1. (\E n \in DOMAIN l : \E i \in DOMAIN l[n].requirements :
           l[n].requirements[i] = r /\ Passed(n, i, c))
        <=> \/ \E n \in DOMAIN l : \E i \in DOMAIN l[n].requirements :
                 l[n].requirements[i] = r /\ Passed(n, i, a)
            \/ r = q
    BY <1>1 DEF q
  <2> QED
    BY <2>1, DeclaredMember
<1> QED
  BY <1>2 DEF q

\* Moving on at the end of a layer declares nothing.
LEMMA DeclaredNextLayer ==
  ASSUME NEW b, NEW l \in LayerLists, NEW a, NEW c,
         a \in [layer : Nat, scope : Nat, item : Nat], a.layer \in DOMAIN l,
         a.item > Len(l[a.layer].requirements),
         c = [layer |-> a.layer + 1, scope |-> 1, item |-> 1]
  PROVE  DeclaredAt(b, l, c) = DeclaredAt(b, l, a)
<1>1. ASSUME NEW n \in DOMAIN l, NEW i \in DOMAIN l[n].requirements
      PROVE  Passed(n, i, c) <=> Passed(n, i, a)
  BY LayerTyped DEF Passed
<1>2. \A r : r \in DeclaredAt(b, l, c) <=> r \in DeclaredAt(b, l, a)
  BY <1>1, DeclaredMember
<1> QED
  BY <1>2

\* Nor does taking a scope.
LEMMA DeclaredSameItem ==
  ASSUME NEW b, NEW l, NEW a, NEW c, c.layer = a.layer, c.item = a.item
  PROVE  DeclaredAt(b, l, c) = DeclaredAt(b, l, a)
BY DEF DeclaredAt, Passed

-----------------------------------------------------------------------------
(* The invariant *)

CompositionInv == TypeOK /\ KeysUnique /\ RequiredSurvives

Refused == {"too_many_layers", "duplicate_requirement"}

\* The state in which a requirement is taken: the position is inside the
\* lists, and the requirement is well typed.
LEMMA Taking ==
  ASSUME TypeOK, HasIncoming
  PROVE  /\ at \in [layer : Nat, scope : Nat, item : Nat]
         /\ at.layer \in DOMAIN layers /\ at.item \in DOMAIN layers[at.layer].requirements
         /\ outcome = "running"
         /\ WellTyped(Incoming)
<1>1. /\ at \in [layer : Nat, scope : Nat, item : Nat]
      /\ at.layer \in DOMAIN layers /\ at.item \in DOMAIN layers[at.layer].requirements
      /\ outcome = "running"
  <2>1. /\ layers \in LayerLists
        /\ at \in [layer : 1..(Len(layers) + 1), scope : Nat, item : Nat]
        /\ at.layer <= Len(layers) => at.item \in 1..(Len(layers[at.layer].requirements) + 1)
    BY DEF TypeOK, Layer
  <2>2. /\ outcome = "running" /\ at.layer <= Len(layers)
        /\ at.item <= Len(layers[at.layer].requirements)
    BY DEF HasIncoming, ScopesTaken, Running, Layer
  <2>3. Len(layers) \in Nat /\ at.layer \in DOMAIN layers
    BY <2>1, <2>2, LayerTyped
  <2>4. at.item \in DOMAIN layers[at.layer].requirements
    BY <2>1, <2>2, <2>3, LayerTyped
  <2> QED
    BY <2>1, <2>2, <2>3, <2>4
<1>2. Decoded(layers[at.layer])
  BY <1>1, CompositionAssumption DEF TypeOK
<1> QED
  BY <1>1, <1>2 DEF Decoded, Incoming, Layer

\* After a requirement was taken the position and the declared requirements
\* are those of the next one.
LEMMA Taken ==
  ASSUME TypeOK, HasIncoming, Advance, UNCHANGED arguments
  PROVE  /\ at' \in [layer : 1..(Len(layers) + 1), scope : Nat, item : Nat]
         /\ at'.layer = at.layer /\ at'.scope = at.scope /\ at'.item = at.item + 1
         /\ Declared' = Declared \cup {Incoming}
<1>1. /\ at \in [layer : 1..(Len(layers) + 1), scope : Nat, item : Nat]
      /\ at' = [at EXCEPT !.item = @ + 1]
  BY DEF TypeOK, Advance
<1>2. /\ at' \in [layer : 1..(Len(layers) + 1), scope : Nat, item : Nat]
      /\ at'.layer = at.layer /\ at'.scope = at.scope /\ at'.item = at.item + 1
  BY <1>1
<1>3. DeclaredAt(base, layers, at') = DeclaredAt(base, layers, at) \cup {Incoming}
  <2>1. layers \in LayerLists
    BY DEF TypeOK
  <2> QED
    BY <1>1, <2>1, Taking, DeclaredNext, SMTT(30) DEF Incoming, Layer
<1>4. base' = base /\ layers' = layers
  BY DEF arguments
<1> QED
  BY <1>2, <1>3, <1>4, DeclaredIs

\* The types of the position after a requirement was taken.
LEMMA TakenTypes ==
  ASSUME TypeOK, HasIncoming, Advance, UNCHANGED <<arguments, outcome>>,
         composed' \subseteq Declared'
  PROVE  TypeOK'
<1>1. base' = base /\ layers' = layers /\ outcome' = outcome
  BY DEF arguments
<1>2. /\ at' \in [layer : 1..(Len(layers) + 1), scope : Nat, item : Nat]
      /\ at'.layer = at.layer /\ at'.scope = at.scope /\ at'.item = at.item + 1
  BY Taken
<1>3. at.item <= Len(Layer.requirements) /\ at.layer <= Len(layers)
  BY DEF HasIncoming, ScopesTaken, Running
<1>4. Len(Layer.requirements) \in Nat /\ Len(Layer.scopes) \in Nat
  BY Taking, LayerTyped DEF TypeOK, Layer
<1>5. Layer' = Layer
  BY <1>1, <1>2 DEF Layer
<1>6. at.item \in Nat /\ at.scope \in 1..(Len(Layer.scopes) + 1) /\ at.item >= 1
  BY <1>3, <1>4 DEF TypeOK
<1>7. /\ at'.scope \in 1..(Len(Layer'.scopes) + 1)
      /\ at'.item \in 1..(Len(Layer'.requirements) + 1)
  BY <1>2, <1>3, <1>4, <1>5, <1>6
<1> QED
  BY <1>1, <1>2, <1>7 DEF TypeOK

\* A step that changes neither the position in the requirements nor what is
\* declared keeps the parts about requirements.
LEMMA SameRequirements ==
  ASSUME CompositionInv, Declared' = Declared, composed' = composed,
         outcome \notin Refused
  PROVE  KeysUnique' /\ RequiredSurvives'
BY DEF CompositionInv, KeysUnique, RequiredSurvives, Refused

\* The first state: the base alone is declared and composed.
LEMMA CompositionStart == Init => CompositionInv
<1> SUFFICES ASSUME Init PROVE CompositionInv
  OBVIOUS
<1> USE DEF Init
<1>1. Declared = RequirementsOf(base) /\ composed = RequirementsOf(base)
  BY DeclaredIs, DeclaredFirst
<1>2. TypeOK
  <2>1. Len(layers) \in Nat
    BY LayerTyped
  <2>2. at.layer <= Len(layers) => /\ at.scope \in 1..(Len(Layer.scopes) + 1)
                                   /\ at.item \in 1..(Len(Layer.requirements) + 1)
    BY <2>1, LayerTyped DEF Layer
  <2>3. outcome \in Outcomes /\ (outcome # "too_many_layers" => Len(layers) <= MaxLayers)
    BY <2>1, CompositionAssumption DEF Start, Outcomes
  <2> QED
    BY <1>1, <2>1, <2>2, <2>3 DEF TypeOK
<1>3. KeysUnique
  BY DEF KeysUnique, Start, Distinct, RequirementsOf
<1>4. RequiredSurvives
  <2>1. \A r \in Declared : Covers(r, r)
    BY DeclaredIs, DeclaredTyped, CoversReflexive
  <2> QED
    BY <1>1, <2>1 DEF RequiredSurvives
<1> QED
  BY <1>2, <1>3, <1>4 DEF CompositionInv

\* Adding a requirement with a new key.
LEMMA AddKeeps ==
  ASSUME CompositionInv, Add
  PROVE  CompositionInv'
<1>1. TypeOK /\ HasIncoming /\ Advance /\ UNCHANGED <<arguments, outcome>>
  BY DEF CompositionInv, Add
<1>2. outcome = "running" /\ WellTyped(Incoming)
  BY <1>1, Taking
<1>3. Declared' = Declared \cup {Incoming}
  BY <1>1, Taken
<1>4. composed' = composed \cup {Incoming}
      /\ \A r \in composed : CompositeKey(r) # CompositeKey(Incoming)
  BY DEF Add, Accumulated
<1>5. TypeOK'
  <2>1. composed' \subseteq Declared'
    BY <1>1, <1>3, <1>4 DEF TypeOK
  <2> QED
    BY <1>1, <2>1, TakenTypes
<1>6. KeysUnique'
  BY <1>2, <1>4 DEF CompositionInv, KeysUnique
<1>7. RequiredSurvives'
  BY <1>2, <1>3, <1>4, CoversReflexive DEF CompositionInv, RequiredSurvives
<1> QED
  BY <1>5, <1>6, <1>7 DEF CompositionInv

\* Replacing a requirement by one that compares as stronger: whatever the
\* replaced one covered and is required is covered by the new one.
LEMMA StrengthenKeeps ==
  ASSUME CompositionInv, Strengthen
  PROVE  CompositionInv'
<1>1. PICK r \in composed :
        /\ HasIncoming /\ CompositeKey(r) = CompositeKey(Incoming)
        /\ Compare(Incoming, r) > 0
        /\ composed' = (composed \ {r}) \cup {Incoming}
        /\ Advance /\ UNCHANGED <<arguments, outcome>>
  BY DEF Strengthen
<1>2. TypeOK
  BY DEF CompositionInv
<1>3. outcome = "running" /\ WellTyped(Incoming)
  BY <1>1, <1>2, Taking
<1>4. Declared' = Declared \cup {Incoming}
  BY <1>1, <1>2, Taken
<1>5. TypeOK'
  <2>1. composed' \subseteq Declared'
    BY <1>1, <1>2, <1>4 DEF TypeOK
  <2> QED
    BY <1>1, <1>2, <2>1, TakenTypes
<1>6. \A s \in composed : s # r => CompositeKey(s) # CompositeKey(Incoming)
  BY <1>1, <1>3 DEF CompositionInv, KeysUnique
<1>7. KeysUnique'
  BY <1>1, <1>3, <1>6 DEF CompositionInv, KeysUnique
<1>8. \A q \in Declared : WellTyped(q)
  BY <1>2, DeclaredIs, DeclaredTyped DEF TypeOK
<1>9. RequiredSurvives'
  <2>1. SUFFICES ASSUME NEW q \in Declared', q.strength = Required, q.kind # "collective"
                 PROVE  \E s \in composed' : Covers(s, q)
    BY DEF RequiredSurvives
  <2>2. CASE q = Incoming
    BY <1>1, <1>3, <2>2, CoversReflexive
  <2>3. CASE q \in Declared
    <3>1. PICK s \in composed : Covers(s, q)
      BY <1>3, <2>1, <2>3 DEF CompositionInv, RequiredSurvives
    <3>2. CASE s # r
      BY <1>1, <3>1, <3>2
    <3>3. CASE s = r
      <4>1. WellTyped(q) /\ WellTyped(r)
        BY <1>2, <1>8, <2>3 DEF TypeOK
      <4>2. r.kind = q.kind
        BY <3>1, <3>3, KeyKind DEF Covers
      <4>3. r.strength = Required
        BY <2>1, <3>1, <3>3, <4>1 DEF Covers, WellTyped, Strengths, Required, Preferred, Informational
      <4>4. Covers(Incoming, r)
        BY <1>1, <1>3, <2>1, <4>1, <4>2, <4>3, CompareCovers
      <4>5. Covers(Incoming, q)
        BY <1>3, <3>1, <3>3, <4>1, <4>4, CoversTransitive
      <4> QED
        BY <1>1, <4>5
    <3> QED
      BY <3>2, <3>3
  <2> QED
    BY <1>4, <2>1, <2>2, <2>3
<1> QED
  BY <1>5, <1>7, <1>9 DEF CompositionInv

\* A scope is taken.
LEMMA TakeScopeKeeps ==
  ASSUME CompositionInv, TakeScope
  PROVE  CompositionInv'
<1>1. /\ outcome = "running" /\ at.layer <= Len(layers)
      /\ at.scope <= Len(Layer.scopes) /\ at' = [at EXCEPT !.scope = @ + 1]
      /\ base' = base /\ layers' = layers /\ composed' = composed /\ outcome' = outcome
  BY DEF TakeScope, HasScope, Running, NextScope, arguments
<1>2. /\ layers \in LayerLists
      /\ at \in [layer : 1..(Len(layers) + 1), scope : Nat, item : Nat]
  BY DEF CompositionInv, TypeOK
<1>3. /\ at' \in [layer : 1..(Len(layers) + 1), scope : Nat, item : Nat]
      /\ at'.layer = at.layer /\ at'.item = at.item /\ at'.scope = at.scope + 1
  BY <1>1, <1>2
<1>4. Declared' = Declared
  BY <1>1, <1>3, DeclaredIs, DeclaredSameItem
<1>5. TypeOK'
  <2>1. Layer' = Layer
    BY <1>1, <1>3 DEF Layer
  <2>2. Len(Layer.scopes) \in Nat
    BY <1>1, <1>2, LayerTyped DEF Layer
  <2>3. at.scope \in 1..(Len(Layer.scopes) + 1) /\ at.item \in 1..(Len(Layer.requirements) + 1)
    BY <1>1 DEF CompositionInv, TypeOK
  <2>4. /\ at'.scope \in 1..(Len(Layer'.scopes) + 1)
        /\ at'.item \in 1..(Len(Layer'.requirements) + 1)
    BY <1>1, <1>2, <1>3, <2>1, <2>2, <2>3
  <2> QED
    BY <1>1, <1>3, <1>4, <2>4 DEF CompositionInv, TypeOK
<1> QED
  BY <1>1, <1>4, <1>5, SameRequirements DEF CompositionInv, Refused

\* The next layer begins.
LEMMA NextLayerKeeps ==
  ASSUME CompositionInv, NextLayer
  PROVE  CompositionInv'
<1>1. /\ outcome = "running" /\ at.layer <= Len(layers)
      /\ at.item > Len(layers[at.layer].requirements)
      /\ at' = [layer |-> at.layer + 1, scope |-> 1, item |-> 1]
      /\ base' = base /\ layers' = layers /\ composed' = composed /\ outcome' = outcome
  BY DEF NextLayer, ScopesTaken, Running, Layer, arguments
<1>2. /\ layers \in LayerLists
      /\ at \in [layer : 1..(Len(layers) + 1), scope : Nat, item : Nat]
  BY DEF CompositionInv, TypeOK
<1>3. Len(layers) \in Nat /\ at.layer \in DOMAIN layers /\ at.layer \in Nat
  BY <1>1, <1>2, LayerTyped
<1>4. at' \in [layer : 1..(Len(layers) + 1), scope : Nat, item : Nat]
  BY <1>1, <1>2, <1>3
<1>5. Declared' = Declared
  <2>1. at \in [layer : Nat, scope : Nat, item : Nat]
    BY <1>2, <1>3
  <2> QED
    BY <1>1, <1>2, <1>3, <2>1, DeclaredIs, DeclaredNextLayer
<1>6. TypeOK'
  <2>1. at'.layer <= Len(layers) => /\ Len(Layer'.scopes) \in Nat
                                    /\ Len(Layer'.requirements) \in Nat
    BY <1>1, <1>2, <1>3, LayerTyped DEF Layer
  <2>2. at'.layer <= Len(layers) => /\ at'.scope \in 1..(Len(Layer'.scopes) + 1)
                                    /\ at'.item \in 1..(Len(Layer'.requirements) + 1)
    BY <1>1, <2>1
  <2> QED
    BY <1>1, <1>4, <1>5, <2>2 DEF CompositionInv, TypeOK
<1> QED
  BY <1>1, <1>5, <1>6, SameRequirements DEF CompositionInv, Refused

\* The composition ends, refused or not.
LEMMA EndKeeps ==
  ASSUME CompositionInv, outcome = "running", outcome' \in Outcomes,
         outcome' # "too_many_layers", UNCHANGED <<arguments, at, composed>>
  PROVE  CompositionInv'
<1>1. base' = base /\ layers' = layers /\ at' = at /\ composed' = composed
  BY DEF arguments
<1>2. Declared' = Declared /\ Layer' = Layer
  BY <1>1, DeclaredIs DEF Layer
<1>3. TypeOK'
  BY <1>1, <1>2 DEF CompositionInv, TypeOK
<1> QED
  BY <1>1, <1>2, <1>3, SameRequirements DEF CompositionInv, Refused

\* Every step of compose keeps the invariant.
LEMMA CompositionStep ==
  ASSUME CompositionInv, [Next]_vars
  PROVE  CompositionInv'
<1>1. CASE TakeScope
  BY <1>1, TakeScopeKeeps
<1>2. CASE RefuseUnnamed
  BY <1>2, EndKeeps DEF RefuseUnnamed, Refuse, Running, Outcomes
<1>3. CASE Add
  BY <1>3, AddKeeps
<1>4. CASE Strengthen
  BY <1>4, StrengthenKeeps
<1>5. CASE RefuseWeakening
  BY <1>5, EndKeeps
     DEF RefuseWeakening, Refuse, HasIncoming, ScopesTaken, Running, Outcomes
<1>6. CASE RefuseConflict
  BY <1>6, EndKeeps
     DEF RefuseConflict, Refuse, HasIncoming, ScopesTaken, Running, Outcomes
<1>7. CASE NextLayer
  BY <1>7, NextLayerKeeps
<1>8. CASE Finish
  BY <1>8, EndKeeps DEF Finish, Outcomes
<1>9. CASE UNCHANGED vars
  <2>1. /\ base' = base /\ layers' = layers /\ at' = at /\ composed' = composed
        /\ outcome' = outcome
    BY <1>9 DEF vars
  <2>2. Declared' = Declared /\ Layer' = Layer
    BY <2>1, DeclaredIs DEF Layer
  <2> QED
    BY <2>1, <2>2 DEF CompositionInv, TypeOK, KeysUnique, RequiredSurvives
<1> QED
  BY <1>1, <1>2, <1>3, <1>4, <1>5, <1>6, <1>7, <1>8, <1>9 DEF Next

-----------------------------------------------------------------------------
(* The report *)

\* The decision at place d accounts for requirement r: it is the last one on
\* r's key, and it names a layer that declares r.
Accounts(d, r) ==
  /\ decisions[d].key = CompositeKey(r)
  /\ decisions[d].kind \in {"added", "strengthened"}
  /\ r \in RequirementsOf(layers[decisions[d].layer])
  /\ \A e \in DOMAIN decisions : e > d => decisions[e].key # CompositeKey(r)

\* ReportExplains at every step of a composition that is not refused.
Reported ==
  /\ decisions \in Seq({decisions[i] : i \in DOMAIN decisions})
  /\ outcome \in {"running", "ok"} =>
       \A r \in composed \ RequirementsOf(base) :
         \E d \in DOMAIN decisions : Accounts(d, r)

\* A sequence is one over its own elements.
LEMMA OwnElements ==
  ASSUME NEW S, NEW s \in Seq(S)
  PROVE  s \in Seq({s[i] : i \in DOMAIN s})
<1> DEFINE T == {s[i] : i \in DOMAIN s}
<1>1. \A i \in 1..Len(s) : s[i] \in T
  OBVIOUS
<1> HIDE DEF T
<1>2. s \in [1..Len(s) -> T] /\ Len(s) \in Nat
  BY <1>1
<1>3. s \in Seq(T)
  BY <1>2
<1> QED
  BY <1>3 DEF T

\* What one more decision does to a list of them.
LEMMA OneMore ==
  ASSUME NEW e, decisions \in Seq({decisions[i] : i \in DOMAIN decisions}),
         decisions' = Append(decisions, e)
  PROVE  /\ decisions' \in Seq({decisions'[i] : i \in DOMAIN decisions'})
         /\ Len(decisions) \in Nat
         /\ DOMAIN decisions = 1..Len(decisions)
         /\ DOMAIN decisions' = 1..(Len(decisions) + 1)
         /\ \A i \in DOMAIN decisions : decisions'[i] = decisions[i]
         /\ decisions'[Len(decisions) + 1] = e
<1> DEFINE S == {decisions[i] : i \in DOMAIN decisions}
           s == decisions
           t == decisions'
<1>1. s \in Seq(S) /\ t = Append(s, e)
  OBVIOUS
<1> HIDE DEF S, s, t
<1>2. s \in Seq(S \cup {e})
  BY <1>1
<1>3. /\ t \in Seq(S \cup {e})
      /\ Len(s) \in Nat /\ DOMAIN s = 1..Len(s) /\ DOMAIN t = 1..(Len(s) + 1)
      /\ \A i \in DOMAIN s : t[i] = s[i]
      /\ t[Len(s) + 1] = e
  BY <1>1, <1>2
<1>4. t \in Seq({t[i] : i \in DOMAIN t})
  <2> DEFINE U == S \cup {e}
  <2>1. t \in Seq(U)
    BY <1>3
  <2> HIDE DEF U
  <2> QED
    BY <2>1, OwnElements
<1> QED
  BY <1>3, <1>4 DEF s, t

\* A decision on another key leaves what accounts for a requirement.
LEMMA StillAccounts ==
  ASSUME NEW e, decisions \in Seq({decisions[i] : i \in DOMAIN decisions}),
         decisions' = Append(decisions, e), layers' = layers,
         NEW d \in DOMAIN decisions, NEW r, Accounts(d, r), e.key # CompositeKey(r)
  PROVE  d \in DOMAIN decisions' /\ Accounts(d, r)'
<1>1. /\ d \in DOMAIN decisions' /\ decisions'[d] = decisions[d]
      /\ \A i \in DOMAIN decisions' :
           i \in DOMAIN decisions \/ (i = Len(decisions) + 1 /\ decisions'[i] = e)
      /\ \A i \in DOMAIN decisions : decisions'[i] = decisions[i]
  BY OneMore
<1>2. \A i \in DOMAIN decisions' : i > d => decisions'[i].key # CompositeKey(r)
  BY <1>1 DEF Accounts
<1>3. /\ decisions'[d].key = CompositeKey(r)
      /\ decisions'[d].kind \in {"added", "strengthened"}
      /\ r \in RequirementsOf(layers'[decisions'[d].layer])
  BY <1>1 DEF Accounts
<1> QED
  BY <1>1, <1>2, <1>3 DEF Accounts

\* The decision on a requirement that is taken accounts for it.
LEMMA NowAccounts ==
  ASSUME TypeOK, HasIncoming, NEW kind \in {"added", "strengthened"}, Decided(kind),
         decisions \in Seq({decisions[i] : i \in DOMAIN decisions}), layers' = layers
  PROVE  \E d \in DOMAIN decisions' :
           /\ decisions'[d].key = CompositeKey(Incoming)
           /\ decisions'[d].kind \in {"added", "strengthened"}
           /\ Incoming \in RequirementsOf(layers'[decisions'[d].layer])
           /\ \A e \in DOMAIN decisions' : e > d => decisions'[e].key # CompositeKey(Incoming)
<1> DEFINE n == Len(decisions) + 1
           e == [kind |-> kind, layer |-> at.layer, key |-> CompositeKey(Incoming)]
<1>1. decisions' = Append(decisions, e)
  BY DEF Decided
<1>2. e.kind = kind /\ e.layer = at.layer /\ e.key = CompositeKey(Incoming)
  OBVIOUS
<1> HIDE DEF e
<1>3. n \in DOMAIN decisions' /\ decisions'[n] = e /\ DOMAIN decisions' = 1..n /\ n \in Nat
  BY <1>1, OneMore
<1>4. Incoming \in RequirementsOf(layers[at.layer])
  BY Taking DEF Incoming, Layer, RequirementsOf
<1>5. \A i \in DOMAIN decisions' : ~(i > n)
  BY <1>3
<1> HIDE DEF n
<1> QED
  BY <1>2, <1>3, <1>4, <1>5

\* The report of a composition explains the requirements that are not the
\* base's, at every step.
LEMMA ReportedStep ==
  ASSUME CompositionInv, Reported, [Next]_vars
  PROVE  Reported'
<1>1. decisions \in Seq({decisions[i] : i \in DOMAIN decisions}) /\ TypeOK
  BY DEF Reported, CompositionInv
<1>2. CASE Add \/ Strengthen
  <2>1. PICK kind \in {"added", "strengthened"}, gone \in SUBSET composed :
          /\ HasIncoming /\ Decided(kind) /\ base' = base /\ layers' = layers
          /\ outcome' = outcome
          /\ composed' = (composed \ gone) \cup {Incoming}
          /\ \A r \in composed \ gone : CompositeKey(r) # CompositeKey(Incoming)
    <3>1. CASE Add
      <4>1. /\ HasIncoming /\ Decided("added") /\ base' = base /\ layers' = layers
            /\ outcome' = outcome
            /\ composed' = (composed \ {}) \cup {Incoming}
            /\ \A r \in composed \ {} : CompositeKey(r) # CompositeKey(Incoming)
        BY <3>1 DEF Add, Accumulated, arguments
      <4>2. {} \in SUBSET composed /\ "added" \in {"added", "strengthened"}
        OBVIOUS
      <4> QED
        BY <4>1, <4>2, Zenon
    <3>2. CASE Strengthen
      <4>1. PICK r \in composed :
              /\ HasIncoming /\ CompositeKey(r) = CompositeKey(Incoming)
              /\ composed' = (composed \ {r}) \cup {Incoming}
              /\ Decided("strengthened") /\ UNCHANGED <<arguments, outcome>>
        BY <3>2 DEF Strengthen
      <4>2. outcome = "running"
        BY <1>1, <4>1, Taking
      <4>3. \A s \in composed \ {r} : CompositeKey(s) # CompositeKey(Incoming)
        BY <4>1, <4>2 DEF CompositionInv, KeysUnique
      <4> QED
        BY <4>1, <4>3 DEF arguments
    <3> QED
      BY <1>2, <3>1, <3>2
  <2> DEFINE e == [kind |-> kind, layer |-> at.layer, key |-> CompositeKey(Incoming)]
  <2>2. decisions' = Append(decisions, e) /\ e.key = CompositeKey(Incoming)
    BY <2>1 DEF Decided
  <2> HIDE DEF e
  <2>3. decisions' \in Seq({decisions'[i] : i \in DOMAIN decisions'})
    BY <1>1, <2>2, OneMore
  <2>4. outcome = "running"
    BY <1>1, <2>1, Taking
  <2>5. ASSUME NEW r \in composed' \ RequirementsOf(base')
        PROVE  \E d \in DOMAIN decisions' : Accounts(d, r)'
    <3>1. CASE r = Incoming
      <4>1. PICK d \in DOMAIN decisions' :
              /\ decisions'[d].key = CompositeKey(Incoming)
              /\ decisions'[d].kind \in {"added", "strengthened"}
              /\ Incoming \in RequirementsOf(layers'[decisions'[d].layer])
              /\ \A f \in DOMAIN decisions' : f > d => decisions'[f].key # CompositeKey(Incoming)
        BY <1>1, <2>1, NowAccounts
      <4>2. Accounts(d, r)'
        BY <3>1, <4>1 DEF Accounts
      <4> QED
        BY <4>2
    <3>2. CASE r \in composed \ gone
      <4>1. PICK d \in DOMAIN decisions : Accounts(d, r)
        BY <2>1, <2>4, <2>5, <3>2 DEF Reported
      <4>2. CompositeKey(r) # CompositeKey(Incoming)
        BY <2>1, <3>2
      <4>3. d \in DOMAIN decisions' /\ Accounts(d, r)'
        BY <1>1, <2>1, <2>2, <4>1, <4>2, StillAccounts
      <4> QED
        BY <4>3
    <3> QED
      BY <2>1, <2>5, <3>1, <3>2
  <2> QED
    BY <2>3, <2>5 DEF Reported
<1>3. CASE TakeScope /\ decisions' # decisions
  <2>1. PICK s :
          /\ decisions' = Append(decisions, [kind |-> "added", layer |-> at.layer,
                                             key |-> <<s.name>>])
          /\ base' = base /\ layers' = layers /\ composed' = composed /\ outcome' = outcome
    BY <1>3 DEF TakeScope, AddScope, arguments
  <2> DEFINE e == [kind |-> "added", layer |-> at.layer, key |-> <<s.name>>]
  <2>2. decisions' = Append(decisions, e) /\ e.key = <<s.name>>
    BY <2>1
  <2> HIDE DEF e
  <2>3. decisions' \in Seq({decisions'[i] : i \in DOMAIN decisions'})
    BY <1>1, <2>2, OneMore
  <2>4. \A r : <<s.name>> # CompositeKey(r)
    BY DEF CompositeKey
  <2>5. ASSUME NEW r \in composed' \ RequirementsOf(base'), outcome \in {"running", "ok"}
        PROVE  \E d \in DOMAIN decisions' : Accounts(d, r)'
    <3>1. PICK d \in DOMAIN decisions : Accounts(d, r)
      BY <2>1, <2>5 DEF Reported
    <3>2. d \in DOMAIN decisions' /\ Accounts(d, r)'
      BY <1>1, <2>1, <2>2, <2>4, <3>1, StillAccounts
    <3> QED
      BY <3>2
  <2> QED
    BY <2>1, <2>3, <2>5 DEF Reported
<1>4. CASE RefuseWeakening \/ RefuseConflict
  <2>1. PICK kind : Decided(kind)
    BY <1>4 DEF RefuseWeakening, RefuseConflict
  <2>2. outcome' \notin {"running", "ok"}
    BY <1>4 DEF RefuseWeakening, RefuseConflict, Refuse
  <2>3. decisions' \in Seq({decisions'[i] : i \in DOMAIN decisions'})
    BY <1>1, <2>1, OneMore DEF Decided
  <2> QED
    BY <2>2, <2>3 DEF Reported
<1>5. CASE /\ base' = base /\ layers' = layers /\ decisions' = decisions
           /\ composed' = composed
           /\ outcome' \in {"running", "ok"} => outcome \in {"running", "ok"}
  BY <1>5 DEF Reported, Accounts
<1>6. CASE NextLayer \/ Finish \/ RefuseUnnamed \/ (TakeScope /\ decisions' = decisions)
           \/ UNCHANGED vars
  <2>1. /\ base' = base /\ layers' = layers /\ decisions' = decisions
        /\ composed' = composed
        /\ outcome' \in {"running", "ok"} => outcome \in {"running", "ok"}
    BY <1>6 DEF NextLayer, Finish, RefuseUnnamed, Refuse, TakeScope, vars, arguments
  <2> QED
    BY <1>5, <2>1
<1> QED
  BY <1>2, <1>3, <1>4, <1>6 DEF Next

-----------------------------------------------------------------------------
(* Theorems *)

\* compose keeps its invariant: for all bases, lists of layers and bounds.
THEOREM CompositionInvariant == Spec => []CompositionInv
<1>1. Init => CompositionInv
  BY CompositionStart
<1>2. CompositionInv /\ [Next]_vars => CompositionInv'
  BY CompositionStep
<1> QED
  BY <1>1, <1>2, PTL DEF Spec

\* Types; no layer is taken beyond the bound, and nothing is composed that the
\* base or a layer already passed does not declare.
THEOREM CompositionTypes == Spec => []TypeOK
<1>1. CompositionInv => TypeOK
  BY DEF CompositionInv
<1> QED
  BY <1>1, CompositionInvariant, PTL

\* compose never holds two requirements with the same key.
THEOREM ComposedKeysUnique == Spec => []KeysUnique
<1>1. CompositionInv => KeysUnique
  BY DEF CompositionInv
<1> QED
  BY <1>1, CompositionInvariant, PTL

\* Whatever the base or a layer requires survives every order of layers with
\* at least its bounds.
THEOREM RequiredIsKept == Spec => []RequiredSurvives
<1>1. CompositionInv => RequiredSurvives
  BY DEF CompositionInv
<1> QED
  BY <1>1, CompositionInvariant, PTL

\* No layer redefines a scope of the base or of an earlier layer.
THEOREM ScopesAreKept == Spec => []ScopesKept
<1>1. Init => ScopesKept
  BY DEF Init, ScopesKept
<1>2. ASSUME ScopesKept, [Next]_vars PROVE ScopesKept'
  <2>1. CASE TakeScope
    <3>1. base' = base /\ (scopes' = scopes \/
            \E s : s.name \notin Names(scopes) /\ scopes' = scopes \cup {s})
      BY <2>1 DEF TakeScope, AddScope, arguments
    <3>2. CASE scopes' = scopes
      BY <1>2, <3>1, <3>2 DEF ScopesKept
    <3>3. CASE \E s : s.name \notin Names(scopes) /\ scopes' = scopes \cup {s}
      <4>1. PICK s : s.name \notin Names(scopes) /\ scopes' = scopes \cup {s}
        BY <3>3
      <4>2. \A u \in scopes : u.name # s.name
        BY <4>1 DEF Names
      <4> QED
        BY <1>2, <3>1, <4>1, <4>2 DEF ScopesKept
    <3> QED
      BY <3>1, <3>2, <3>3
  <2>2. CASE ~TakeScope
    <3>1. base' = base /\ scopes' = scopes
      BY <1>2, <2>2 DEF Next, vars, arguments, RefuseUnnamed, Refuse, Add, Strengthen,
         RefuseWeakening, RefuseConflict, NextLayer, Finish
    <3> QED
      BY <1>2, <3>1 DEF ScopesKept
  <2> QED
    BY <2>1, <2>2
<1> QED
  BY <1>1, <1>2, PTL DEF Spec

\* The report of a composition that succeeds explains the body: every
\* requirement that is not the base's comes from the layer that the last
\* decision on its key names.
THEOREM ReportIsExact == Spec => []ReportExplains
<1>1. Init => Reported
  BY DEF Init, Reported
<1>2. CompositionInv /\ Reported /\ [Next]_vars => Reported'
  BY ReportedStep
<1>3. Reported => ReportExplains
  BY DEF Reported, Accounts, ReportExplains
<1> QED
  BY <1>1, <1>2, <1>3, CompositionInvariant, PTL DEF Spec
=============================================================================
