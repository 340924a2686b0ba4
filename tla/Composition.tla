----------------------------- MODULE Composition -----------------------------
(***************************************************************************)
(* compose (src/src/composition.cpp): a base body and an ordered list of   *)
(* overlay layers become one body, or the composition is refused.  A step  *)
(* of the model is one pass of one of the function's loops.                *)
(*                                                                         *)
(* Base and layers were decoded, not validated.  A scope is [name,         *)
(* parent].  The composed requirements are a set: their keys are distinct  *)
(* and the code sorts them by key before it returns.                       *)
(***************************************************************************)
EXTENDS Requirements, FiniteSets

CONSTANTS
  Bases,      \* base bodies: [scopes, requirements]
  LayerLists, \* lists of layers: [name, scopes, requirements]
  MaxLayers   \* max_layers

\* What the decoder demands of the requirements of a body or a layer.
Decoded(b) ==
  /\ IsList(b.requirements)
  /\ \A i \in DOMAIN b.requirements :
       WellTyped(b.requirements[i]) /\ BandOrdered(b.requirements[i])

ASSUME CompositionAssumption ==
  /\ MaxLayers \in Nat
  /\ \A b \in Bases : Decoded(b)
  /\ \A l \in LayerLists :
       IsList(l) /\ \A n \in DOMAIN l : Decoded(l[n]) /\ IsList(l[n].scopes)

VARIABLES
  base, layers,  \* the arguments
  at,            \* position in the loops: [layer, scope, item]
  scopes,        \* composed.scopes
  composed,      \* composed.requirements
  decisions,     \* result.decisions: [kind, layer, key]; <<name>> for a scope
  outcome        \* "running", or result.code

vars == <<base, layers, at, scopes, composed, decisions, outcome>>
arguments == <<base, layers>>

-----------------------------------------------------------------------------
(* Comparing an incoming requirement with the accumulated one *)

\* same_constraint
SameConstraint(a, b) ==
  /\ a.numeric = b.numeric
  /\ IF a.numeric THEN a.target = b.target /\ a.minimum = b.minimum
                  ELSE a.value = b.value /\ a.preferred = b.preferred

Dominates(a, b) ==
  IF IsFloor(a.kind) THEN a.target >= b.target /\ a.minimum >= b.minimum
                     ELSE a.target <= b.target /\ a.minimum <= b.minimum

\* Defect: one better bound is enough.
CompareEitherBound(a, b) ==
  IF a.strength # b.strength THEN IF a.strength > b.strength THEN 1 ELSE -1
  ELSE IF a.numeric # b.numeric THEN 0
  ELSE IF a.numeric THEN IF a.target >= b.target \/ a.minimum >= b.minimum THEN 1 ELSE -1
  ELSE IF SameConstraint(a, b) THEN 1 ELSE 0

\* compare_requirement_strength: 1 when `a' is stronger or states the same, -1
\* when it is weaker, 0 when neither dominates.
Compare(a, b) ==
  IF a.strength # b.strength THEN IF a.strength > b.strength THEN 1 ELSE -1
  ELSE IF a.numeric # b.numeric THEN 0
  ELSE IF a.numeric THEN IF Dominates(a, b) THEN 1 ELSE IF Dominates(b, a) THEN -1 ELSE 0
  ELSE IF SameConstraint(a, b) THEN 1 ELSE 0

-----------------------------------------------------------------------------
Distinct(requirements) ==
  \A i, j \in DOMAIN requirements :
    CompositeKey(requirements[i]) = CompositeKey(requirements[j]) => i = j

RequirementsOf(b) == {b.requirements[i] : i \in DOMAIN b.requirements}
Names(ss) == {s.name : s \in ss}

\* The checks before the first layer.
Start(b, l) ==
  IF Len(l) > MaxLayers THEN "too_many_layers"
  ELSE IF ~Distinct(b.requirements) THEN "duplicate_requirement"
  ELSE "running"

Init ==
  /\ base \in Bases /\ layers \in LayerLists
  /\ at = [layer |-> 1, scope |-> 1, item |-> 1]
  /\ scopes = base.scopes /\ composed = RequirementsOf(base)
  /\ decisions = <<>>
  /\ outcome = Start(base, layers)

Layer == layers[at.layer]
Running == outcome = "running" /\ at.layer <= Len(layers)

HasScope == Running /\ Layer.name # "" /\ at.scope <= Len(Layer.scopes)
NextScope == at' = [at EXCEPT !.scope = @ + 1]

AddScope(s) ==
  /\ scopes' = scopes \cup {s}
  /\ decisions' = Append(decisions, [kind |-> "added", layer |-> at.layer, key |-> <<s.name>>])

\* Defect: a layer's scope is compared with the whole of those declared.
TakeScopeOver ==
  /\ HasScope /\ NextScope
  /\ LET s == Layer.scopes[at.scope] IN
       IF s \in scopes THEN UNCHANGED <<scopes, decisions>> ELSE AddScope(s)
  /\ UNCHANGED <<arguments, composed, outcome>>

\* Scopes are added when their names are new.
TakeScope ==
  /\ HasScope /\ NextScope
  /\ LET s == Layer.scopes[at.scope] IN
       IF s.name \in Names(scopes) THEN UNCHANGED <<scopes, decisions>> ELSE AddScope(s)
  /\ UNCHANGED <<arguments, composed, outcome>>

Refuse(code) ==
  /\ outcome' = code
  /\ UNCHANGED <<arguments, at, scopes, composed>>

RefuseUnnamed ==
  /\ Running /\ Layer.name = ""
  /\ Refuse("overlay_invalid") /\ UNCHANGED decisions

ScopesTaken == Running /\ Layer.name # "" /\ at.scope > Len(Layer.scopes)
HasIncoming == ScopesTaken /\ at.item <= Len(Layer.requirements)
Incoming == Layer.requirements[at.item]
Accumulated == {r \in composed : CompositeKey(r) = CompositeKey(Incoming)}

Decided(kind) ==
  decisions' = Append(decisions, [kind |-> kind, layer |-> at.layer,
                                  key |-> CompositeKey(Incoming)])
Advance == at' = [at EXCEPT !.item = @ + 1]

\* Defect: an added requirement is not entered in the report.
AddSilently ==
  /\ HasIncoming /\ Accumulated = {}
  /\ composed' = composed \cup {Incoming}
  /\ Advance
  /\ UNCHANGED <<arguments, scopes, decisions, outcome>>

Add ==
  /\ HasIncoming /\ Accumulated = {}
  /\ composed' = composed \cup {Incoming}
  /\ Decided("added") /\ Advance
  /\ UNCHANGED <<arguments, scopes, outcome>>

\* Defect: the stronger requirement is put beside the accumulated one.
StrengthenBeside ==
  \E r \in composed :
    /\ HasIncoming /\ CompositeKey(r) = CompositeKey(Incoming)
    /\ Compare(Incoming, r) > 0
    /\ composed' = composed \cup {Incoming}
    /\ Decided("strengthened") /\ Advance
    /\ UNCHANGED <<arguments, scopes, outcome>>

\* accumulated = incoming
Strengthen ==
  \E r \in composed :
    /\ HasIncoming /\ CompositeKey(r) = CompositeKey(Incoming)
    /\ Compare(Incoming, r) > 0
    /\ composed' = (composed \ {r}) \cup {Incoming}
    /\ Decided("strengthened") /\ Advance
    /\ UNCHANGED <<arguments, scopes, outcome>>

RefuseWeakening ==
  \E r \in composed :
    /\ HasIncoming /\ CompositeKey(r) = CompositeKey(Incoming)
    /\ Incoming.strength < r.strength \/ Compare(Incoming, r) < 0
    /\ Refuse("weakening_denied") /\ Decided("rejected")

RefuseConflict ==
  \E r \in composed :
    /\ HasIncoming /\ CompositeKey(r) = CompositeKey(Incoming)
    /\ Incoming.strength >= r.strength /\ Compare(Incoming, r) = 0
    /\ Refuse("composition_conflict") /\ Decided("conflict")

NextLayer ==
  /\ ScopesTaken /\ at.item > Len(Layer.requirements)
  /\ at' = [layer |-> at.layer + 1, scope |-> 1, item |-> 1]
  /\ UNCHANGED <<arguments, scopes, composed, decisions, outcome>>

\* After the last layer the requirements are sorted and must be some.
Finish ==
  /\ outcome = "running" /\ at.layer > Len(layers)
  /\ outcome' = IF composed = {} THEN "empty_requirement_set" ELSE "ok"
  /\ UNCHANGED <<arguments, at, scopes, composed, decisions>>

Next ==
  \/ TakeScope \/ RefuseUnnamed
  \/ Add \/ Strengthen \/ RefuseWeakening \/ RefuseConflict
  \/ NextLayer \/ Finish

Spec == Init /\ [][Next]_vars

-----------------------------------------------------------------------------
(* Properties *)

Outcomes ==
  {"running", "ok", "too_many_layers", "duplicate_requirement", "overlay_invalid",
   "weakening_denied", "composition_conflict", "empty_requirement_set"}

\* What the base and the layers that were passed declare.
Declared ==
  RequirementsOf(base)
    \cup {r \in UNION {RequirementsOf(layers[n]) : n \in DOMAIN layers} :
            \E n \in DOMAIN layers : \E i \in DOMAIN layers[n].requirements :
              /\ layers[n].requirements[i] = r
              /\ n < at.layer \/ (n = at.layer /\ i < at.item)}

\* Types; no layer is taken beyond the bound and the position never leaves the
\* layers; every composed requirement is one that the base or a layer passed
\* declares.
TypeOK ==
  /\ base \in Bases /\ layers \in LayerLists
  /\ at \in [layer : 1..(Len(layers) + 1), scope : Nat, item : Nat]
  /\ at.layer <= Len(layers) => /\ at.scope \in 1..(Len(Layer.scopes) + 1)
                                 /\ at.item \in 1..(Len(Layer.requirements) + 1)
  /\ outcome \in Outcomes
  /\ outcome # "too_many_layers" => Len(layers) <= MaxLayers
  /\ composed \subseteq Declared

\* Unless the composition was refused at the start, no two composed
\* requirements have the same key.
KeysUnique ==
  outcome \notin {"too_many_layers", "duplicate_requirement"} =>
    \A r, s \in composed : CompositeKey(r) = CompositeKey(s) => r = s

\* A layer never redefines a scope: those of the base are there as they were
\* declared, and what a layer adds is the only scope of its name.
ScopesKept ==
  /\ base.scopes \subseteq scopes
  /\ \A s \in scopes \ base.scopes : \A u \in scopes : s.name = u.name => s = u

\* Whatever order the layers come in, everything that the base or a layer
\* requires is in the composed body at full strength and with bounds at least
\* as strict.  (Membership of collectives apart.)
RequiredSurvives ==
  outcome \notin {"too_many_layers", "duplicate_requirement"} =>
    \A r \in Declared :
      (r.strength = Required /\ r.kind # "collective") =>
        \E s \in composed : Covers(s, r)

\* The report explains the body: a requirement that differs from the base's
\* was taken from the layer that the last decision on its key names.
ReportExplains ==
  outcome = "ok" =>
    \A r \in composed \ RequirementsOf(base) :
      \E d \in DOMAIN decisions :
        /\ decisions[d].key = CompositeKey(r)
        /\ decisions[d].kind \in {"added", "strengthened"}
        /\ r \in RequirementsOf(layers[decisions[d].layer])
        /\ \A e \in DOMAIN decisions : e > d => decisions[e].key # CompositeKey(r)
=============================================================================
