---------------------------- MODULE Requirements -----------------------------
(***************************************************************************)
(* What a requirement says and how it is decided (src/src/contract.cpp,    *)
(* src/src/evaluation.cpp).  Evaluation, Publication, Composition and      *)
(* Document are built on it.                                               *)
(*                                                                         *)
(* A requirement is a record with the fields scope, kind, key, strength,   *)
(* numeric, target, minimum, value, preferred, members and attributes (the *)
(* values of its additional parameters); "" is the empty text and {} no    *)
(* members.  Strengths are the code's numbers.  Numbers are                *)
(* naturals: the code admits finite, non-negative reals, and only compares *)
(* them.  What evidence observed of a scope is a candidate record; the     *)
(* values NotSupplied, "" and "missing" stand for an absent optional.      *)
(***************************************************************************)
EXTENDS Integers, Sequences

Informational == 0
Preferred == 1
Required == 2
Strengths == {Informational, Preferred, Required}

FloorKinds == {"min_bandwidth", "path_diversity", "failure_domain_separation",
               "traffic_priority", "burst_allowance"}
CeilingKinds == {"max_latency", "max_jitter", "max_loss"}
TextKinds == {"locality", "security_class", "disaggregated_affinity",
              "maintenance_tolerance"}
Kinds == FloorKinds \cup CeilingKinds \cup TextKinds
           \cup {"collective", "checkpoint_isolation", "attribute"}

IsList(s) == Len(s) \in Nat /\ DOMAIN s = 1..Len(s)

\* What the fields of the C++ type admit, where it matters.
WellTyped(r) ==
  /\ r.kind \in Kinds /\ r.strength \in Strengths /\ r.numeric \in BOOLEAN
  /\ r.target \in Nat /\ r.minimum \in Nat

\* kind_is_numeric, kind_is_floor
IsNumeric(kind) == kind \in FloorKinds \cup CeilingKinds
IsFloor(kind) == kind \in FloorKinds

\* composite_key
CompositeKey(r) == <<r.scope, r.kind, r.key>>

NotSupplied == -1

\* What the decoder makes of an observation.
TypedCandidate(c) ==
  /\ \A k \in FloorKinds \cup CeilingKinds : c.number[k] \in Nat \cup {NotSupplied}
  /\ c.collective \in {"missing", "yes", "no"}

-----------------------------------------------------------------------------
(* decide_requirement on the candidate of a usable entry *)

\* floor_value and ceiling: the strict bound, or for a preferred requirement
\* the weakest acceptable one.
WithinBand(observed, r) ==
  IF IsFloor(r.kind)
  THEN observed >= r.target \/ (observed >= r.minimum /\ r.strength = Preferred)
  ELSE observed <= r.target \/ (observed <= r.minimum /\ r.strength = Preferred)

\* textual
Matches(observed, r) ==
  \/ observed = r.value
  \/ r.strength # Required /\ r.preferred # "" /\ observed = r.preferred

Verdict(holds) == IF holds THEN "satisfied" ELSE "unsatisfied"

DecideNumber(r, candidate) ==
  IF candidate.number[r.kind] = NotSupplied THEN "unknown"
  ELSE Verdict(WithinBand(candidate.number[r.kind], r))

DecideText(r, candidate) ==
  IF candidate.text[r.kind] = "" THEN "unknown"
  ELSE Verdict(Matches(candidate.text[r.kind], r))

DecideIsolation(r, candidate) ==
  IF candidate.isolation = "missing" THEN "unknown"
  ELSE Verdict(candidate.isolation = IF r.value \notin {"none", ""} THEN "yes" ELSE "no")

\* Defect: a member the evidence does not mention does not count.
CollectiveUnmentioned(r, candidate) ==
  CASE candidate.collective = "missing" -> "unknown"
    [] candidate.collective # "missing" /\ r.value = "unsupported" ->
         Verdict(candidate.collective = "no")
    [] candidate.collective # "missing" /\ r.value # "unsupported" ->
         Verdict(/\ candidate.collective = "yes"
                 /\ \A m \in r.members : candidate.member[m] # "absent")

\* A member the evidence does not mention makes the verdict unknown.
DecideCollective(r, candidate) ==
  CASE candidate.collective = "missing" -> "unknown"
    [] candidate.collective # "missing" /\ r.value = "unsupported" ->
         Verdict(candidate.collective = "no")
    [] candidate.collective = "no" /\ r.value # "unsupported" -> "unsatisfied"
    [] candidate.collective = "yes" /\ r.value # "unsupported" ->
         IF \A m \in r.members : candidate.member[m] = "present" THEN "satisfied"
         ELSE IF \E m \in r.members : candidate.member[m] = "missing" THEN "unknown"
         ELSE "unsatisfied"

DecideAttribute(r, candidate) ==
  IF candidate.attribute[r.key] = "missing" THEN "unknown"
  ELSE Verdict(candidate.attribute[r.key] = r.value)

Decide(r, candidate) ==
  CASE IsNumeric(r.kind) -> DecideNumber(r, candidate)
    [] r.kind \in TextKinds -> DecideText(r, candidate)
    [] r.kind = "checkpoint_isolation" -> DecideIsolation(r, candidate)
    [] r.kind = "collective" -> DecideCollective(r, candidate)
    [] r.kind = "attribute" -> DecideAttribute(r, candidate)

-----------------------------------------------------------------------------
(* decode_requirement, validate_body, for one requirement *)

\* What the decoder demands of the bounds.
BandOrdered(r) ==
  r.numeric => IF IsFloor(r.kind) THEN r.target >= r.minimum ELSE r.target <= r.minimum

\* The target is the stronger of the two bounds; a required requirement has
\* no band and a preferred one has a band.
ValidBand(r) ==
  /\ IF IsFloor(r.kind) THEN r.target >= r.minimum ELSE r.target <= r.minimum
  /\ r.strength = Required => r.target = r.minimum
  /\ r.strength = Preferred => r.target # r.minimum

NeedsValue(kind) ==
  kind \in TextKinds \cup {"checkpoint_isolation", "attribute"}

ValidRequirement(r) ==
  /\ r.numeric = IsNumeric(r.kind)
  /\ r.numeric => ValidBand(r)
  /\ NeedsValue(r.kind) => r.value # ""
  /\ r.preferred # "" => r.strength = Preferred /\ r.preferred # r.value
  /\ (r.kind = "collective") <=> (r.members # {})

-----------------------------------------------------------------------------
(* Comparing two requirements with the same key *)

\* The requirement `s' asks for everything `r' asks for: strength, bounds,
\* value and members.
Covers(s, r) ==
  /\ CompositeKey(s) = CompositeKey(r) /\ s.numeric = r.numeric
  /\ s.strength >= r.strength
  /\ r.numeric =>
       IF IsFloor(r.kind) THEN s.target >= r.target /\ s.minimum >= r.minimum
                          ELSE s.target <= r.target /\ s.minimum <= r.minimum
  /\ ~r.numeric => s.value = r.value
  /\ r.kind = "collective" => r.members \subseteq s.members

-----------------------------------------------------------------------------
(* check_compatibility: the body of the next generation against the last.  A
   body is [major, scopes, requirements]. *)

\* The first requirement of the body with the key of `r'.
Match(b, r) ==
  {i \in DOMAIN b.requirements : CompositeKey(b.requirements[i]) = CompositeKey(r)}

\* Removing is allowed unless the requirement is required or its scope goes
\* with it.
MayRemove(r, next) == r.strength # Required /\ r.scope \in next.scopes

Weakened(kind, before, after) ==
  IF IsFloor(kind) THEN after < before ELSE after > before

\* Defect: only numeric requirements are compared.
MayReplaceText(r, s) ==
  /\ s.strength >= r.strength /\ r.numeric = s.numeric
  /\ r.numeric => /\ ~Weakened(r.kind, r.minimum, s.minimum)
                  /\ ~Weakened(r.kind, r.target, s.target)

\* Defect: the strength may fall.
MayReplaceSofter(r, s) ==
  /\ r.numeric = s.numeric
  /\ r.numeric => /\ ~Weakened(r.kind, r.minimum, s.minimum)
                  /\ ~Weakened(r.kind, r.target, s.target)
  /\ (~r.numeric /\ r.strength = Required) => s.value = r.value

\* What check_compatibility accepts in place of a requirement with its key.
MayReplace(r, s) ==
  /\ s.strength >= r.strength
  /\ r.numeric = s.numeric
  /\ r.numeric => /\ ~Weakened(r.kind, r.minimum, s.minimum)
                  /\ ~Weakened(r.kind, r.target, s.target)
  /\ (~r.numeric /\ r.strength = Required) =>
       s.value = r.value /\ s.preferred = r.preferred

\* check_compatibility
Compatible(previous, next) ==
  /\ previous.major = next.major
  /\ \A i \in DOMAIN previous.requirements :
       LET r == previous.requirements[i] IN
       IF Match(next, r) = {} THEN MayRemove(r, next)
       ELSE \A j \in Match(next, r) : MayReplace(r, next.requirements[j])
=============================================================================
