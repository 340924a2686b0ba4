----------------------------- MODULE Evaluation ------------------------------
(***************************************************************************)
(* Evaluating a workload's contract (src/src/evaluation.cpp and            *)
(* Runtime::attach_evidence, evaluate, evaluate_with_evidence): evidence   *)
(* is stamped when it is attached, survives a restart as something to be   *)
(* revalidated, ages, and decides each requirement of the contract that is *)
(* current when the question is asked.                                     *)
(*                                                                         *)
(* One workload.  Time is a counter.  The cached evaluation is left out:   *)
(* no code stores one.  Submissions the decoder refuses are not inputs.    *)
(***************************************************************************)
EXTENDS Requirements, FiniteSets

CONSTANTS
  Bodies,       \* contract bodies: [scopes, requirements]
  Submissions,  \* evidence entries as decoded: [scope, candidate, produced]
  MaxAge,       \* evidence_max_age_millis, never 0: effective_max_age
  MaxTime,      \* bound: the clock
  MaxEpoch,     \* bound: boots
  NoEvidence, NoAnswer

ASSUME EvaluationAssumption ==
  /\ \A b \in Bodies : \A i \in DOMAIN b.requirements :
       WellTyped(b.requirements[i]) /\ ValidRequirement(b.requirements[i])
  /\ \A s \in Submissions :
       /\ IsList(s)
       /\ \A i \in DOMAIN s : s[i].produced \in Nat /\ TypedCandidate(s[i].candidate)
  /\ MaxAge \in Nat \ {0} /\ MaxTime \in Nat \ {0} /\ MaxEpoch \in Nat \ {0}

VARIABLES
  body,      \* the current generation's body
  evidence,  \* workload.evidence
  now, epoch,
  answer     \* observation: the evaluation just made and what it was made from

vars == <<body, evidence, now, epoch, answer>>

-----------------------------------------------------------------------------
(* Evidence *)

Freshness == {"current", "stale", "expired", "revalidation_required"}

\* attach_evidence stamps every entry; `origin' is an observation.
Stamped(entries) ==
  [i \in DOMAIN entries |->
     [scope |-> entries[i].scope, candidate |-> entries[i].candidate,
      produced |-> IF entries[i].produced = 0 THEN now ELSE entries[i].produced,
      by |-> epoch, fresh |-> "current", origin |-> epoch]]

\* Runtime::open: what it restores has to be revalidated.
Restored(entries) ==
  [i \in DOMAIN entries |->
     [scope |-> entries[i].scope, candidate |-> entries[i].candidate,
      produced |-> entries[i].produced, by |-> entries[i].by,
      fresh |-> "revalidation_required", origin |-> entries[i].origin]]

\* EvidenceSet::find: the first entry of the scope.
Covered(entries, scope) == \E i \in DOMAIN entries : entries[i].scope = scope

Find(entries, scope) ==
  entries[CHOOSE i \in DOMAIN entries :
            /\ entries[i].scope = scope
            /\ \A j \in 1..(i - 1) : entries[j].scope # scope]

HasAnyDimension(candidate) ==
  \/ \E k \in DOMAIN candidate.number : candidate.number[k] # NotSupplied
  \/ \E k \in DOMAIN candidate.text : candidate.text[k] # ""
  \/ candidate.isolation # "missing" \/ candidate.collective # "missing"
  \/ \E m \in DOMAIN candidate.member : candidate.member[m] # "missing"
  \/ \E k \in DOMAIN candidate.attribute : candidate.attribute[k] # "missing"

\* validate_evidence refuses an undeclared or repeated scope and an entry
\* that observed nothing.
ValidEvidence(entries) ==
  /\ \A i \in DOMAIN entries :
       entries[i].scope \in body.scopes /\ HasAnyDimension(entries[i].candidate)
  /\ \A i, j \in DOMAIN entries : entries[i].scope = entries[j].scope => i = j

\* Defect: an age is computed only for evidence of an earlier epoch.
AgelessFreshness(produced) == "current"

\* validate_evidence: how old may it be?
AgedFreshness(produced) ==
  IF now > produced /\ now - produced > MaxAge THEN "expired" ELSE "current"

\* evaluate_internal stamps supplied evidence with this incarnation and has
\* it validated; nothing of it is kept.
Supplied(entries) ==
  [i \in DOMAIN entries |->
     [scope |-> entries[i].scope, candidate |-> entries[i].candidate,
      produced |-> entries[i].produced, by |-> epoch,
      fresh |-> AgedFreshness(entries[i].produced), origin |-> epoch]]

-----------------------------------------------------------------------------
(* evaluate_contract *)

\* Defect: only evidence marked expired is left out.
UsableUnlessExpired(entry) == entry.fresh # "expired"

\* decide_requirement decides nothing from an entry of another incarnation or
\* from one that is not current.
Usable(entry) == entry.by = epoch /\ entry.fresh = "current"

DecideRequirement(r, entries) ==
  IF r.strength = Informational THEN "not_applicable"
  ELSE IF ~Covered(entries, r.scope) THEN "unknown"
  ELSE IF ~Usable(Find(entries, r.scope)) THEN "unknown"
  ELSE Decide(r, Find(entries, r.scope).candidate)

OfStrength(b, strength) ==
  {i \in DOMAIN b.requirements : b.requirements[i].strength = strength}

\* aggregate_satisfaction
Aggregate(b, verdicts) ==
  IF \E i \in OfStrength(b, Required) : verdicts[i] = "unsatisfied" THEN "unsatisfied"
  ELSE IF \E i \in OfStrength(b, Required) : verdicts[i] = "unknown" THEN "unknown"
  ELSE IF OfStrength(b, Required) = {} THEN "not_applicable"
  ELSE "satisfied"

Evaluated(how, entries) ==
  LET verdicts == [i \in DOMAIN body.requirements |->
                     DecideRequirement(body.requirements[i], entries)] IN
  [how |-> how, body |-> body, entries |-> entries, at |-> now, epoch |-> epoch,
   verdicts |-> verdicts, aggregate |-> Aggregate(body, verdicts)]

\* evaluate_internal, when no evidence was ever attached.
WithoutEvidence ==
  [how |-> "none", body |-> body, entries |-> <<>>, at |-> now, epoch |-> epoch,
   verdicts |-> [i \in DOMAIN body.requirements |->
                   IF body.requirements[i].strength = Informational
                   THEN "not_applicable" ELSE "unknown"],
   aggregate |-> "unknown"]

-----------------------------------------------------------------------------
Init ==
  /\ body \in Bodies /\ evidence = NoEvidence
  /\ now = 1 /\ epoch = 1 /\ answer = NoAnswer

\* publish leaves the evidence with the workload.
Publish(b) ==
  /\ b # body
  /\ body' = b /\ answer' = NoAnswer
  /\ UNCHANGED <<evidence, now, epoch>>

\* The set replaces what the workload had, if it covers one of its scopes.
AttachEvidence(entries) ==
  /\ \E i \in DOMAIN entries : entries[i].scope \in body.scopes
  /\ evidence' = Stamped(entries) /\ answer' = NoAnswer
  /\ UNCHANGED <<body, now, epoch>>

Restart ==
  /\ epoch < MaxEpoch
  /\ epoch' = epoch + 1
  /\ evidence' = IF evidence = NoEvidence THEN evidence ELSE Restored(evidence)
  /\ answer' = NoAnswer
  /\ UNCHANGED <<body, now>>

EvaluateStored ==
  /\ answer' = IF evidence = NoEvidence THEN WithoutEvidence
               ELSE Evaluated("stored", evidence)
  /\ UNCHANGED <<body, evidence, now, epoch>>

EvaluateSupplied(entries) ==
  /\ ValidEvidence(entries)
  /\ answer' = Evaluated("supplied", Supplied(entries))
  /\ UNCHANGED <<body, evidence, now, epoch>>

Tick ==
  /\ now < MaxTime
  /\ now' = now + 1 /\ answer' = NoAnswer
  /\ UNCHANGED <<body, evidence, epoch>>

Next ==
  \/ \E b \in Bodies : Publish(b)
  \/ \E entries \in Submissions : AttachEvidence(entries) \/ EvaluateSupplied(entries)
  \/ EvaluateStored \/ Restart \/ Tick

Spec == Init /\ [][Next]_vars

-----------------------------------------------------------------------------
(* Properties *)

Verdicts == {"satisfied", "unsatisfied", "unknown", "not_applicable"}

\* Types; in particular no requirement is left without a verdict.
TypeOK ==
  /\ body \in Bodies /\ now \in 1..MaxTime /\ epoch \in 1..MaxEpoch
  /\ evidence # NoEvidence =>
       \A i \in DOMAIN evidence : evidence[i].fresh \in Freshness
                                    /\ evidence[i].by \in 1..epoch
  /\ answer # NoAnswer =>
       /\ answer.aggregate \in Verdicts
       /\ DOMAIN answer.verdicts = DOMAIN answer.body.requirements
       /\ \A i \in DOMAIN answer.verdicts : answer.verdicts[i] \in Verdicts

\* Reference definition: the observations a requirement accepts.
Accepts(r, c) ==
  LET bound == IF r.strength = Preferred THEN r.minimum ELSE r.target
      texts == {r.value} \cup IF r.strength = Preferred THEN {r.preferred} ELSE {} IN
  CASE r.kind \in FloorKinds -> c.number[r.kind] \in Nat /\ c.number[r.kind] >= bound
    [] r.kind \in CeilingKinds -> c.number[r.kind] \in Nat /\ c.number[r.kind] <= bound
    [] r.kind \in TextKinds -> c.text[r.kind] \in texts \ {""}
    [] r.kind = "checkpoint_isolation" ->
         c.isolation = IF r.value = "none" THEN "no" ELSE "yes"
    [] r.kind = "collective" ->
         IF r.value = "unsupported" THEN c.collective = "no"
         ELSE c.collective = "yes" /\ {m \in r.members : c.member[m] # "present"} = {}
    [] r.kind = "attribute" -> c.attribute[r.key] = r.value

\* The evidence the last answer used for a requirement.
Used(r) == Find(answer.entries, r.scope)

\* "satisfied" is never said of a contract unless it has required
\* requirements and, for each of them, evidence received by this incarnation
\* for its scope observed what it asks for; "unsatisfied" never unless such
\* evidence shows that one of them is not met.
VerdictJustified ==
  answer # NoAnswer =>
    LET required == OfStrength(answer.body, Required)
        Req(i) == answer.body.requirements[i]
        New(i) == /\ Covered(answer.entries, Req(i).scope)
                  /\ Used(Req(i)).origin = answer.epoch IN
    /\ answer.aggregate = "satisfied" =>
         /\ required # {}
         /\ \A i \in required : New(i) /\ Accepts(Req(i), Used(Req(i)).candidate)
    /\ answer.aggregate = "unsatisfied" =>
         \E i \in required : New(i) /\ ~Accepts(Req(i), Used(Req(i)).candidate)

\* No verdict rests on evidence from before a restart, whatever happened to
\* the contract in between.
RestartForgets ==
  answer # NoAnswer =>
    \A i \in DOMAIN answer.verdicts :
      answer.verdicts[i] \in {"satisfied", "unsatisfied"} =>
        Used(answer.body.requirements[i]).origin = answer.epoch

Outdated(entry) == answer.at - entry.produced > MaxAge

\* Evidence supplied with the question decides nothing once it is too old.
SuppliedIsRecent ==
  (answer # NoAnswer /\ answer.how = "supplied") =>
    \A i \in DOMAIN answer.verdicts :
      answer.verdicts[i] \in {"satisfied", "unsatisfied"} =>
        ~Outdated(Used(answer.body.requirements[i]))
=============================================================================
