-------------------------- MODULE EvaluationProofs ---------------------------
(***************************************************************************)
(* What an evaluation may rest on, for all contracts, evidence and maximum *)
(* ages and any number of restarts.  The answer is an observation of one   *)
(* step, so the invariant speaks of the stored evidence (`StoredInv') and  *)
(* the properties follow from how evaluate_contract reads it.              *)
(***************************************************************************)
EXTENDS Evaluation, WellFoundedInduction, TLAPS

-----------------------------------------------------------------------------
(* Reading evidence *)

\* Entries as attach_evidence, Runtime::open and evaluate_internal leave them.
Good(entries) ==
  /\ \E n \in Nat : DOMAIN entries = 1..n
  /\ \A i \in DOMAIN entries :
       /\ entries[i].by = entries[i].origin /\ entries[i].by \in 1..epoch
       /\ entries[i].fresh \in Freshness
       /\ entries[i].produced \in Nat /\ TypedCandidate(entries[i].candidate)

\* EvidenceSet::find returns an entry of the scope when there is one.
LEMMA FindIsEntry ==
  ASSUME NEW entries, NEW scope, \E n \in Nat : DOMAIN entries = 1..n,
         Covered(entries, scope)
  PROVE  \E i \in DOMAIN entries : /\ Find(entries, scope) = entries[i]
                                   /\ entries[i].scope = scope
<1>1. PICK n \in Nat : DOMAIN entries = 1..n
  OBVIOUS
<1> DEFINE S == {i \in 1..n : entries[i].scope = scope}
           R == OpToRel(<, Nat)
<1>2. S \subseteq Nat /\ S # {}
  BY <1>1 DEF Covered
<1>3. IsWellFoundedOn(R, Nat)
  BY NatLessThanWellFounded
<1>4. PICK i \in S : \A j \in S : ~ (<<j, i>> \in R)
  <2> HIDE DEF S, R
  <2> QED
    BY <1>2, <1>3, WFMin
<1>5. \A j \in 1..(i - 1) : entries[j].scope # scope
  <2>1. SUFFICES ASSUME NEW j \in 1..(i - 1), entries[j].scope = scope
                 PROVE  FALSE
    OBVIOUS
  <2>2. j \in S /\ j \in Nat /\ i \in Nat /\ j < i
    BY <2>1
  <2> QED
    BY <1>4, <2>2 DEF OpToRel
<1>6. i \in DOMAIN entries /\ entries[i].scope = scope
  BY <1>1
<1> HIDE DEF S, R
<1> QED
  BY <1>5, <1>6 DEF Find

\* A requirement that is decided is decided by one entry for its scope, which
\* this incarnation received and which is current.
LEMMA DecidedByUsable ==
  ASSUME NEW entries, Good(entries), NEW r,
         DecideRequirement(r, entries) \in {"satisfied", "unsatisfied"}
  PROVE  /\ Covered(entries, r.scope)
         /\ \E i \in DOMAIN entries :
              /\ Find(entries, r.scope) = entries[i]
              /\ entries[i].origin = epoch /\ entries[i].fresh = "current"
              /\ DecideRequirement(r, entries) = Decide(r, entries[i].candidate)
<1>1. Covered(entries, r.scope)
  BY DEF DecideRequirement
<1>2. Usable(Find(entries, r.scope))
  BY <1>1 DEF DecideRequirement
<1>3. DecideRequirement(r, entries) = Decide(r, Find(entries, r.scope).candidate)
  BY <1>1, <1>2 DEF DecideRequirement
<1>4. PICK i \in DOMAIN entries : Find(entries, r.scope) = entries[i]
  BY <1>1, FindIsEntry DEF Good
<1> QED
  BY <1>1, <1>2, <1>3, <1>4 DEF Good, Usable

-----------------------------------------------------------------------------
(* Deciding *)

\* The kinds fall into five groups that do not meet.
LEMMA KindGroups ==
  ASSUME NEW kind \in Kinds
  PROVE  \/ IsNumeric(kind) /\ kind \notin TextKinds \cup {"collective", "checkpoint_isolation", "attribute"}
         \/ kind \in TextKinds /\ ~IsNumeric(kind) /\ kind \notin {"collective", "checkpoint_isolation", "attribute"}
         \/ kind = "checkpoint_isolation" /\ ~IsNumeric(kind) /\ kind \notin TextKinds
         \/ kind = "collective" /\ ~IsNumeric(kind) /\ kind \notin TextKinds
         \/ kind = "attribute" /\ ~IsNumeric(kind) /\ kind \notin TextKinds
BY DEF Kinds, IsNumeric, FloorKinds, CeilingKinds, TextKinds

\* What decide_requirement computes, kind by kind.
LEMMA DecideByKind ==
  ASSUME NEW r, WellTyped(r), NEW c
  PROVE  /\ IsNumeric(r.kind) => Decide(r, c) = DecideNumber(r, c)
         /\ r.kind \in TextKinds => Decide(r, c) = DecideText(r, c)
         /\ r.kind = "checkpoint_isolation" => Decide(r, c) = DecideIsolation(r, c)
         /\ r.kind = "collective" => Decide(r, c) = DecideCollective(r, c)
         /\ r.kind = "attribute" => Decide(r, c) = DecideAttribute(r, c)
BY KindGroups DEF WellTyped, Decide

\* A collective is decided by its members when evidence speaks of all of them.
LEMMA CollectiveDecided ==
  ASSUME NEW r, NEW c, TypedCandidate(c)
  PROVE  /\ DecideCollective(r, c) \in {"satisfied", "unsatisfied", "unknown"}
         /\ DecideCollective(r, c) = "satisfied" =>
              IF r.value = "unsupported" THEN c.collective = "no"
              ELSE c.collective = "yes" /\ \A m \in r.members : c.member[m] = "present"
         /\ DecideCollective(r, c) = "unsatisfied" =>
              IF r.value = "unsupported" THEN c.collective # "no"
              ELSE c.collective = "no" \/ \E m \in r.members : c.member[m] # "present"
<1>1. CASE c.collective = "missing"
  BY <1>1 DEF DecideCollective
<1>2. CASE c.collective = "yes" /\ r.value = "unsupported"
  BY <1>2 DEF DecideCollective, Verdict
<1>3. CASE c.collective = "no" /\ r.value = "unsupported"
  BY <1>3 DEF DecideCollective, Verdict
<1>4. CASE c.collective = "no" /\ r.value # "unsupported"
  BY <1>4 DEF DecideCollective
<1>5. CASE c.collective = "yes" /\ r.value # "unsupported"
  BY <1>5 DEF DecideCollective
<1> QED
  BY <1>1, <1>2, <1>3, <1>4, <1>5 DEF TypedCandidate

\* Every kind gets a verdict.
LEMMA DecideTyped ==
  ASSUME NEW r, WellTyped(r), NEW c, TypedCandidate(c)
  PROVE  Decide(r, c) \in {"satisfied", "unsatisfied", "unknown"}
<1>1. DecideNumber(r, c) \in {"satisfied", "unsatisfied", "unknown"}
  BY DEF DecideNumber, Verdict
<1>2. DecideText(r, c) \in {"satisfied", "unsatisfied", "unknown"}
  BY DEF DecideText, Verdict
<1>3. DecideIsolation(r, c) \in {"satisfied", "unsatisfied", "unknown"}
  BY DEF DecideIsolation, Verdict
<1>4. DecideAttribute(r, c) \in {"satisfied", "unsatisfied", "unknown"}
  BY DEF DecideAttribute, Verdict
<1> QED
  BY <1>1, <1>2, <1>3, <1>4, CollectiveDecided, DecideByKind, KindGroups DEF WellTyped

\* The verdict about a required requirement agrees with what it accepts.
LEMMA DecideAccepts ==
  ASSUME NEW r, WellTyped(r), ValidRequirement(r), r.strength = Required,
         NEW c, TypedCandidate(c)
  PROVE  /\ Decide(r, c) = "satisfied" => Accepts(r, c)
         /\ Decide(r, c) = "unsatisfied" => ~Accepts(r, c)
<1>0. r.kind \in Kinds /\ r.strength # Preferred
  BY DEF WellTyped, Required, Preferred
<1>1. CASE r.kind \in FloorKinds
  <2>1. IsNumeric(r.kind) /\ IsFloor(r.kind) /\ r.kind \notin CeilingKinds
    BY <1>1 DEF IsNumeric, IsFloor, FloorKinds, CeilingKinds
  <2>2. Accepts(r, c) <=> c.number[r.kind] \in Nat /\ c.number[r.kind] >= r.target
    BY <1>0, <1>1, <2>1, KindGroups DEF Accepts
  <2>3. c.number[r.kind] \in Nat \/ c.number[r.kind] = NotSupplied
    BY <1>1 DEF TypedCandidate
  <2> QED
    BY <1>0, <2>1, <2>2, <2>3, DecideByKind
       DEF DecideNumber, Verdict, WithinBand, NotSupplied
<1>2. CASE r.kind \in CeilingKinds
  <2>1. IsNumeric(r.kind) /\ ~IsFloor(r.kind) /\ r.kind \notin FloorKinds
    BY <1>2 DEF IsNumeric, IsFloor, FloorKinds, CeilingKinds
  <2>2. Accepts(r, c) <=> c.number[r.kind] \in Nat /\ c.number[r.kind] <= r.target
    BY <1>0, <1>2, <2>1, KindGroups DEF Accepts
  <2>3. c.number[r.kind] \in Nat \/ c.number[r.kind] = NotSupplied
    BY <1>2 DEF TypedCandidate
  <2> QED
    BY <1>0, <2>1, <2>2, <2>3, DecideByKind
       DEF DecideNumber, Verdict, WithinBand, NotSupplied
<1>3. CASE r.kind \in TextKinds
  <2>1. r.kind \notin FloorKinds \cup CeilingKinds \cup {"collective", "checkpoint_isolation", "attribute"}
    BY <1>3 DEF FloorKinds, CeilingKinds, TextKinds
  <2>2. Accepts(r, c) <=> c.text[r.kind] = r.value /\ r.value # ""
    BY <1>0, <1>3, <2>1 DEF Accepts
  <2>3. r.value # ""
    BY <1>3 DEF ValidRequirement, NeedsValue
  <2> QED
    BY <1>3, <2>2, <2>3, DecideByKind DEF DecideText, Verdict, Matches
<1>4. CASE r.kind = "checkpoint_isolation"
  <2>1. r.kind \notin FloorKinds \cup CeilingKinds \cup TextKinds
    BY <1>4 DEF FloorKinds, CeilingKinds, TextKinds
  <2>2. Accepts(r, c) <=> c.isolation = IF r.value = "none" THEN "no" ELSE "yes"
    BY <1>4, <2>1 DEF Accepts
  <2>3. r.value # ""
    BY <1>4 DEF ValidRequirement, NeedsValue
  <2> QED
    BY <1>4, <2>2, <2>3, DecideByKind DEF DecideIsolation, Verdict
<1>5. CASE r.kind = "collective"
  <2>1. r.kind \notin FloorKinds \cup CeilingKinds \cup TextKinds
    BY <1>5 DEF FloorKinds, CeilingKinds, TextKinds
  <2>2. Accepts(r, c) <=>
          IF r.value = "unsupported" THEN c.collective = "no"
          ELSE c.collective = "yes" /\ {m \in r.members : c.member[m] # "present"} = {}
    BY <1>5, <2>1 DEF Accepts
  <2>3. {m \in r.members : c.member[m] # "present"} = {}
          <=> \A m \in r.members : c.member[m] = "present"
    OBVIOUS
  <2> QED
    BY <1>5, <2>2, <2>3, DecideByKind, CollectiveDecided
<1>6. CASE r.kind = "attribute"
  <2>1. r.kind \notin FloorKinds \cup CeilingKinds \cup TextKinds
    BY <1>6 DEF FloorKinds, CeilingKinds, TextKinds
  <2>2. Accepts(r, c) <=> c.attribute[r.key] = r.value
    BY <1>6, <2>1 DEF Accepts
  <2> QED
    BY <1>6, <2>2, DecideByKind DEF DecideAttribute, Verdict
<1> QED
  BY <1>0, <1>1, <1>2, <1>3, <1>4, <1>5, <1>6 DEF Kinds

-----------------------------------------------------------------------------
(* The stored evidence *)

\* The variables and the evidence that is kept, without the answer.
StoredInv ==
  /\ body \in Bodies /\ now \in 1..MaxTime /\ epoch \in 1..MaxEpoch
  /\ evidence # NoEvidence => Good(evidence)

\* Entries as attached are good ones.
LEMMA StampedGood ==
  ASSUME StoredInv, NEW entries \in Submissions
  PROVE  Good(Stamped(entries))
<1>1. DOMAIN Stamped(entries) = DOMAIN entries
  BY DEF Stamped
<1>2. Len(entries) \in Nat /\ DOMAIN entries = 1..Len(entries)
  BY EvaluationAssumption DEF IsList
<1>3. now \in Nat /\ epoch \in 1..epoch
  BY EvaluationAssumption DEF StoredInv
<1>4. \A i \in DOMAIN entries :
        entries[i].produced \in Nat /\ TypedCandidate(entries[i].candidate)
  BY EvaluationAssumption
<1> QED
  BY <1>1, <1>2, <1>3, <1>4 DEF Good, Stamped, Freshness

\* So are the ones supplied with a question.
LEMMA SuppliedGood ==
  ASSUME StoredInv, NEW entries \in Submissions
  PROVE  Good(Supplied(entries))
<1>1. DOMAIN Supplied(entries) = DOMAIN entries
  BY DEF Supplied
<1>2. Len(entries) \in Nat /\ DOMAIN entries = 1..Len(entries)
  BY EvaluationAssumption DEF IsList
<1>3. epoch \in 1..epoch
  BY EvaluationAssumption DEF StoredInv
<1>4. \A i \in DOMAIN entries :
        entries[i].produced \in Nat /\ TypedCandidate(entries[i].candidate)
  BY EvaluationAssumption
<1>5. \A i \in DOMAIN entries : AgedFreshness(entries[i].produced) \in Freshness
  BY DEF AgedFreshness, Freshness
<1> QED
  BY <1>1, <1>2, <1>3, <1>4, <1>5 DEF Good, Supplied

\* What the next boot restores is good for that boot.
LEMMA RestoredGood ==
  ASSUME StoredInv, Good(evidence), evidence' = Restored(evidence), epoch' = epoch + 1
  PROVE  Good(evidence)'
<1>1. DOMAIN evidence' = DOMAIN evidence
  BY DEF Restored
<1>2. \A i \in DOMAIN evidence :
        /\ evidence'[i].by = evidence[i].by /\ evidence'[i].origin = evidence[i].origin
        /\ evidence'[i].produced = evidence[i].produced
        /\ evidence'[i].candidate = evidence[i].candidate
        /\ evidence'[i].fresh = "revalidation_required"
  BY DEF Restored
<1>3. epoch \in Nat /\ 1..epoch \subseteq 1..epoch'
  BY EvaluationAssumption DEF StoredInv
<1> QED
  BY <1>1, <1>2, <1>3 DEF Good, Freshness

\* Every step keeps the stored evidence good.
LEMMA StoredStep ==
  ASSUME StoredInv, [Next]_vars
  PROVE  StoredInv'
<1>1. ASSUME NEW b \in Bodies, Publish(b) PROVE StoredInv'
  BY <1>1 DEF StoredInv, Publish, Good
<1>2. ASSUME NEW entries \in Submissions, AttachEvidence(entries) PROVE StoredInv'
  <2>1. Good(evidence)'
    BY <1>2, StampedGood DEF AttachEvidence, Good
  <2> QED
    BY <1>2, <2>1 DEF StoredInv, AttachEvidence
<1>3. CASE Restart
  <2>1. epoch' \in 1..MaxEpoch
    BY <1>3, EvaluationAssumption DEF StoredInv, Restart
  <2>2. CASE evidence = NoEvidence
    BY <1>3, <2>1, <2>2 DEF StoredInv, Restart
  <2>3. CASE evidence # NoEvidence
    <3>1. Good(evidence)'
      BY <1>3, <2>3, RestoredGood DEF StoredInv, Restart
    <3> QED
      BY <1>3, <2>1, <3>1 DEF StoredInv, Restart
  <2> QED
    BY <2>2, <2>3
<1>4. CASE Tick
  <2>1. now' \in 1..MaxTime
    BY <1>4, EvaluationAssumption DEF StoredInv, Tick
  <2> QED
    BY <1>4, <2>1 DEF StoredInv, Tick, Good
<1>5. CASE UNCHANGED <<body, evidence, now, epoch>>
  BY <1>5 DEF StoredInv, Good
<1> QED
  BY <1>1, <1>2, <1>3, <1>4, <1>5
     DEF Next, vars, EvaluateStored, EvaluateSupplied

\* At the start nothing is attached.
LEMMA StoredInit == Init => StoredInv
BY EvaluationAssumption DEF Init, StoredInv

-----------------------------------------------------------------------------
(* The answers *)

\* The part of TypeOK about the answer.
AnswerTyped ==
  answer # NoAnswer =>
    /\ answer.aggregate \in Verdicts
    /\ DOMAIN answer.verdicts = DOMAIN answer.body.requirements
    /\ \A i \in DOMAIN answer.verdicts : answer.verdicts[i] \in Verdicts

AnswerSound == AnswerTyped /\ VerdictJustified /\ RestartForgets /\ SuppliedIsRecent

\* An answer without evidence decides nothing.
LEMMA UndecidedSound ==
  ASSUME StoredInv, answer' = WithoutEvidence
  PROVE  AnswerSound'
<1>1. /\ answer'.how = "none" /\ answer'.aggregate = "unknown" /\ answer'.body = body
      /\ DOMAIN answer'.verdicts = DOMAIN body.requirements
      /\ \A i \in DOMAIN body.requirements : answer'.verdicts[i] \in {"not_applicable", "unknown"}
  BY DEF WithoutEvidence
<1>2. AnswerTyped'
  BY <1>1 DEF AnswerTyped, Verdicts
<1>3. VerdictJustified'
  BY <1>1 DEF VerdictJustified
<1>4. RestartForgets' /\ SuppliedIsRecent'
  BY <1>1 DEF RestartForgets, SuppliedIsRecent
<1> QED
  BY <1>2, <1>3, <1>4 DEF AnswerSound

\* Evidence counts as current only when it is young enough.
Recent(entries) ==
  \A i \in DOMAIN entries :
    entries[i].fresh = "current" => ~(now - entries[i].produced > MaxAge)

\* An answer from good entries is sound.
LEMMA EvaluatedSound ==
  ASSUME StoredInv, NEW how, NEW entries, Good(entries),
         how = "supplied" => Recent(entries), answer' = Evaluated(how, entries)
  PROVE  AnswerSound'
<1> DEFINE Req(i) == body.requirements[i]
           verdict(i) == DecideRequirement(Req(i), entries)
<1>1. /\ answer'.how = how /\ answer'.body = body /\ answer'.entries = entries
      /\ answer'.at = now /\ answer'.epoch = epoch
      /\ DOMAIN answer'.verdicts = DOMAIN body.requirements
      /\ answer'.aggregate = Aggregate(body, answer'.verdicts)
  BY DEF Evaluated
<1>2. \A i \in DOMAIN body.requirements : answer'.verdicts[i] = verdict(i)
  BY DEF Evaluated
<1>3. \A i \in DOMAIN body.requirements : WellTyped(Req(i)) /\ ValidRequirement(Req(i))
  BY EvaluationAssumption DEF StoredInv
<1>4. ASSUME NEW i \in DOMAIN body.requirements
      PROVE  verdict(i) \in Verdicts
  <2>1. ASSUME Covered(entries, Req(i).scope)
        PROVE  TypedCandidate(Find(entries, Req(i).scope).candidate)
    <3>1. PICK k \in DOMAIN entries : Find(entries, Req(i).scope) = entries[k]
      BY <2>1, FindIsEntry DEF Good
    <3> QED
      BY <3>1 DEF Good
  <2> QED
    BY <1>3, <2>1, DecideTyped DEF DecideRequirement, Verdicts
<1>5. ASSUME NEW i \in DOMAIN body.requirements, verdict(i) \in {"satisfied", "unsatisfied"}
      PROVE  /\ Covered(entries, Req(i).scope)
             /\ \E k \in DOMAIN entries :
                  /\ Find(entries, Req(i).scope) = entries[k]
                  /\ entries[k].origin = epoch /\ entries[k].fresh = "current"
                  /\ verdict(i) = Decide(Req(i), entries[k].candidate)
  BY <1>5, DecidedByUsable
<1> HIDE DEF Req, verdict
<1>6. AnswerTyped'
  <2>1. answer'.aggregate \in Verdicts
    BY <1>1 DEF Aggregate, Verdicts
  <2> QED
    BY <1>1, <1>2, <1>4, <2>1 DEF AnswerTyped
<1>7. RestartForgets'
  <2>1. SUFFICES ASSUME NEW i \in DOMAIN body.requirements,
                        verdict(i) \in {"satisfied", "unsatisfied"}
                 PROVE  Find(entries, Req(i).scope).origin = epoch
    BY <1>1, <1>2 DEF RestartForgets, Used, Req
  <2> QED
    BY <1>5, <2>1
<1>8. SuppliedIsRecent'
  <2>1. SUFFICES ASSUME how = "supplied", NEW i \in DOMAIN body.requirements,
                        verdict(i) \in {"satisfied", "unsatisfied"}
                 PROVE  ~(now - Find(entries, Req(i).scope).produced > MaxAge)
    BY <1>1, <1>2 DEF SuppliedIsRecent, Outdated, Used, Req
  <2> QED
    BY <1>5, <2>1 DEF Recent
<1>9. VerdictJustified'
  <2> DEFINE required == OfStrength(body, Required)
             Used1(i) == Find(entries, Req(i).scope)
             New1(i) == Covered(entries, Req(i).scope) /\ Used1(i).origin = epoch
  <2>1. \A i \in required : i \in DOMAIN body.requirements /\ Req(i).strength = Required
    BY DEF OfStrength, Req
  <2>2. ASSUME NEW i \in required, verdict(i) \in {"satisfied", "unsatisfied"}
        PROVE  /\ New1(i)
               /\ verdict(i) = "satisfied" => Accepts(Req(i), Used1(i).candidate)
               /\ verdict(i) = "unsatisfied" => ~Accepts(Req(i), Used1(i).candidate)
    <3>1. PICK k \in DOMAIN entries :
                  /\ Used1(i) = entries[k] /\ entries[k].origin = epoch
                  /\ verdict(i) = Decide(Req(i), entries[k].candidate)
      BY <1>5, <2>1, <2>2
    <3>2. TypedCandidate(entries[k].candidate)
      BY DEF Good
    <3>3. Covered(entries, Req(i).scope)
      BY <1>5, <2>1, <2>2
    <3> QED
      BY <1>3, <2>1, <3>1, <3>2, <3>3, DecideAccepts
  <2>3. answer'.aggregate = "satisfied" =>
          required # {} /\ \A i \in required : verdict(i) = "satisfied"
    <3>1. \A i \in required : verdict(i) # "not_applicable"
      <4>1. ASSUME NEW i \in required PROVE verdict(i) # "not_applicable"
        <5>1. Req(i).strength # Informational /\ WellTyped(Req(i))
          BY <1>3, <2>1 DEF Required, Informational
        <5>2. CASE Covered(entries, Req(i).scope)
          <6>1. PICK k \in DOMAIN entries : Find(entries, Req(i).scope) = entries[k]
            BY <5>2, FindIsEntry DEF Good
          <6>2. Decide(Req(i), entries[k].candidate) # "not_applicable"
            BY <5>1, DecideTyped DEF Good
          <6> QED
            BY <5>1, <6>1, <6>2 DEF verdict, DecideRequirement
        <5>3. CASE ~Covered(entries, Req(i).scope)
          BY <5>1, <5>3 DEF verdict, DecideRequirement
        <5> QED
          BY <5>2, <5>3
      <4> QED
        BY <4>1
    <3>2. \A i \in required : verdict(i) \in Verdicts /\ answer'.verdicts[i] = verdict(i)
      BY <1>2, <1>4, <2>1
    <3> QED
      BY <1>1, <3>1, <3>2 DEF Aggregate, Verdicts
  <2>4. answer'.aggregate = "unsatisfied" => \E i \in required : verdict(i) = "unsatisfied"
    BY <1>1, <1>2, <2>1 DEF Aggregate
  <2>5. /\ answer'.aggregate = "satisfied" =>
             required # {} /\ \A i \in required : New1(i) /\ Accepts(Req(i), Used1(i).candidate)
        /\ answer'.aggregate = "unsatisfied" =>
             \E i \in required : New1(i) /\ ~Accepts(Req(i), Used1(i).candidate)
    BY <2>2, <2>3, <2>4
  <2> QED
    BY <1>1, <2>5 DEF VerdictJustified, Used, Req
<1> QED
  BY <1>6, <1>7, <1>8, <1>9 DEF AnswerSound

\* Supplied evidence is marked by its age.
LEMMA SuppliedRecent ==
  ASSUME StoredInv, NEW entries \in Submissions
  PROVE  Recent(Supplied(entries))
<1>1. SUFFICES ASSUME NEW i \in DOMAIN entries,
                      AgedFreshness(entries[i].produced) = "current"
               PROVE  ~(now - entries[i].produced > MaxAge)
  BY DEF Recent, Supplied
<1>2. entries[i].produced \in Nat /\ now \in Nat /\ MaxAge \in Nat
  BY EvaluationAssumption DEF StoredInv
<1> QED
  BY <1>1, <1>2 DEF AgedFreshness

\* Every answer is sound when it is given, and kept until the next step.
LEMMA AnswerStep ==
  ASSUME StoredInv, AnswerSound, [Next]_vars
  PROVE  AnswerSound'
<1>1. CASE answer' = NoAnswer
  BY <1>1 DEF AnswerSound, AnswerTyped, VerdictJustified, RestartForgets, SuppliedIsRecent
<1>2. CASE EvaluateStored
  <2>1. CASE evidence = NoEvidence
    BY <1>2, <2>1, UndecidedSound DEF EvaluateStored
  <2>2. CASE evidence # NoEvidence
    <3>1. Good(evidence) /\ answer' = Evaluated("stored", evidence)
      BY <1>2, <2>2 DEF EvaluateStored, StoredInv
    <3> QED
      BY <3>1, EvaluatedSound
  <2> QED
    BY <2>1, <2>2
<1>3. ASSUME NEW entries \in Submissions, EvaluateSupplied(entries) PROVE AnswerSound'
  <2>1. answer' = Evaluated("supplied", Supplied(entries))
    BY <1>3 DEF EvaluateSupplied
  <2> QED
    BY <2>1, SuppliedGood, SuppliedRecent, EvaluatedSound
<1>4. CASE UNCHANGED vars
  BY <1>4 DEF vars, AnswerSound, AnswerTyped, VerdictJustified, RestartForgets,
              SuppliedIsRecent, Used, Outdated
<1> QED
  BY <1>1, <1>2, <1>3, <1>4 DEF Next, Publish, AttachEvidence, Restart, Tick

\* The invariant: the evidence a workload keeps is stamped by the incarnation
\* that received it, and the answer just given is sound.
THEOREM EvaluationInvariant == Spec => [](StoredInv /\ AnswerSound)
<1>1. Init => StoredInv /\ AnswerSound
  <2>1. Init => AnswerSound
    BY DEF Init, AnswerSound, AnswerTyped, VerdictJustified, RestartForgets, SuppliedIsRecent
  <2> QED
    BY <2>1, StoredInit
<1>2. StoredInv /\ AnswerSound /\ [Next]_vars => (StoredInv /\ AnswerSound)'
  BY StoredStep, AnswerStep
<1> QED
  BY <1>1, <1>2, PTL DEF Spec

\* Types of the evaluation: every requirement gets one of the four verdicts.
THEOREM EvaluationTypes == Spec => []TypeOK
<1>1. StoredInv /\ AnswerSound => TypeOK
  BY DEF StoredInv, AnswerSound, AnswerTyped, TypeOK, Good
<1> QED
  BY <1>1, EvaluationInvariant, PTL

\* evaluate_contract says "satisfied" or "unsatisfied" of a contract only on
\* evidence of this incarnation that shows it, for every kind of requirement.
THEOREM VerdictsJustified == Spec => []VerdictJustified
<1>1. StoredInv /\ AnswerSound => VerdictJustified
  BY DEF AnswerSound
<1> QED
  BY <1>1, EvaluationInvariant, PTL

\* decide_requirement decides nothing from evidence Runtime::open restored.
THEOREM RestartsForget == Spec => []RestartForgets
<1>1. StoredInv /\ AnswerSound => RestartForgets
  BY DEF AnswerSound
<1> QED
  BY <1>1, EvaluationInvariant, PTL

\* evaluate_with_evidence decides nothing from evidence older than the
\* maximum age.
THEOREM SuppliedRecentOnly == Spec => []SuppliedIsRecent
<1>1. StoredInv /\ AnswerSound => SuppliedIsRecent
  BY DEF AnswerSound
<1> QED
  BY <1>1, EvaluationInvariant, PTL
=============================================================================
