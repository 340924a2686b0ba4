----------------------------- MODULE Publication -----------------------------
(***************************************************************************)
(* Which bodies become generations of a contract: the rules of the         *)
(* installed policy and the comparison with the generation before          *)
(* (src/src/policy.cpp, called by Runtime::register_workload and publish). *)
(*                                                                         *)
(* A body is [major, scopes, requirements]; its requirements are in the    *)
(* order they were submitted in, which nothing prescribes.  Signatures,    *)
(* generation numbers and durability are the subject of module Runtime.    *)
(***************************************************************************)
EXTENDS Requirements, FiniteSets

CONSTANTS
  Bodies,         \* valid bodies submitted
  Policies,       \* policies submitted: [generation, rules]
  Candidates,     \* observations
  LogLimit,       \* entries a DiagnosticLog holds
  MaxGeneration,  \* bound: generations explored
  NoPolicy

\* validate_body, as far as it concerns this module.
ValidBody(b) ==
  /\ b.requirements # <<>>
  /\ \A i \in DOMAIN b.requirements :
       ValidRequirement(b.requirements[i]) /\ b.requirements[i].scope \in b.scopes
  /\ \A i, j \in DOMAIN b.requirements :
       CompositeKey(b.requirements[i]) = CompositeKey(b.requirements[j]) => i = j

\* What the fields of a PolicyRule admit, where it matters.
TypedRule(rule) ==
  /\ rule.minStrength \in Strengths /\ rule.maxStrength \in Strengths
  /\ rule.minTarget \in Int /\ rule.maxTarget \in Int
  /\ rule.minMinimum \in Int /\ rule.maxMinimum \in Int

ASSUME PublicationAssumption ==
  /\ \A b \in Bodies :
       /\ IsList(b.requirements) /\ ValidBody(b)
       /\ \A i \in DOMAIN b.requirements : WellTyped(b.requirements[i])
  /\ \A p \in Policies : \A rule \in p.rules : TypedRule(rule)
  /\ \A c \in Candidates : TypedCandidate(c)
  /\ NoPolicy \notin Policies
  /\ LogLimit \in Nat \ {0} /\ MaxGeneration \in Nat

VARIABLES
  chain,   \* the bodies accepted so far, oldest first
  policy,  \* state_.policy
  under    \* observation: the policy in force when each was accepted

vars == <<chain, policy, under>>

-----------------------------------------------------------------------------
(* Policy *)

\* Defect: a rule speaks of its own scope only.
RuleAppliesExactly(rule, r) ==
  rule.kind = r.kind /\ rule.scope = r.scope /\ rule.key = r.key

\* rule_applies: an empty scope or key matches any.
RuleApplies(rule, r) ==
  /\ rule.kind = r.kind
  /\ rule.scope # "" => rule.scope = r.scope
  /\ rule.key # "" => rule.key = r.key

ValueAllowed(rule, value) == rule.values # {} => value \in rule.values

\* The errors check_contract_against_policy reports for a requirement and a
\* rule that applies to it.
RuleErrors(rule, r) ==
  IF ~rule.allow THEN {<<"kind">>}
  ELSE {e \in {<<"floor">>, <<"ceiling">>, <<"target">>, <<"minimum">>, <<"value">>} :
          CASE e = <<"floor">> -> r.strength < rule.minStrength
            [] e = <<"ceiling">> -> r.strength > rule.maxStrength
            [] e = <<"target">> -> r.numeric /\ (r.target < rule.minTarget
                                                 \/ r.target > rule.maxTarget)
            [] e = <<"minimum">> -> r.numeric /\ (r.minimum < rule.minMinimum
                                                  \/ r.minimum > rule.maxMinimum)
            [] e = <<"value">> -> ~ValueAllowed(rule, r.value)}
        \cup {<<"attribute", a>> : a \in {x \in r.attributes : ~ValueAllowed(rule, x)}}

Applicable(p, r) == {rule \in p.rules : RuleApplies(rule, r)}

ErrorsOf(p, r) ==
  UNION {{<<rule, e>> : e \in RuleErrors(rule, r)} : rule \in Applicable(p, r)}

\* Entries the log is asked to take for a requirement: its errors, or the
\* note that no rule constrains it.
EntriesOf(p, r) ==
  IF Applicable(p, r) = {} THEN 1 ELSE Cardinality(ErrorsOf(p, r))

\* Entries offered to the log before those of requirement i.
Before(p, b) ==
  LET count[i \in 1..Len(b.requirements)] ==
        IF i = 1 THEN 0 ELSE count[i - 1] + EntriesOf(p, b.requirements[i - 1])
  IN count

\* DiagnosticLog::add drops what comes after the limit, and has_errors looks
\* at what was kept.  A policy without rules leaves `ok' at its default.
PolicyPermits(p, b) ==
  /\ p.rules # {}
  /\ \A i \in DOMAIN b.requirements :
       ErrorsOf(p, b.requirements[i]) # {} => Before(p, b)[i] >= LogLimit

\* validate_policy
ValidPolicy(p) ==
  /\ p.generation > 0
  /\ \A rule \in p.rules :
       /\ rule.minTarget <= rule.maxTarget /\ rule.minMinimum <= rule.maxMinimum
       /\ rule.minStrength <= rule.maxStrength
       /\ rule.kind = "attribute" => rule.key # ""
       /\ ~rule.allow => rule.values = {}

-----------------------------------------------------------------------------
Init == chain = <<>> /\ policy = NoPolicy /\ under = <<>>

InstallPolicy(p) ==
  /\ ValidPolicy(p)
  /\ policy # NoPolicy => p.generation > policy.generation
  /\ policy' = p
  /\ UNCHANGED <<chain, under>>

Accept(b) ==
  /\ policy # NoPolicy => PolicyPermits(policy, b)
  /\ chain' = Append(chain, b) /\ under' = Append(under, policy)
  /\ UNCHANGED policy

Register(b) == chain = <<>> /\ MaxGeneration > 0 /\ Accept(b)

Publish(b) ==
  /\ chain # <<>> /\ Len(chain) < MaxGeneration
  /\ Compatible(chain[Len(chain)], b)
  /\ Accept(b)

Next ==
  \/ \E p \in Policies : InstallPolicy(p)
  \/ \E b \in Bodies : Register(b) \/ Publish(b)

Spec == Init /\ [][Next]_vars

-----------------------------------------------------------------------------
(* Properties *)

\* Types of the accepted bodies and the policies they were accepted under;
\* the installed policy has a generation and no rule with an empty range.
TypeOK ==
  /\ chain \in Seq(Bodies) /\ under \in Seq(Policies \cup {NoPolicy})
  /\ Len(chain) = Len(under) /\ Len(chain) <= MaxGeneration
  /\ policy \in {p \in Policies : ValidPolicy(p)} \cup {NoPolicy}

\* A requirement that was required once has a counterpart in every later
\* generation that is required and asks for at least as much, and its scope
\* is still declared.  (Membership of collectives apart.)
RequiredKept ==
  \A i \in DOMAIN chain : \A j \in i..Len(chain) : \A k \in DOMAIN chain[i].requirements :
    LET r == chain[i].requirements[k] IN
    (r.strength = Required /\ r.kind # "collective") =>
      /\ \E l \in DOMAIN chain[j].requirements : Covers(chain[j].requirements[l], r)
      /\ r.scope \in chain[j].scopes

\* What satisfies a later generation satisfies what was required before, for
\* every observation.  (Membership of collectives apart.)
LaterSatisfiesEarlier ==
  \A i \in DOMAIN chain : \A j \in i..Len(chain) : \A k \in DOMAIN chain[i].requirements :
    LET r == chain[i].requirements[k] IN
    (r.strength = Required /\ r.kind # "collective") =>
      \E l \in Match(chain[j], r) : \A c \in Candidates :
         Decide(chain[j].requirements[l], c) = "satisfied" => Decide(r, c) = "satisfied"

\* The requirement stays within the rule.
Obeys(rule, r) ==
  /\ rule.allow
  /\ r.strength \in rule.minStrength..rule.maxStrength
  /\ r.numeric => /\ r.target \in rule.minTarget..rule.maxTarget
                  /\ r.minimum \in rule.minMinimum..rule.maxMinimum
  /\ rule.values # {} => {r.value} \cup r.attributes \subseteq rule.values

\* The first LogLimit requirements of an accepted body obey every rule that
\* speaks of their kind, scope and key in the policy that was installed when
\* the body was accepted.  The bound is as good as it gets: the notes on that
\* many requirements nobody constrains fill the log, and a violation behind
\* them is not seen.
PolicyBinds ==
  \A i \in DOMAIN chain : \A k \in DOMAIN chain[i].requirements \cap (1..LogLimit) :
    LET r == chain[i].requirements[k] IN
    under[i] # NoPolicy =>
      \A rule \in under[i].rules :
        (rule.kind = r.kind /\ rule.scope \in {"", r.scope} /\ rule.key \in {"", r.key})
          => Obeys(rule, r)
=============================================================================
