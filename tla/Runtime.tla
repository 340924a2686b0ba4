------------------------------ MODULE Runtime -------------------------------
(***************************************************************************)
(* The coordinator's Runtime (src/src/runtime.cpp): contracts, evidence and*)
(* policy held in memory, every mutation appended to the journal before it *)
(* is applied and acknowledged, and Runtime::open rebuilding the memory by *)
(* replaying the journal record by record after a restart.                 *)
(*                                                                         *)
(* The journal is what module Ledger leaves after its recovery: complete   *)
(* records only.  A record's link names the record it chains to, and the   *)
(* chain value of record i is identified with i (the digest covers the     *)
(* sequence number).  A torn append therefore is a plain crash here.       *)
(*                                                                         *)
(* Submissions the code refuses change nothing and are not steps; the      *)
(* conditions of the early returns are the guards of the actions.  Bodies  *)
(* are model values; what check_compatibility and                          *)
(* check_contract_against_policy answer for them are constant relations.   *)
(***************************************************************************)
EXTENDS Integers, Sequences, FiniteSets

CONSTANTS
  Workload, Publisher,
  Trusted,        \* publishers of the trust set
  Body,           \* contract bodies, up to workload, generation and policy
  Scope,
  Scopes,         \* the scopes a body declares
  Compatible,     \* <<old, new>> accepted by check_compatibility
  Rules,          \* policy contents
  Permits,        \* <<rules, body>> accepted by check_contract_against_policy
  NoPolicy, NoEvidence,
  EvidenceInputs, \* <<generation, carries an evidence_id>> of submissions
  MaxGeneration,  \* kMaxRetainedGenerations
  MaxPolicyGen,   \* bound: policy generations explored
  MaxEpoch,       \* bound: boots explored
  MaxJournal      \* bound: journal records explored

ASSUME RuntimeAssumption ==
  /\ Trusted \subseteq Publisher
  /\ Scopes \in [Body -> SUBSET Scope]
  /\ Compatible \subseteq Body \X Body
  /\ Permits \subseteq Rules \X Body
  /\ EvidenceInputs \subseteq Nat \X BOOLEAN
  /\ MaxGeneration \in Nat /\ MaxPolicyGen \in Nat
  /\ MaxEpoch \in Nat /\ MaxJournal \in Nat

VARIABLES
  journal,   \* the durable records: [rec, link]
  bootEpoch, \* the epoch in head.bin
  phase,     \* "down", "replay" (inside Runtime::open), "ready", "refused"
  epoch,     \* info_.epoch; an incarnation is identified with its epoch
  applied,   \* records the replay loop has applied
  chain,     \* the ledger's chain_: the record the next append links to
  state,     \* state_
  \* observation
  past,      \* past[i]: state_ as the operations left it after i records
  acked,     \* contracts whose submission was answered with success
  reopened   \* journal length when this incarnation opened

durable == <<journal, bootEpoch>>
memory == <<phase, epoch, applied, chain, state>>
observed == <<past, acked, reopened>>
vars == <<durable, memory, observed>>

-----------------------------------------------------------------------------
(* Documents and records *)

Contract == [workload: Workload, gen: 1..(MaxGeneration + 1), body: Body,
             policyGen: 1..MaxPolicyGen, publisher: Publisher]

\* body_digest: the envelope (and so the publisher) is not part of the body.
Digest(c) == <<c.workload, c.gen, c.body, c.policyGen>>

\* policy_from_json derives policy_id from the content, so equal identities
\* mean equal policies.
Policy == [gen: 1..MaxPolicyGen, rules: Rules]

ASSUME NoPolicyAssumption == NoPolicy \notin Policy

\* An evidence set after attach_evidence stamped it.  `preset' tells whether
\* the submission already carried an evidence_id, as every set decoded by
\* evidence_from_json does: the stored identity is then derived over bytes
\* that contain it.
Evidence == [gen: Nat, scopes: SUBSET Scope, preset: BOOLEAN, by: Nat]

ASSUME NoEvidenceAssumption == NoEvidence \notin [set: Evidence, fresh: BOOLEAN]

Record ==
  [type: {"contract"}, contract: Contract]
    \cup [type: {"retired"}, workload: Workload]
    \cup [type: {"evidence"}, evidence: Evidence]
    \cup [type: {"policy"}, policy: Policy]

ContractRecord(c) == [type |-> "contract", contract |-> c]
RetiredRecord(w) == [type |-> "retired", workload |-> w]
EvidenceRecord(e) == [type |-> "evidence", evidence |-> e]
PolicyRecord(p) == [type |-> "policy", policy |-> p]

-----------------------------------------------------------------------------
(* RuntimeState and the effect of a record on it *)

\* generations: [contract, superseded] records, oldest first; empty when the
\* workload is not in the map.  retiredGens: the generations marked retired.
\* evidence: the workload's evidence set with its freshness.
EmptyState ==
  [generations |-> [w \in Workload |-> <<>>],
   retired |-> [w \in Workload |-> FALSE],
   retiredGens |-> [w \in Workload |-> {}],
   evidence |-> [w \in Workload |-> NoEvidence],
   policy |-> NoPolicy,
   floor |-> 0]

Known(st, w) == st.generations[w] # <<>>

Current(st, w) == st.generations[w][Len(st.generations[w])].contract

Declares(st, w, e) ==
  Known(st, w) /\ Scopes[Current(st, w).body] \cap e.scopes # {}

Generation(c) == [contract |-> c, superseded |-> FALSE]

\* Defect: a full history makes room by dropping its oldest generation.
SupersedingTrims(history, c) ==
  IF Len(history) + 1 < MaxGeneration THEN Append(history, Generation(c))
                                      ELSE <<Generation(c)>>

\* register_workload and publish: every generation so far is superseded.
Superseding(history, c) ==
  Append([i \in 1..Len(history) |-> [history[i] EXCEPT !.superseded = TRUE]],
         Generation(c))

\* Defect: the replay leaves the older generations unmarked.
ReplayUnmarked(history, c) == Append(history, Generation(c))

\* The replay marks the generations below the new one instead.
ReplaySuperseding(history, c) ==
  Append([i \in 1..Len(history) |->
            [history[i] EXCEPT !.superseded =
               @ \/ history[i].contract.gen < c.gen]],
         Generation(c))

Attach(st, affected, e, fresh) ==
  [w \in Workload |-> IF w \in affected THEN [set |-> e, fresh |-> fresh]
                                        ELSE st.evidence[w]]

\* What the operation that produced the record does to the memory.
ApplyContract(st, c) ==
  [st EXCEPT !.generations[c.workload] = Superseding(@, c)]

ApplyRetired(st, w) ==
  [st EXCEPT !.retired[w] = TRUE,
             !.retiredGens[w] = {st.generations[w][i].contract.gen :
                                   i \in 1..Len(st.generations[w])}]

ApplyEvidence(st, e) ==
  [st EXCEPT !.evidence =
                Attach(st, {w \in Workload : Declares(st, w, e)
                                               /\ ~st.retired[w]}, e, TRUE),
             !.floor = e.gen]

ApplyPolicy(st, p) == [st EXCEPT !.policy = p]

Apply(st, rec) ==
  CASE rec.type = "contract" -> ApplyContract(st, rec.contract)
    [] rec.type = "retired" -> ApplyRetired(st, rec.workload)
    [] rec.type = "evidence" -> ApplyEvidence(st, rec.evidence)
    [] rec.type = "policy" -> ApplyPolicy(st, rec.policy)

\* Defect: a contract record replaces the generations before it.
ReplayOverwrites(st, c) == [st EXCEPT !.generations[c.workload] = <<Generation(c)>>]

\* What the replay loop of Runtime::open does with it.
ReplayContract(st, c) ==
  [st EXCEPT !.generations[c.workload] = ReplaySuperseding(@, c)]

ReplayRetired(st, w) == [st EXCEPT !.retired[w] = TRUE]

\* Defect: the replay stamps a set as attach_evidence does.
ReplayRestamps(st, e) ==
  [st EXCEPT !.evidence = Attach(st, {w \in Workload : Declares(st, w, e)},
                                 [e EXCEPT !.by = epoch], TRUE)]

\* Defect: the replay gives the set to every workload, whatever its scopes.
ReplayToAll(st, e) ==
  [st EXCEPT !.evidence = Attach(st, {w \in Workload : Known(st, w)}, e, FALSE)]

ReplayEvidence(st, e) ==
  LET affected == {w \in Workload : Declares(st, w, e)} IN
  [st EXCEPT !.evidence = Attach(st, affected, e, FALSE),
             !.floor = IF affected # {} /\ e.gen > @ THEN e.gen ELSE @]

ReplayApply(st, rec) ==
  CASE rec.type = "contract" -> ReplayContract(st, rec.contract)
    [] rec.type = "retired" -> ReplayRetired(st, rec.workload)
    [] rec.type = "evidence" -> ReplayEvidence(st, rec.evidence)
    [] rec.type = "policy" -> ApplyPolicy(st, rec.policy)

\* evidence_from_json refuses the set: its generation is zero, or its declared
\* identity is not the one derived from its content.
Undecodable(e) == e.preset \/ e.gen = 0

\* The replay refuses to serve: an evidence set that does not decode, a
\* repeated generation, a retirement of an unknown workload.
ReplayRefused(st, rec) ==
  \/ rec.type = "evidence" /\ Undecodable(rec.evidence)
  \/ /\ rec.type = "contract"
     /\ Known(st, rec.contract.workload)
     /\ Current(st, rec.contract.workload).gen = rec.contract.gen
  \/ rec.type = "retired" /\ ~Known(st, rec.workload)

-----------------------------------------------------------------------------
(* Runtime::open *)

Init ==
  /\ journal = <<>> /\ bootEpoch = 0
  /\ phase = "down" /\ epoch = 0 /\ applied = 0 /\ chain = 0
  /\ state = EmptyState
  /\ past = [i \in {0} |-> EmptyState] /\ acked = {} /\ reopened = 0

\* Ledger::open accepts the journal: every record links to the one before.
ChainIntact == \A i \in 1..Len(journal) : journal[i].link = i - 1

\* Ledger::open refuses the directory before it writes the head.
OpenRefused ==
  /\ phase \in {"down", "refused"}
  /\ ~ChainIntact
  /\ phase' = "refused"
  /\ UNCHANGED <<durable, epoch, applied, chain, state, observed>>

\* Ledger::open leaves the link found in the last record as chain value.
RecoveredChain == IF journal = <<>> THEN 0 ELSE journal[Len(journal)].link

\* Ledger::open succeeds: the head is rewritten and the replay begins.
Open ==
  /\ phase \in {"down", "refused"}
  /\ bootEpoch < MaxEpoch
  /\ ChainIntact
  /\ bootEpoch' = bootEpoch + 1
  /\ epoch' = bootEpoch + 1
  /\ chain' = RecoveredChain
  /\ phase' = "replay" /\ applied' = 0 /\ state' = EmptyState
  /\ reopened' = Len(journal)
  /\ UNCHANGED <<journal, past, acked>>

\* One iteration of the replay loop.
ReplayRecord ==
  /\ phase = "replay" /\ applied < Len(journal)
  /\ ~ReplayRefused(state, journal[applied + 1].rec)
  /\ state' = ReplayApply(state, journal[applied + 1].rec)
  /\ applied' = applied + 1
  /\ UNCHANGED <<durable, phase, epoch, chain, observed>>

ReplayFails ==
  /\ phase = "replay" /\ applied < Len(journal)
  /\ ReplayRefused(state, journal[applied + 1].rec)
  /\ phase' = "refused" /\ epoch' = 0 /\ applied' = 0 /\ chain' = 0
  /\ state' = EmptyState
  /\ UNCHANGED <<durable, observed>>

OpenDone ==
  /\ phase = "replay" /\ applied = Len(journal)
  /\ phase' = "ready"
  /\ UNCHANGED <<durable, epoch, applied, chain, state, observed>>

\* The process dies, anywhere.
Crash ==
  /\ phase \in {"replay", "ready"}
  /\ phase' = "down" /\ epoch' = 0 /\ applied' = 0 /\ chain' = 0
  /\ state' = EmptyState
  /\ UNCHANGED <<durable, observed>>

-----------------------------------------------------------------------------
(* Authority: when does an operation reach its durability point? *)

\* Defect: the rules are consulted, the policy generation is not.
PolicyAnyGeneration(c) ==
  state.policy # NoPolicy => <<state.policy.rules, c.body>> \in Permits

\* Step 3 of register_workload, and the same test in publish.
PolicyAllows(c) ==
  state.policy # NoPolicy =>
    /\ c.policyGen = state.policy.gen
    /\ <<state.policy.rules, c.body>> \in Permits

\* verify_signature: the signing key is one the trust set holds for the
\* claimed publisher, and the signature is for this kind of submission.
SignedFor(c, domain, operation) ==
  c.publisher \in Trusted /\ domain = operation

\* Defect: the duplicate test is missing.
MayReregister(c, domain, supersedes) ==
  c.gen = 1 /\ SignedFor(c, domain, "registration") /\ PolicyAllows(c)

MayRegister(c, domain, supersedes) ==
  /\ c.gen = 1
  /\ supersedes = 0
  /\ SignedFor(c, domain, "registration")
  /\ PolicyAllows(c)
  /\ ~Known(state, c.workload)

\* Defect: the submission is compared with the digest it names only.
SucceedsByDigest(c, current, supersedes, prior) == prior = Digest(current)

\* Generation authority: the next generation, naming the one it replaces.
\* `supersedes' and `prior' are the generation and digest the submission names.
Succeeds(c, current, supersedes, prior) ==
  /\ c.gen = current.gen + 1
  /\ supersedes = current.gen
  /\ prior = Digest(current)

\* check_compatibility includes the major version test.
MayPublish(c, domain, supersedes, prior) ==
  /\ Known(state, c.workload)
  /\ ~state.retired[c.workload]
  /\ LET current == Current(state, c.workload) IN
       /\ Succeeds(c, current, supersedes, prior)
       /\ SignedFor(c, domain, "publication")
       /\ c.publisher = current.publisher
       /\ PolicyAllows(c)
       /\ <<current.body, c.body>> \in Compatible
  /\ Len(state.generations[c.workload]) < MaxGeneration

MayAttach(gen, scopes, publisher) ==
  /\ scopes # {}
  /\ gen # 0 => gen > state.floor
  /\ publisher \in Trusted

\* Defect: a generation is refused only when it is older.
MayReinstall(p) == state.policy # NoPolicy => p.gen >= state.policy.gen

MayInstall(p) ==
  state.policy # NoPolicy =>
    /\ p.gen >= state.policy.gen
    /\ p.gen = state.policy.gen => p = state.policy

MayRetire(w) == Known(state, w) /\ ~state.retired[w]

\* Runtime::commit: the record is appended and flushed.
Commit(rec) ==
  /\ journal' = Append(journal, [rec |-> rec, link |-> chain])
  /\ past' = [i \in 0..(Len(journal) + 1) |->
                IF i <= Len(journal) THEN past[i]
                                     ELSE Apply(past[Len(journal)], rec)]

\* After the commit the operation changes the memory and answers; or the
\* process dies first and nobody was told.
Perform(rec, answered) ==
  /\ Commit(rec)
  /\ \/ /\ state' = Apply(state, rec)
        /\ chain' = Len(journal) + 1
        /\ applied' = applied + 1
        /\ acked' = acked \cup answered
        /\ UNCHANGED <<phase, epoch>>
     \/ /\ phase' = "down" /\ epoch' = 0 /\ applied' = 0 /\ chain' = 0
        /\ state' = EmptyState
        /\ UNCHANGED acked
  /\ UNCHANGED <<bootEpoch, reopened>>

-----------------------------------------------------------------------------
(* Operations *)

Serving == phase = "ready" /\ Len(journal) < MaxJournal

Domain == {"registration", "publication"}

RegisterWorkload(c) ==
  /\ Serving
  /\ \E d \in Domain, g \in 0..MaxGeneration : MayRegister(c, d, g)
  /\ Perform(ContractRecord(c), {c})

\* Digests a submitter can name: those of contracts that exist.
KnownDigests(w) ==
  {Digest(state.generations[w][i].contract) :
     i \in 1..Len(state.generations[w])}

Publish(c) ==
  /\ Serving
  /\ \E d \in Domain, g \in 0..MaxGeneration, prior \in KnownDigests(c.workload) :
       MayPublish(c, d, g, prior)
  /\ Perform(ContractRecord(c), {c})

AttachEvidence(input, scopes, publisher) ==
  /\ Serving
  /\ MayAttach(input[1], scopes, publisher)
  /\ Perform(EvidenceRecord([gen |-> input[1], scopes |-> scopes,
                              preset |-> input[2], by |-> epoch]), {})

InstallPolicy(p) ==
  /\ Serving
  /\ MayInstall(p)
  /\ Perform(PolicyRecord(p), {})

Retire(w) ==
  /\ Serving
  /\ MayRetire(w)
  /\ Perform(RetiredRecord(w), {})

(* Reading the index back *)

\* contract_at: the first record of that generation, if there is one.
ContractAt(w, g) ==
  LET h == state.generations[w] IN
  {h[i].contract : i \in {i \in 1..Len(h) :
     h[i].contract.gen = g /\ \A j \in 1..(i - 1) : h[j].contract.gen # g}}

\* verify_history, after the ledger's own scan: each contract record of the
\* journal is in the index under its generation and digest.
IndexComplete ==
  \A i \in 1..Len(journal) :
    journal[i].rec.type = "contract" =>
      LET c == journal[i].rec.contract
          h == state.generations[c.workload]
      IN  \E k \in 1..Len(h) :
            h[k].contract.gen = c.gen /\ Digest(h[k].contract) = Digest(c)

-----------------------------------------------------------------------------
Next ==
  \/ OpenRefused
  \/ Open
  \/ ReplayRecord
  \/ ReplayFails
  \/ OpenDone
  \/ Crash
  \/ \E c \in Contract : RegisterWorkload(c)
  \/ \E c \in Contract : Publish(c)
  \/ \E input \in EvidenceInputs, scopes \in SUBSET Scope, p \in Publisher :
        AttachEvidence(input, scopes, p)
  \/ \E p \in Policy : InstallPolicy(p)
  \/ \E w \in Workload : Retire(w)

Spec == Init /\ [][Next]_vars

-----------------------------------------------------------------------------
(* Properties *)

Stored == [set: Evidence, fresh: BOOLEAN] \cup {NoEvidence}

State ==
  [generations: [Workload -> Seq([contract: Contract, superseded: BOOLEAN])],
   retired: [Workload -> BOOLEAN],
   retiredGens: [Workload -> SUBSET Nat],
   evidence: [Workload -> Stored],
   policy: Policy \cup {NoPolicy},
   floor: Nat]

TypeOK ==
  /\ journal \in Seq([rec: Record, link: Nat])
  /\ bootEpoch \in Nat
  /\ phase \in {"down", "replay", "ready", "refused"}
  /\ epoch \in Nat /\ applied \in Nat /\ chain \in Nat
  /\ state \in State
  /\ past \in [0..Len(journal) -> State]
  /\ acked \subseteq Contract
  /\ reopened \in Nat

\* The part of a state that must survive a restart unchanged.
Registry(st) ==
  [generations |-> st.generations, retired |-> st.retired,
   policy |-> st.policy]

\* Replaying the journal rebuilds the contracts with their superseded marks,
\* the retirements and the policy exactly as the operations had left them,
\* including those of operations that died between append and answer.
RegistryRecovered ==
  phase = "ready" => Registry(state) = Registry(past[Len(journal)])

\* A contract whose submission was answered with success is served by
\* contract_at in every later incarnation that serves at all.
AckedContractsServed ==
  phase = "ready" => \A c \in acked : ContractAt(c.workload, c.gen) = {c}

Contracts(w) ==
  {i \in 1..Len(journal) :
     journal[i].rec.type = "contract" /\ journal[i].rec.contract.workload = w}

\* No generation is accepted twice or out of order, however submissions are
\* repeated and whatever restarts lie between them (kReplayRejected,
\* kGenerationGap, kDuplicateWorkload).
GenerationsAcceptedOnce ==
  \A w \in Workload : \A i, j \in Contracts(w) :
    i < j => journal[i].rec.contract.gen < journal[j].rec.contract.gen

\* The index of a serving coordinator holds every contract of the journal, also
\* those whose submitter was never answered: verify_history has nothing to
\* report but a damaged chain.
HistoryVerifies == phase = "ready" => IndexComplete

\* Every contract in the journal was permitted by the policy in force when it
\* was accepted, by the generation the contract itself names.
PermittedWhenAccepted ==
  \A w \in Workload : \A i \in Contracts(w) :
    LET c == journal[i].rec.contract
        policy == past[i - 1].policy
    IN  policy # NoPolicy =>
          c.policyGen = policy.gen /\ <<policy.rules, c.body>> \in Permits

Policies == {i \in 1..Len(journal) : journal[i].rec.type = "policy"}

\* The installed policy never goes back, and one policy generation never has
\* two contents, over the whole history of the directory.
PolicyHistoryOrdered ==
  \A i, j \in Policies :
    LET p == journal[i].rec.policy
        q == journal[j].rec.policy
    IN  i < j => p.gen < q.gen \/ p = q

\* decide_requirement answers from an entry only when this incarnation
\* captured it and it is marked current.
Decisive(w) ==
  /\ state.evidence[w] # NoEvidence
  /\ state.evidence[w].set.by = epoch /\ state.evidence[w].fresh

\* "Restoring state is never restoring liveness": evidence that can decide a
\* requirement was attached after this incarnation opened the directory.
DecisiveEvidenceIsNew ==
  phase = "ready" =>
    \A w \in Workload : Decisive(w) =>
      \E i \in (reopened + 1)..Len(journal) :
        journal[i].rec = EvidenceRecord(state.evidence[w].set)

SetOf(stored) == IF stored = NoEvidence THEN NoEvidence ELSE stored.set

\* A restart gives every workload that is not retired back the evidence set it
\* had: the replay recomputes whom a set concerns from the contracts as they
\* were when the set was attached.
EvidenceRecovered ==
  phase = "ready" =>
    \A w \in Workload : ~state.retired[w] =>
      SetOf(state.evidence[w]) = SetOf(past[Len(journal)].evidence[w])

ContractsOf(history) == [i \in 1..Len(history) |-> history[i].contract]

Registered == INSTANCE ContractRegistry WITH
  generations <- [w \in Workload |->
                    ContractsOf(past[Len(journal)].generations[w])],
  retired <- past[Len(journal)].retired

\* The coordinator keeps the promise of ContractRegistry: the durable
\* contracts change only as that specification says, across crashes.
ImplementsRegistry == Registered!Spec

-----------------------------------------------------------------------------
(* Statements of the documentation that the code does not keep *)

\* "Deriving it earlier would stamp a set whose identity does not describe
\* it, and the durable record would then be refused on the next recovery"
\* (attach_evidence): no record an operation wrote is refused by the replay.
RecordsReplayable ==
  phase = "replay" /\ applied < Len(journal) =>
    ~ReplayRefused(state, journal[applied + 1].rec)
=============================================================================
