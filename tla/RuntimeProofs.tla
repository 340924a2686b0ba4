---------------------------- MODULE RuntimeProofs ---------------------------
(***************************************************************************)
(* Theorems about Runtime, for every set of workloads, bodies, publishers  *)
(* and policies and for every bound.                                       *)
(***************************************************************************)
EXTENDS Runtime, TLAPS

-----------------------------------------------------------------------------
(* Types of the effects of a record *)

Gen == [contract: Contract, superseded: BOOLEAN]

History == Seq(Gen)

\* The four kinds of journal record.
LEMMA RecordKinds ==
  ASSUME NEW rec \in Record
  PROVE  \/ rec.type = "contract" /\ rec.contract \in Contract
         \/ rec.type = "retired" /\ rec.workload \in Workload
         \/ rec.type = "evidence" /\ rec.evidence \in Evidence
         \/ rec.type = "policy" /\ rec.policy \in Policy
BY DEF Record

\* The state a process starts with, before Runtime::open replays anything.
LEMMA EmptyTyped == EmptyState \in State
BY DEF EmptyState, State, Stored

\* Marking one generation keeps its contract and its type.
LEMMA MarkedTyped ==
  ASSUME NEW g \in Gen, NEW b \in BOOLEAN
  PROVE  /\ [g EXCEPT !.superseded = b] \in Gen
         /\ [g EXCEPT !.superseded = b].contract = g.contract
BY DEF Gen

\* Adding a generation keeps a history well typed, live and in the replay.
LEMMA SupersedingTyped ==
  ASSUME NEW h \in History, NEW c \in Contract
  PROVE  Superseding(h, c) \in History /\ ReplaySuperseding(h, c) \in History
<1>1. Generation(c) \in Gen
  BY DEF Generation, Gen
<1>h. \A i \in 1..Len(h) : h[i] \in Gen
  BY DEF History
<1>2. [i \in 1..Len(h) |-> [h[i] EXCEPT !.superseded = TRUE]] \in Seq(Gen)
  <2>1. \A i \in 1..Len(h) : [h[i] EXCEPT !.superseded = TRUE] \in Gen
    BY <1>h, MarkedTyped
  <2> QED BY <2>1 DEF History
<1>3. [i \in 1..Len(h) |-> [h[i] EXCEPT !.superseded =
         @ \/ h[i].contract.gen < c.gen]] \in Seq(Gen)
  <2>1. ASSUME NEW i \in 1..Len(h)
        PROVE  [h[i] EXCEPT !.superseded =
                  @ \/ h[i].contract.gen < c.gen] \in Gen
    <3>1. h[i] \in Gen
      BY <1>h
    <3>2. (h[i].superseded \/ h[i].contract.gen < c.gen) \in BOOLEAN
      OBVIOUS
    <3> QED BY <3>1, <3>2, MarkedTyped
  <2> QED BY <2>1 DEF History
<1>4. Superseding(h, c) \in Seq(Gen)
  BY <1>1, <1>2 DEF Superseding
<1>5. ReplaySuperseding(h, c) \in Seq(Gen)
  BY <1>1, <1>3 DEF ReplaySuperseding
<1> QED BY <1>4, <1>5 DEF History

\* The effect of any record on a well-typed state, when the operation that
\* wrote it runs and when it is replayed.
LEMMA ApplyTyped ==
  ASSUME NEW st \in State, NEW rec \in Record
  PROVE  Apply(st, rec) \in State
<1>1. CASE rec.type = "contract"
  <2> DEFINE c == rec.contract
             gens == [st.generations EXCEPT
                        ![c.workload] = Superseding(st.generations[c.workload], c)]
  <2>1. c \in Contract /\ c.workload \in Workload
    BY <1>1, RecordKinds DEF Contract
  <2>2. st.generations \in [Workload -> History]
    BY DEF State, History, Gen
  <2>3. Superseding(st.generations[c.workload], c) \in History
    BY <2>1, <2>2, SupersedingTyped
  <2>4. gens \in [Workload -> History]
    BY <2>1, <2>2, <2>3
  <2>5. Apply(st, rec) = [st EXCEPT !.generations = gens]
    BY <1>1 DEF Apply, ApplyContract
  <2> HIDE DEF gens
  <2> QED BY <2>4, <2>5 DEF State, History, Gen
<1>2. CASE rec.type = "retired"
  <2> DEFINE w == rec.workload
             marks == {st.generations[w][i].contract.gen :
                         i \in 1..Len(st.generations[w])}
  <2>1. w \in Workload
    BY <1>2, RecordKinds
  <2>2. st.generations[w] \in History
    BY <2>1 DEF State, History, Gen
  <2>3. marks \in SUBSET Nat
    <3>1. ASSUME NEW i \in 1..Len(st.generations[w])
          PROVE  st.generations[w][i].contract.gen \in Nat
      <4>1. st.generations[w][i] \in Gen
        BY <2>2 DEF History
      <4> QED BY <4>1, RuntimeAssumption DEF Gen, Contract
    <3> QED BY <3>1
  <2>4. Apply(st, rec) = [st EXCEPT !.retired = [st.retired EXCEPT ![w] = TRUE],
                                    !.retiredGens = [st.retiredGens EXCEPT ![w] = marks]]
    BY <1>2 DEF Apply, ApplyRetired
  <2> HIDE DEF marks
  <2>5. [st.retired EXCEPT ![w] = TRUE] \in [Workload -> BOOLEAN]
    BY <2>1 DEF State
  <2>6. [st.retiredGens EXCEPT ![w] = marks] \in [Workload -> SUBSET Nat]
    BY <2>1, <2>3 DEF State
  <2> QED BY <2>4, <2>5, <2>6 DEF State
<1>3. CASE rec.type = "evidence"
  <2> DEFINE e == rec.evidence
             affected == {w \in Workload : Declares(st, w, e) /\ ~st.retired[w]}
  <2>1. e \in Evidence /\ e.gen \in Nat
    BY <1>3, RecordKinds DEF Evidence
  <2>2. Attach(st, affected, e, TRUE) \in [Workload -> Stored]
    BY <2>1 DEF Attach, State, Stored
  <2>3. Apply(st, rec) = [st EXCEPT !.evidence = Attach(st, affected, e, TRUE),
                                    !.floor = e.gen]
    BY <1>3 DEF Apply, ApplyEvidence
  <2> HIDE DEF affected
  <2> QED BY <2>1, <2>2, <2>3 DEF State
<1>4. CASE rec.type = "policy"
  <2>1. rec.policy \in Policy
    BY <1>4, RecordKinds
  <2>2. Apply(st, rec) = [st EXCEPT !.policy = rec.policy]
    BY <1>4 DEF Apply, ApplyPolicy
  <2> QED BY <2>1, <2>2 DEF State
<1> QED BY <1>1, <1>2, <1>3, <1>4, RecordKinds

\* The same for one iteration of the replay loop.
LEMMA ReplayTyped ==
  ASSUME NEW st \in State, NEW rec \in Record
  PROVE  ReplayApply(st, rec) \in State
<1>1. CASE rec.type = "contract"
  <2> DEFINE c == rec.contract
             gens == [st.generations EXCEPT
                        ![c.workload] = ReplaySuperseding(st.generations[c.workload], c)]
  <2>1. c \in Contract /\ c.workload \in Workload
    BY <1>1, RecordKinds DEF Contract
  <2>2. st.generations \in [Workload -> History]
    BY DEF State, History, Gen
  <2>3. ReplaySuperseding(st.generations[c.workload], c) \in History
    BY <2>1, <2>2, SupersedingTyped
  <2>4. gens \in [Workload -> History]
    BY <2>1, <2>2, <2>3
  <2>5. ReplayApply(st, rec) = [st EXCEPT !.generations = gens]
    BY <1>1 DEF ReplayApply, ReplayContract
  <2> HIDE DEF gens
  <2> QED BY <2>4, <2>5 DEF State, History, Gen
<1>2. CASE rec.type = "retired"
  <2> DEFINE w == rec.workload
  <2>1. w \in Workload
    BY <1>2, RecordKinds
  <2>2. ReplayApply(st, rec) = [st EXCEPT !.retired = [st.retired EXCEPT ![w] = TRUE]]
    BY <1>2 DEF ReplayApply, ReplayRetired
  <2>3. [st.retired EXCEPT ![w] = TRUE] \in [Workload -> BOOLEAN]
    BY <2>1 DEF State
  <2> QED BY <2>2, <2>3 DEF State
<1>3. CASE rec.type = "evidence"
  <2> DEFINE e == rec.evidence
             affected == {w \in Workload : Declares(st, w, e)}
             floor == IF affected # {} /\ e.gen > st.floor THEN e.gen ELSE st.floor
  <2>1. e \in Evidence /\ e.gen \in Nat
    BY <1>3, RecordKinds DEF Evidence
  <2>2. Attach(st, affected, e, FALSE) \in [Workload -> Stored]
    BY <2>1 DEF Attach, State, Stored
  <2>3. ReplayApply(st, rec) = [st EXCEPT !.evidence = Attach(st, affected, e, FALSE),
                                          !.floor = floor]
    BY <1>3 DEF ReplayApply, ReplayEvidence
  <2>4. floor \in Nat
    BY <2>1 DEF State
  <2> HIDE DEF affected, floor
  <2> QED BY <2>2, <2>3, <2>4 DEF State
<1>4. CASE rec.type = "policy"
  <2>1. rec.policy \in Policy
    BY <1>4, RecordKinds
  <2>2. ReplayApply(st, rec) = [st EXCEPT !.policy = rec.policy]
    BY <1>4 DEF ReplayApply, ApplyPolicy
  <2> QED BY <2>1, <2>2 DEF State
<1> QED BY <1>1, <1>2, <1>3, <1>4, RecordKinds

-----------------------------------------------------------------------------
(* Type correctness *)

\* The bookkeeping of Commit is well typed.
LEMMA CommitTyped ==
  ASSUME TypeOK, NEW rec \in Record, Commit(rec)
  PROVE  /\ journal' \in Seq([rec: Record, link: Nat])
         /\ Len(journal') = Len(journal) + 1
         /\ journal'[Len(journal) + 1].rec = rec
         /\ \A i \in 1..Len(journal) : journal'[i] = journal[i]
         /\ past' \in [0..Len(journal') -> State]
         /\ \A i \in 0..Len(journal) : past'[i] = past[i]
         /\ past'[Len(journal) + 1] = Apply(past[Len(journal)], rec)
<1> DEFINE n == Len(journal)
<1>1. journal \in Seq([rec: Record, link: Nat]) /\ n \in Nat
  BY DEF TypeOK
<1>2. [rec |-> rec, link |-> chain] \in [rec: Record, link: Nat]
  BY DEF TypeOK
<1>3. journal' = Append(journal, [rec |-> rec, link |-> chain])
  BY DEF Commit
<1>4. /\ journal' \in Seq([rec: Record, link: Nat])
      /\ Len(journal') = n + 1
      /\ journal'[n + 1].rec = rec
      /\ \A i \in 1..n : journal'[i] = journal[i]
  BY <1>1, <1>2, <1>3
<1>5. past' = [i \in 0..(n + 1) |-> IF i <= n THEN past[i] ELSE Apply(past[n], rec)]
  BY DEF Commit
<1>6. \A i \in 0..n : past[i] \in State
  BY DEF TypeOK
<1>7. Apply(past[n], rec) \in State
  BY <1>1, <1>6, ApplyTyped
<1>8. past' \in [0..(n + 1) -> State]
  BY <1>1, <1>5, <1>6, <1>7
<1>9. /\ \A i \in 0..n : past'[i] = past[i]
      /\ past'[n + 1] = Apply(past[n], rec)
  BY <1>1, <1>5
<1> QED BY <1>4, <1>8, <1>9

\* What the guards of the operations establish about the record they write.
Registers(c) == ~Known(state, c.workload) /\ c.gen = 1

Supersedes(c) ==
  LET current == Current(state, c.workload) IN
  /\ Known(state, c.workload)
  /\ ~state.retired[c.workload]
  /\ c.gen = current.gen + 1
  /\ c.publisher = current.publisher
  /\ <<current.body, c.body>> \in Compatible

Guarded(rec, answered) ==
  /\ rec.type = "contract" =>
       /\ answered = {rec.contract}
       /\ PolicyAllows(rec.contract)
       /\ Registers(rec.contract) \/ Supersedes(rec.contract)
  /\ rec.type = "retired" => answered = {} /\ MayRetire(rec.workload)
  /\ rec.type = "evidence" => answered = {}
  /\ rec.type = "policy" => answered = {} /\ MayInstall(rec.policy)

Performs ==
  \E rec \in Record, answered \in SUBSET Contract :
    phase = "ready" /\ Guarded(rec, answered) /\ Perform(rec, answered)

\* Every operation performs one well-typed record its guards vouch for.
LEMMA ContractPerforms ==
  ASSUME NEW c \in Contract, RegisterWorkload(c) \/ Publish(c)
  PROVE  Performs
<1>1. ContractRecord(c) \in Record
  BY DEF ContractRecord, Record
<1>2. ContractRecord(c).type = "contract" /\ ContractRecord(c).contract = c
  BY DEF ContractRecord
<1>3. CASE RegisterWorkload(c)
  <2>1. PolicyAllows(c) /\ Registers(c)
    BY <1>3 DEF RegisterWorkload, MayRegister, Registers
  <2>2. Guarded(ContractRecord(c), {c})
    BY <1>2, <2>1 DEF Guarded
  <2> QED BY <1>1, <1>3, <2>2 DEF RegisterWorkload, Serving, Performs
<1>4. CASE Publish(c)
  <2>1. PolicyAllows(c) /\ Supersedes(c)
    BY <1>4 DEF Publish, MayPublish, Succeeds, Supersedes
  <2>2. Guarded(ContractRecord(c), {c})
    BY <1>2, <2>1 DEF Guarded
  <2> QED BY <1>1, <1>4, <2>2 DEF Publish, Serving, Performs
<1> QED BY <1>3, <1>4

\* attach_evidence writes one evidence record stamped by this incarnation.
LEMMA EvidencePerforms ==
  ASSUME TypeOK, NEW input \in EvidenceInputs, NEW scopes \in SUBSET Scope,
         NEW p \in Publisher, AttachEvidence(input, scopes, p)
  PROVE  Performs
<1> DEFINE e == [gen |-> input[1], scopes |-> scopes, preset |-> input[2],
                 by |-> epoch]
<1>1. input[1] \in Nat /\ input[2] \in BOOLEAN
  BY RuntimeAssumption
<1>2. e \in Evidence
  BY <1>1 DEF Evidence, TypeOK
<1>3. EvidenceRecord(e) \in Record
  BY <1>2 DEF EvidenceRecord, Record
<1>4. phase = "ready" /\ Perform(EvidenceRecord(e), {})
  BY DEF AttachEvidence, Serving
<1> HIDE DEF e
<1>5. Guarded(EvidenceRecord(e), {})
  BY DEF Guarded, EvidenceRecord
<1> QED BY <1>3, <1>4, <1>5 DEF Performs

\* install_policy writes one policy record that MayInstall accepted.
LEMMA PolicyPerforms ==
  ASSUME NEW p \in Policy, InstallPolicy(p)
  PROVE  Performs
<1>1. PolicyRecord(p) \in Record
  BY DEF PolicyRecord, Record
<1>2. Guarded(PolicyRecord(p), {})
  BY DEF Guarded, PolicyRecord, InstallPolicy
<1> QED BY <1>1, <1>2 DEF InstallPolicy, Serving, Performs

\* retire writes one retirement of a workload that is known.
LEMMA RetirePerforms ==
  ASSUME NEW w \in Workload, Retire(w)
  PROVE  Performs
<1>1. RetiredRecord(w) \in Record
  BY DEF RetiredRecord, Record
<1>2. Guarded(RetiredRecord(w), {})
  BY DEF Guarded, RetiredRecord, Retire
<1> QED BY <1>1, <1>2 DEF Retire, Serving, Performs

\* A step is one of the steps of Runtime::open, a crash, or an operation.
LEMMA Steps ==
  ASSUME TypeOK, [Next]_vars
  PROVE  \/ OpenRefused \/ Open \/ ReplayRecord \/ ReplayFails \/ OpenDone \/ Crash
         \/ Performs
         \/ UNCHANGED vars
BY ContractPerforms, EvidencePerforms, PolicyPerforms, RetirePerforms DEF Next

\* Each step of the coordinator, a crash included, keeps the types.
LEMMA TypePreserved ==
  ASSUME TypeOK, [Next]_vars
  PROVE  TypeOK'
<1> USE EmptyTyped
<1>1. CASE OpenRefused
  BY <1>1 DEF TypeOK, OpenRefused, durable, observed
<1>2. CASE Open
  <2>1. chain' \in Nat
    <3>1. CASE journal = <<>>
      BY <1>2, <3>1 DEF Open, RecoveredChain
    <3>2. CASE journal # <<>>
      <4>1. Len(journal) \in 1..Len(journal)
        BY <3>2 DEF TypeOK
      <4>2. journal[Len(journal)].link \in Nat
        BY <4>1, SMTT(30) DEF TypeOK
      <4> QED BY <1>2, <3>2, <4>2 DEF Open, RecoveredChain
    <3> QED BY <3>1, <3>2
  <2> QED BY <1>2, <2>1 DEF TypeOK, Open
<1>3. CASE ReplayRecord
  <2>0. applied + 1 \in 1..Len(journal)
    BY <1>3 DEF TypeOK, ReplayRecord
  <2>1. journal[applied + 1].rec \in Record
    BY <2>0 DEF TypeOK
  <2>2. state' \in State
    BY <1>3, <2>1, ReplayTyped DEF TypeOK, ReplayRecord
  <2> QED BY <1>3, <2>2 DEF TypeOK, ReplayRecord, durable, observed
<1>4. CASE ReplayFails
  BY <1>4 DEF TypeOK, ReplayFails, durable, observed
<1>5. CASE OpenDone
  BY <1>5 DEF TypeOK, OpenDone, durable, observed
<1>6. CASE Crash
  BY <1>6 DEF TypeOK, Crash, durable, observed
<1>7. CASE Performs
  <2>1. PICK rec \in Record, answered \in SUBSET Contract : Perform(rec, answered)
    BY <1>7 DEF Performs
  <2>2. journal' \in Seq([rec: Record, link: Nat]) /\ past' \in [0..Len(journal') -> State]
    BY <2>1, CommitTyped DEF Perform
  <2>3. Apply(state, rec) \in State
    BY ApplyTyped DEF TypeOK
  <2>4. Len(journal) \in Nat
    BY DEF TypeOK
  <2> QED BY <2>1, <2>2, <2>3, <2>4 DEF TypeOK, Perform
<1>8. CASE UNCHANGED vars
  BY <1>8 DEF TypeOK, vars, durable, memory, observed
<1> QED BY <1>1, <1>2, <1>3, <1>4, <1>5, <1>6, <1>7, <1>8, Steps

\* Every variable keeps its type in every run of the coordinator.
THEOREM TypeCorrect == Spec => []TypeOK
<1>1. Init => TypeOK
  BY EmptyTyped DEF Init, TypeOK
<1>2. TypeOK /\ [Next]_vars => TypeOK'
  BY TypePreserved
<1> QED BY <1>1, <1>2, PTL DEF Spec

-----------------------------------------------------------------------------
(* What the replay rebuilds *)

\* The k-th generation a workload holds is generation k.
Numbered(st) ==
  \A w \in Workload : \A k \in 1..Len(st.generations[w]) :
    st.generations[w][k].contract.gen = k

\* The observed states are the effects of the durable records, in order.
Logged ==
  /\ past[0] = EmptyState
  /\ \A i \in 1..Len(journal) : past[i] = Apply(past[i - 1], journal[i].rec)

\* While Runtime::open replays, and while the coordinator serves, the memory
\* agrees with what the first `applied' records did.
Rebuilt ==
  /\ applied <= Len(journal)
  /\ phase = "ready" => applied = Len(journal)
  /\ phase \in {"replay", "ready"} => Registry(state) = Registry(past[applied])

\* RegistryRecovered is not inductive: the replay marks the generations below
\* the new one where the operations mark all, so the two agree only because
\* the durable history is numbered without gaps.
ReplayInv ==
  /\ TypeOK
  /\ Logged
  /\ \A i \in 0..Len(journal) : Numbered(past[i])
  /\ Rebuilt

\* The registry part of the effect of a record, live.
LEMMA ApplyRegistry ==
  ASSUME NEW st \in State, NEW rec \in Record
  PROVE  /\ rec.type = "contract" =>
              LET c == rec.contract IN
              Registry(Apply(st, rec)) =
                [generations |-> [st.generations EXCEPT
                    ![c.workload] = Superseding(st.generations[c.workload], c)],
                 retired |-> st.retired, policy |-> st.policy]
         /\ rec.type = "retired" =>
              Registry(Apply(st, rec)) =
                [generations |-> st.generations,
                 retired |-> [st.retired EXCEPT ![rec.workload] = TRUE],
                 policy |-> st.policy]
         /\ rec.type = "evidence" => Registry(Apply(st, rec)) = Registry(st)
         /\ rec.type = "policy" =>
              Registry(Apply(st, rec)) =
                [generations |-> st.generations, retired |-> st.retired,
                 policy |-> rec.policy]
<1>1. CASE rec.type = "contract"
  BY <1>1 DEF State, Registry, Apply, ApplyContract
<1>2. CASE rec.type = "retired"
  BY <1>2 DEF State, Registry, Apply, ApplyRetired
<1>3. CASE rec.type = "evidence"
  BY <1>3 DEF State, Registry, Apply, ApplyEvidence
<1>4. CASE rec.type = "policy"
  BY <1>4 DEF State, Registry, Apply, ApplyPolicy
<1> QED BY <1>1, <1>2, <1>3, <1>4, RecordKinds

\* And in the replay.
LEMMA ReplayRegistry ==
  ASSUME NEW st \in State, NEW rec \in Record
  PROVE  /\ rec.type = "contract" =>
              LET c == rec.contract IN
              Registry(ReplayApply(st, rec)) =
                [generations |-> [st.generations EXCEPT
                    ![c.workload] = ReplaySuperseding(st.generations[c.workload], c)],
                 retired |-> st.retired, policy |-> st.policy]
         /\ rec.type = "retired" =>
              Registry(ReplayApply(st, rec)) =
                [generations |-> st.generations,
                 retired |-> [st.retired EXCEPT ![rec.workload] = TRUE],
                 policy |-> st.policy]
         /\ rec.type = "evidence" => Registry(ReplayApply(st, rec)) = Registry(st)
         /\ rec.type = "policy" =>
              Registry(ReplayApply(st, rec)) =
                [generations |-> st.generations, retired |-> st.retired,
                 policy |-> rec.policy]
<1>1. CASE rec.type = "contract"
  BY <1>1 DEF State, Registry, ReplayApply, ReplayContract
<1>2. CASE rec.type = "retired"
  BY <1>2 DEF State, Registry, ReplayApply, ReplayRetired
<1>3. CASE rec.type = "evidence"
  BY <1>3 DEF State, Registry, ReplayApply, ReplayEvidence
<1>4. CASE rec.type = "policy"
  BY <1>4 DEF State, Registry, ReplayApply, ApplyPolicy
<1> QED BY <1>1, <1>2, <1>3, <1>4, RecordKinds

\* A history in a well-typed state is a sequence of generation records.
LEMMA HistoryTyped ==
  ASSUME NEW st \in State, NEW w \in Workload
  PROVE  st.generations[w] \in History /\ Len(st.generations[w]) \in Nat
<1>1. st.generations \in [Workload -> History]
  BY DEF State, History, Gen
<1>2. st.generations[w] \in History
  BY <1>1
<1> QED BY <1>2 DEF History

\* What Superseding does to a history: one more entry, the contracts kept.
LEMMA SupersedingShape ==
  ASSUME NEW h \in History, NEW c \in Contract
  PROVE  /\ Len(Superseding(h, c)) = Len(h) + 1
         /\ Superseding(h, c)[Len(h) + 1].contract = c
         /\ \A i \in 1..Len(h) : Superseding(h, c)[i].contract = h[i].contract
<1> DEFINE marked == [i \in 1..Len(h) |-> [h[i] EXCEPT !.superseded = TRUE]]
<1>1. \A i \in 1..Len(h) : h[i] \in Gen
  BY DEF History
<1>2. \A i \in 1..Len(h) : /\ marked[i] \in Gen
                           /\ marked[i].contract = h[i].contract
  BY <1>1, MarkedTyped
<1>3. Len(h) \in Nat
  BY DEF History
<1>4. marked \in Seq(Gen) /\ Len(marked) = Len(h)
  BY <1>2, <1>3
<1>5. Superseding(h, c) = Append(marked, Generation(c))
  BY DEF Superseding
<1>6. Generation(c).contract = c
  BY DEF Generation
<1> HIDE DEF marked
<1> QED BY <1>2, <1>3, <1>4, <1>5, <1>6

\* The replay's rule marks the same generations when the new one is highest.
LEMMA SameMarks ==
  ASSUME NEW h \in History, NEW c \in Contract,
         \A i \in 1..Len(h) : h[i].contract.gen < c.gen
  PROVE  ReplaySuperseding(h, c) = Superseding(h, c)
<1>1. ASSUME NEW i \in 1..Len(h)
      PROVE  (h[i].superseded \/ h[i].contract.gen < c.gen) = TRUE
  BY <1>1
<1>2. [i \in 1..Len(h) |-> [h[i] EXCEPT !.superseded =
         @ \/ h[i].contract.gen < c.gen]]
        = [i \in 1..Len(h) |-> [h[i] EXCEPT !.superseded = TRUE]]
  BY <1>1, Zenon
<1> QED BY <1>2, Zenon DEF ReplaySuperseding, Superseding

\* A record that keeps the numbering when it runs is replayed to the same
\* registry it had produced.
LEMMA ReplayAgrees ==
  ASSUME NEW st \in State, NEW old \in State, NEW rec \in Record,
         Registry(st) = Registry(old),
         Numbered(old), Numbered(Apply(old, rec))
  PROVE  Registry(ReplayApply(st, rec)) = Registry(Apply(old, rec))
<1>0. /\ st.generations = old.generations
      /\ st.retired = old.retired
      /\ st.policy = old.policy
  BY DEF Registry
<1>1. CASE rec.type = "contract"
  <2> DEFINE c == rec.contract
             h == old.generations[c.workload]
  <2>1. c \in Contract /\ c.workload \in Workload
    BY <1>1, RecordKinds DEF Contract
  <2>2. h \in History /\ Len(h) \in Nat
    BY <2>1, HistoryTyped
  <2>3. Apply(old, rec).generations[c.workload] = Superseding(h, c)
    <3>1. Apply(old, rec).generations = [old.generations EXCEPT ![c.workload] = Superseding(h, c)]
      BY <1>1, ApplyRegistry DEF Registry
    <3>2. old.generations \in [Workload -> History]
      BY DEF State, History, Gen
    <3> QED BY <2>1, <3>1, <3>2
  <2>4. c.gen = Len(h) + 1
    <3>1. Len(Superseding(h, c)) = Len(h) + 1 /\ Superseding(h, c)[Len(h) + 1].contract = c
      BY <2>1, <2>2, SupersedingShape
    <3>2. Superseding(h, c)[Len(h) + 1].contract.gen = Len(h) + 1
      BY <2>1, <2>2, <2>3, <3>1, SMTT(30) DEF Numbered
    <3> QED BY <3>1, <3>2
  <2>5. \A i \in 1..Len(h) : h[i].contract.gen < c.gen
    BY <2>1, <2>2, <2>4 DEF Numbered
  <2>6. ReplaySuperseding(h, c) = Superseding(h, c)
    BY <2>1, <2>2, <2>5, SameMarks
  <2> HIDE DEF c, h
  <2> QED BY <1>0, <1>1, <2>6, ApplyRegistry, ReplayRegistry DEF c, h
<1>2. CASE rec.type = "retired"
  <2>1. Registry(ReplayApply(st, rec)) =
          [generations |-> st.generations,
           retired |-> [st.retired EXCEPT ![rec.workload] = TRUE],
           policy |-> st.policy]
    BY <1>2, ReplayRegistry
  <2>2. Registry(Apply(old, rec)) =
          [generations |-> old.generations,
           retired |-> [old.retired EXCEPT ![rec.workload] = TRUE],
           policy |-> old.policy]
    BY <1>2, ApplyRegistry
  <2> QED BY <1>0, <2>1, <2>2
<1>3. CASE rec.type = "evidence"
  <2>1. Registry(ReplayApply(st, rec)) = Registry(st)
    BY <1>3, ReplayRegistry
  <2>2. Registry(Apply(old, rec)) = Registry(old)
    BY <1>3, ApplyRegistry
  <2> QED BY <2>1, <2>2
<1>4. CASE rec.type = "policy"
  BY <1>0, <1>4, ApplyRegistry, ReplayRegistry
<1> QED BY <1>1, <1>2, <1>3, <1>4, RecordKinds

\* The registry part of a live effect depends on the registry only.
LEMMA SameEffect ==
  ASSUME NEW st \in State, NEW old \in State, NEW rec \in Record,
         Registry(st) = Registry(old)
  PROVE  Registry(Apply(st, rec)) = Registry(Apply(old, rec))
<1>0. /\ st.generations = old.generations
      /\ st.retired = old.retired
      /\ st.policy = old.policy
  BY DEF Registry
<1>1. CASE rec.type = "contract"
  BY <1>0, <1>1, ApplyRegistry
<1>2. CASE rec.type = "retired"
  <2>1. Registry(Apply(st, rec)) =
          [generations |-> st.generations,
           retired |-> [st.retired EXCEPT ![rec.workload] = TRUE],
           policy |-> st.policy]
    BY <1>2, ApplyRegistry
  <2>2. Registry(Apply(old, rec)) =
          [generations |-> old.generations,
           retired |-> [old.retired EXCEPT ![rec.workload] = TRUE],
           policy |-> old.policy]
    BY <1>2, ApplyRegistry
  <2> QED BY <1>0, <2>1, <2>2
<1>3. CASE rec.type = "evidence"
  <2>1. /\ Registry(Apply(st, rec)) = Registry(st)
        /\ Registry(Apply(old, rec)) = Registry(old)
    BY <1>3, ApplyRegistry
  <2> QED BY <2>1
<1>4. CASE rec.type = "policy"
  BY <1>0, <1>4, ApplyRegistry
<1> QED BY <1>1, <1>2, <1>3, <1>4, RecordKinds

\* Operations keep the numbering: the record they write is accepted by the
\* generation tests of register_workload and publish.
LEMMA AcceptedNumbered ==
  ASSUME NEW st \in State, Numbered(st), NEW rec \in Record,
         rec.type = "contract" =>
           rec.contract.gen = Len(st.generations[rec.contract.workload]) + 1
  PROVE  Numbered(Apply(st, rec))
<1>1. CASE rec.type = "contract"
  <2> DEFINE c == rec.contract
             h == st.generations[c.workload]
             new == Apply(st, rec).generations
  <2>1. c \in Contract /\ c.workload \in Workload
    BY <1>1, RecordKinds DEF Contract
  <2>2. h \in History /\ Len(h) \in Nat
    BY <2>1, HistoryTyped
  <2>3. new = [st.generations EXCEPT ![c.workload] = Superseding(h, c)]
    BY <1>1, ApplyRegistry DEF Registry
  <2>4. DOMAIN st.generations = Workload
    BY DEF State
  <2>5. c.gen = Len(h) + 1 /\ \A i \in 1..Len(h) : h[i].contract.gen = i
    BY <1>1, <2>1 DEF Numbered
  <2>6. \A w \in Workload : \A k \in 1..Len(st.generations[w]) :
          st.generations[w][k].contract.gen = k
    BY DEF Numbered
  <2> HIDE DEF c, h, new
  <2>7. /\ Len(Superseding(h, c)) = Len(h) + 1
        /\ Superseding(h, c)[Len(h) + 1].contract = c
        /\ \A i \in 1..Len(h) : Superseding(h, c)[i].contract = h[i].contract
    BY <2>1, <2>2, SupersedingShape
  <2>8. ASSUME NEW w \in Workload, NEW k \in 1..Len(new[w])
        PROVE  new[w][k].contract.gen = k
    <3>1. CASE w # c.workload
      BY <2>3, <2>4, <2>6, <3>1
    <3>2. CASE w = c.workload
      <4>1. new[w] = Superseding(h, c)
        BY <2>1, <2>3, <2>4, <3>2
      <4>2. k = Len(h) + 1 \/ k \in 1..Len(h)
        BY <2>2, <2>7, <4>1
      <4> QED BY <2>5, <2>7, <4>1, <4>2
    <3> QED BY <3>1, <3>2
  <2> QED BY <2>8 DEF Numbered, new
<1>2. CASE rec.type # "contract"
  <2>1. Apply(st, rec).generations = st.generations
    BY <1>2, ApplyRegistry, RecordKinds DEF Registry
  <2> QED BY <2>1 DEF Numbered
<1> QED BY <1>1, <1>2


\* With the numbering intact, the guards accept the next generation only.
LEMMA GuardedNumber ==
  ASSUME state \in State, Numbered(state), NEW rec \in Record,
         NEW answered, Guarded(rec, answered), rec.type = "contract"
  PROVE  rec.contract.gen = Len(state.generations[rec.contract.workload]) + 1
<1> DEFINE c == rec.contract
           h == state.generations[c.workload]
<1>1. c \in Contract /\ c.workload \in Workload
  BY RecordKinds DEF Contract
<1>2. h \in History /\ Len(h) \in Nat
  BY <1>1, HistoryTyped
<1>3. CASE Registers(c)
  <2>1. h = <<>> /\ c.gen = 1
    BY <1>3 DEF Registers, Known
  <2> QED BY <2>1
<1>4. CASE Supersedes(c)
  <2>1. h # <<>> /\ c.gen = h[Len(h)].contract.gen + 1
    BY <1>4 DEF Supersedes, Known, Current
  <2>2. Len(h) \in 1..Len(h)
    BY <1>2, <2>1 DEF History
  <2>3. h[Len(h)].contract.gen = Len(h)
    BY <1>1, <2>2 DEF Numbered
  <2> QED BY <2>1, <2>3
<1> QED BY <1>3, <1>4 DEF Guarded

\* The empty state is numbered: no workload has a generation.
LEMMA EmptyNumbered == Numbered(EmptyState)
<1>1. \A w \in Workload : EmptyState.generations[w] = <<>>
  BY DEF EmptyState
<1> QED BY <1>1 DEF Numbered

\* Steps that leave journal and past alone keep the history part.
LEMMA HistoryUnchanged ==
  ASSUME Logged, \A i \in 0..Len(journal) : Numbered(past[i]),
         UNCHANGED <<journal, past>>
  PROVE  /\ Logged'
         /\ (\A i \in 0..Len(journal) : Numbered(past[i]))'
<1>1. journal' = journal /\ past' = past
  OBVIOUS
<1>2. Logged'
  BY <1>1 DEF Logged
<1>3. (\A i \in 0..Len(journal) : Numbered(past[i]))'
  BY <1>1 DEF Numbered
<1> QED BY <1>2, <1>3

\* An operation extends the history by the effect of its record.
LEMMA HistoryExtended ==
  ASSUME ReplayInv, NEW rec \in Record, NEW answered,
         phase = "ready", Guarded(rec, answered), Commit(rec)
  PROVE  /\ Logged'
         /\ (\A i \in 0..Len(journal) : Numbered(past[i]))'
         /\ Registry(state) = Registry(past[Len(journal)])
<1> DEFINE n == Len(journal)
<1>1. TypeOK /\ n \in Nat /\ \A i \in 0..n : past[i] \in State
  BY DEF ReplayInv, TypeOK
<1>2. Registry(state) = Registry(past[n])
  BY DEF ReplayInv, Rebuilt
<1>3. /\ Len(journal') = n + 1
      /\ journal'[n + 1].rec = rec
      /\ \A i \in 1..n : journal'[i] = journal[i]
      /\ \A i \in 0..n : past'[i] = past[i]
      /\ past'[n + 1] = Apply(past[n], rec)
  BY <1>1, CommitTyped
<1>4. Logged'
  <2>1. past'[0] = EmptyState
    BY <1>1, <1>3 DEF ReplayInv, Logged
  <2>2. ASSUME NEW i \in 1..(n + 1)
        PROVE  past'[i] = Apply(past'[i - 1], journal'[i].rec)
    <3>1. CASE i = n + 1
      BY <1>1, <1>3, <3>1
    <3>2. CASE i \in 1..n
      <4>1. past[i] = Apply(past[i - 1], journal[i].rec)
        BY <3>2 DEF ReplayInv, Logged
      <4> QED BY <1>1, <1>3, <3>2, <4>1
    <3> QED BY <1>1, <3>1, <3>2
  <2> QED BY <1>3, <2>1, <2>2 DEF Logged
<1>5. state.generations = past[n].generations
  BY <1>2 DEF Registry
<1>6. Numbered(past[n]) /\ Numbered(state) /\ state \in State
  BY <1>1, <1>5 DEF ReplayInv, Numbered, TypeOK
<1>7. Numbered(Apply(past[n], rec))
  <2>1. rec.type = "contract" =>
          rec.contract.gen = Len(past[n].generations[rec.contract.workload]) + 1
    BY <1>5, <1>6, GuardedNumber
  <2> QED BY <1>1, <1>6, <2>1, AcceptedNumbered
<1>8. ASSUME NEW i \in 0..(n + 1)
      PROVE  Numbered(past'[i])
  <2>1. CASE i = n + 1
    BY <1>3, <1>7, <2>1
  <2>2. CASE i \in 0..n
    BY <1>3, <2>2 DEF ReplayInv
  <2> QED BY <1>1, <2>1, <2>2
<1>9. (\A i \in 0..Len(journal) : Numbered(past[i]))'
  BY <1>3, <1>8 DEF Numbered
<1> QED BY <1>2, <1>4, <1>9

\* Each step of the coordinator keeps the invariant of the replay.
LEMMA ReplayInvPreserved ==
  ASSUME ReplayInv, [Next]_vars
  PROVE  ReplayInv'
<1> DEFINE n == Len(journal)
           Numbers == \A i \in 0..Len(journal) : Numbered(past[i])
<1>0. TypeOK /\ Logged /\ Numbers /\ Rebuilt /\ n \in Nat
  BY DEF ReplayInv, TypeOK
<1>t. TypeOK'
  BY <1>0, TypePreserved
<1>1. CASE OpenRefused
  <2>1. UNCHANGED <<journal, past>>
    BY <1>1 DEF OpenRefused, durable, observed
  <2>2. Rebuilt'
    BY <1>0, <1>1 DEF OpenRefused, durable, observed, Rebuilt
  <2> QED BY <1>0, <1>t, <2>1, <2>2, HistoryUnchanged DEF ReplayInv
<1>2. CASE Open
  <2>1. UNCHANGED <<journal, past>>
    BY <1>2 DEF Open
  <2>2. Registry(EmptyState) = Registry(past[0])
    BY <1>0 DEF Logged
  <2>3. Rebuilt'
    BY <1>0, <1>2, <2>1, <2>2 DEF Open, Rebuilt, Registry
  <2> QED BY <1>0, <1>t, <2>1, <2>3, HistoryUnchanged DEF ReplayInv
<1>3. CASE ReplayRecord
  <2> DEFINE rec == journal[applied + 1].rec
  <2>1. UNCHANGED <<journal, past, phase>>
    BY <1>3 DEF ReplayRecord, durable, observed
  <2>2. applied + 1 \in 1..n /\ applied \in 0..n /\ phase = "replay"
    BY <1>0, <1>3 DEF ReplayRecord, TypeOK
  <2>3. rec \in Record /\ state \in State /\ past[applied] \in State
    BY <1>0, <2>2, SMTT(30) DEF TypeOK
  <2>4. past[applied + 1] = Apply(past[applied], rec)
    <3>1. past[applied + 1] = Apply(past[(applied + 1) - 1], rec)
      BY <1>0, <2>2 DEF Logged
    <3> QED BY <2>2, <3>1
  <2>5. Numbered(past[applied]) /\ Numbered(past[applied + 1])
    BY <1>0, <2>2
  <2>6. Registry(state) = Registry(past[applied])
    BY <1>0, <2>2 DEF Rebuilt
  <2>7. Registry(ReplayApply(state, rec)) = Registry(past[applied + 1])
    BY <2>3, <2>4, <2>5, <2>6, ReplayAgrees
  <2>8. Registry(state') = Registry(past[applied + 1]) /\ applied' = applied + 1
    BY <1>3, <2>7 DEF ReplayRecord
  <2>9. Rebuilt'
    BY <1>0, <2>1, <2>2, <2>8 DEF Rebuilt, Registry
  <2> QED BY <1>0, <1>t, <2>1, <2>9, HistoryUnchanged DEF ReplayInv
<1>4. CASE ReplayFails \/ Crash
  <2>1. UNCHANGED <<journal, past>>
    BY <1>4 DEF ReplayFails, Crash, durable, observed
  <2>2. Rebuilt'
    BY <1>0, <1>4, <2>1 DEF ReplayFails, Crash, Rebuilt
  <2> QED BY <1>0, <1>t, <2>1, <2>2, HistoryUnchanged DEF ReplayInv
<1>5. CASE OpenDone
  <2>1. UNCHANGED <<journal, past>>
    BY <1>5 DEF OpenDone, durable, observed
  <2>2. Rebuilt'
    BY <1>0, <1>5, <2>1 DEF OpenDone, Rebuilt, Registry
  <2> QED BY <1>0, <1>t, <2>1, <2>2, HistoryUnchanged DEF ReplayInv
<1>6. CASE Performs
  <2>1. PICK rec \in Record, answered \in SUBSET Contract :
           phase = "ready" /\ Guarded(rec, answered) /\ Perform(rec, answered)
    BY <1>6 DEF Performs
  <2>2. Commit(rec)
    BY <2>1 DEF Perform
  <2>3. Logged' /\ Numbers' /\ Registry(state) = Registry(past[n])
    BY <2>1, <2>2, HistoryExtended
  <2>4. Len(journal') = n + 1 /\ past'[n + 1] = Apply(past[n], rec)
    BY <1>0, <2>2, CommitTyped
  <2>5. applied = n
    BY <1>0, <2>1 DEF Rebuilt
  <2>6. Rebuilt'
    <3>1. CASE phase' = "down" /\ applied' = 0
      BY <1>0, <2>4, <3>1 DEF Rebuilt
    <3>2. CASE state' = Apply(state, rec) /\ applied' = applied + 1 /\ phase' = phase
      <4>1. state \in State /\ past[n] \in State
        BY <1>0 DEF TypeOK
      <4>2. Registry(Apply(state, rec)) = Registry(Apply(past[n], rec))
        BY <2>1, <2>3, <4>1, SameEffect
      <4> QED BY <1>0, <2>1, <2>4, <2>5, <3>2, <4>2 DEF Rebuilt, Registry
    <3> QED BY <2>1, <3>1, <3>2 DEF Perform
  <2> QED BY <1>t, <2>3, <2>6 DEF ReplayInv
<1>7. CASE UNCHANGED vars
  <2>1. UNCHANGED <<journal, past>>
    BY <1>7 DEF vars, durable, observed
  <2>2. Rebuilt'
    BY <1>0, <1>7 DEF Rebuilt, Registry, vars, durable, memory, observed
  <2> QED BY <1>0, <1>t, <2>1, <2>2, HistoryUnchanged DEF ReplayInv
<1> QED BY <1>0, <1>1, <1>2, <1>3, <1>4, <1>5, <1>6, <1>7, Steps

\* Whatever the replay loop has rebuilt after i records is the registry the
\* operations had left after i records, and that registry is numbered.
THEOREM ReplayInvariant == Spec => []ReplayInv
<1>1. Init => ReplayInv
  <2> SUFFICES ASSUME Init PROVE ReplayInv
    OBVIOUS
  <2>1. TypeOK
    BY EmptyTyped DEF Init, TypeOK
  <2>2. Logged /\ Rebuilt
    BY DEF Init, Logged, Rebuilt
  <2>3. \A i \in 0..Len(journal) : Numbered(past[i])
    <3>1. Len(journal) = 0 /\ past[0] = EmptyState
      BY DEF Init
    <3> QED BY <3>1, EmptyNumbered
  <2> QED BY <2>1, <2>2, <2>3 DEF ReplayInv
<1>2. ReplayInv /\ [Next]_vars => ReplayInv'
  BY ReplayInvPreserved
<1> QED BY <1>1, <1>2, PTL DEF Spec

\* After every restart the contracts, their superseded marks, the retirements
\* and the policy are those the operations had left, for every history.
THEOREM RecoveryExact == Spec => []RegistryRecovered
<1>1. ReplayInv => RegistryRecovered
  BY DEF ReplayInv, Rebuilt, RegistryRecovered
<1> QED BY <1>1, ReplayInvariant, PTL

-----------------------------------------------------------------------------
(* What the durable history guarantees *)

\* Every acknowledged contract is among the generations of its workload.
Answered ==
  \A c \in acked : \E i \in 1..Len(past[Len(journal)].generations[c.workload]) :
    past[Len(journal)].generations[c.workload][i].contract = c

\* Every contract record of the journal is among them.
Indexed ==
  \A w \in Workload : \A j \in Contracts(w) :
    \E i \in 1..Len(past[Len(journal)].generations[w]) :
      past[Len(journal)].generations[w][i].contract = journal[j].rec.contract

\* No contract record has a generation beyond the ones its workload holds.
Counted ==
  \A w \in Workload : \A i \in Contracts(w) :
    journal[i].rec.contract.gen <= Len(past[Len(journal)].generations[w])

\* The policy in force is the latest of all the installed ones.
PolicyReached ==
  \A i \in Policies :
    LET p == journal[i].rec.policy
        q == past[Len(journal)].policy
    IN  q # NoPolicy /\ (p.gen < q.gen \/ p = q)

HistoryInv ==
  /\ Answered /\ Indexed
  /\ Counted /\ GenerationsAcceptedOnce
  /\ PermittedWhenAccepted
  /\ PolicyReached /\ PolicyHistoryOrdered

\* Only operations change what HistoryInv speaks of.
LEMMA OnlyOperationsWrite ==
  ASSUME TypeOK, [Next]_vars
  PROVE  Performs \/ UNCHANGED <<journal, past, acked>>
BY Steps DEF OpenRefused, Open, ReplayRecord, ReplayFails, OpenDone, Crash,
             vars, durable, observed

\* g is what record rec makes of the generations h of workload w.
Extends(h, g, rec, w) ==
  /\ Len(g) = IF rec.type = "contract" /\ rec.contract.workload = w
                THEN Len(h) + 1 ELSE Len(h)
  /\ \A i \in 1..Len(h) : g[i].contract = h[i].contract
  /\ rec.type = "contract" /\ rec.contract.workload = w =>
       g[Len(h) + 1].contract = rec.contract

\* A record adds its contract to its own workload and to no other.
LEMMA GenerationsAfter ==
  ASSUME NEW st \in State, NEW rec \in Record, NEW w \in Workload
  PROVE  Extends(st.generations[w], Apply(st, rec).generations[w], rec, w)
<1> DEFINE h == st.generations[w]
           g == Apply(st, rec).generations[w]
           grows == rec.type = "contract" /\ rec.contract.workload = w
<1>0. DOMAIN st.generations = Workload
  BY DEF State
<1>1. CASE grows
  <2>1. rec.contract \in Contract
    BY <1>1, RecordKinds
  <2>2. Apply(st, rec).generations = [st.generations EXCEPT ![w] = Superseding(h, rec.contract)]
    BY <1>1, ApplyRegistry DEF Registry
  <2>3. g = Superseding(h, rec.contract)
    BY <1>0, <2>2
  <2>4. h \in History
    BY HistoryTyped
  <2> HIDE DEF g, h
  <2> QED BY <1>1, <2>1, <2>3, <2>4, SupersedingShape DEF g, h, Extends
<1>2. CASE ~grows
  <2>1. g = h
    <3>1. CASE rec.type = "contract"
      <4>1. Apply(st, rec).generations =
              [st.generations EXCEPT ![rec.contract.workload] =
                 Superseding(st.generations[rec.contract.workload], rec.contract)]
        BY <3>1, ApplyRegistry DEF Registry
      <4> QED BY <1>0, <1>2, <3>1, <4>1
    <3>2. CASE rec.type # "contract"
      BY <3>2, ApplyRegistry, RecordKinds DEF Registry
    <3> QED BY <3>1, <3>2
  <2> QED BY <1>2, <2>1 DEF Extends
<1> QED BY <1>1, <1>2

\* What the journal holds at each position is a record.
LEMMA RecordsTyped ==
  ASSUME TypeOK, NEW i \in 1..Len(journal)
  PROVE  journal[i].rec \in Record
<1> DEFINE Entry == [rec: Record, link: Nat]
<1>1. journal \in Seq(Entry)
  BY DEF TypeOK
<1> HIDE DEF Entry
<1>2. journal[i] \in Entry
  BY <1>1
<1> QED BY <1>2 DEF Entry

\* Only a policy record changes the policy in force.
LEMMA PolicyAfter ==
  ASSUME NEW st \in State, NEW rec \in Record
  PROVE  Apply(st, rec).policy =
           IF rec.type = "policy" THEN rec.policy ELSE st.policy
BY ApplyRegistry, RecordKinds DEF Registry

\* Each step keeps what is said of the journal as a whole: operations append
\* to it, every other step leaves it alone.
LEMMA HistoryInvPreserved ==
  ASSUME ReplayInv, HistoryInv, [Next]_vars
  PROVE  HistoryInv'
<1>0. TypeOK
  BY DEF ReplayInv
<1>1. CASE UNCHANGED <<journal, past, acked>>
  <2>1. Answered' /\ Indexed' /\ Counted' /\ PolicyReached'
    BY <1>1 DEF HistoryInv, Answered, Indexed, Counted, PolicyReached,
                Contracts, Policies
  <2>2. GenerationsAcceptedOnce' /\ PermittedWhenAccepted' /\ PolicyHistoryOrdered'
    BY <1>1 DEF HistoryInv, GenerationsAcceptedOnce, PermittedWhenAccepted,
                PolicyHistoryOrdered, Contracts, Policies
  <2> QED BY <2>1, <2>2 DEF HistoryInv
<1>2. CASE Performs
  <2> DEFINE n == Len(journal)
             h(w) == past[n].generations[w]
             g(w) == past'[n + 1].generations[w]
  <2>1. PICK rec \in Record, answered \in SUBSET Contract :
           phase = "ready" /\ Guarded(rec, answered) /\ Perform(rec, answered)
    BY <1>2 DEF Performs
  <2>2. Commit(rec) /\ acked' \subseteq acked \cup answered
    BY <2>1 DEF Perform
  <2>3. /\ Len(journal') = n + 1
        /\ journal'[n + 1].rec = rec
        /\ \A i \in 1..n : journal'[i] = journal[i]
        /\ \A i \in 0..n : past'[i] = past[i]
        /\ past'[n + 1] = Apply(past[n], rec)
    BY <1>0, <2>2, CommitTyped
  <2>4. n \in Nat /\ past[n] \in State /\ state \in State
    BY <1>0 DEF TypeOK
  <2>5. /\ state.generations = past[n].generations
        /\ state.policy = past[n].policy
    BY <2>1, <2>2, HistoryExtended DEF Registry
  <2>6. rec.type = "contract" => rec.contract.gen = Len(h(rec.contract.workload)) + 1
    <3>1. Numbered(state)
      BY <2>4, <2>5 DEF ReplayInv, Numbered
    <3> QED BY <2>1, <2>4, <2>5, <3>1, GuardedNumber
  <2>7. ASSUME NEW w \in Workload
        PROVE  /\ Len(h(w)) \in Nat
               /\ Len(g(w)) = IF rec.type = "contract" /\ rec.contract.workload = w
                                THEN Len(h(w)) + 1 ELSE Len(h(w))
               /\ \A i \in 1..Len(h(w)) : g(w)[i].contract = h(w)[i].contract
               /\ rec.type = "contract" /\ rec.contract.workload = w =>
                    g(w)[Len(h(w)) + 1].contract = rec.contract
    <3>1. Len(h(w)) \in Nat
      BY <2>4, HistoryTyped
    <3>2. Extends(h(w), g(w), rec, w)
      BY <2>3, <2>4, GenerationsAfter
    <3> HIDE DEF g, h
    <3> QED BY <3>1, <3>2 DEF Extends
  <2>8. Answered'
    <3>1. ASSUME NEW c \in acked'
          PROVE  \E i \in 1..Len(g(c.workload)) : g(c.workload)[i].contract = c
      <4>1. c \in Contract /\ c.workload \in Workload
        BY <1>0, <2>2, <3>1 DEF TypeOK, Contract
      <4>2. CASE c \in acked
        <5>1. PICK i \in 1..Len(h(c.workload)) : h(c.workload)[i].contract = c
          BY <4>2 DEF HistoryInv, Answered
        <5> HIDE DEF g, h
        <5>2. i \in 1..Len(g(c.workload))
          BY <2>7, <4>1, <5>1
        <5> QED BY <2>7, <4>1, <5>1, <5>2
      <4>3. CASE c \in answered
        <5>1. rec.type = "contract" /\ rec.contract = c
          BY <2>1, <4>3, RecordKinds DEF Guarded
        <5> HIDE DEF g, h
        <5>2. Len(h(c.workload)) + 1 \in 1..Len(g(c.workload))
          BY <2>7, <4>1, <5>1
        <5> QED BY <2>7, <4>1, <5>1, <5>2
      <4> QED BY <2>2, <4>2, <4>3
    <3> QED BY <2>3, <3>1 DEF Answered
  <2>9. \A w \in Workload : \A i \in Contracts(w)' :
           \/ i \in Contracts(w) /\ i \in 1..n /\ journal'[i].rec = journal[i].rec
           \/ i = n + 1 /\ journal'[i].rec = rec
                /\ rec.type = "contract" /\ rec.contract.workload = w
    BY <2>3, <2>4 DEF Contracts
  <2>10. \A w \in Workload : \A i \in Contracts(w) :
            i \in 1..n /\ journal[i].rec.contract.gen <= Len(h(w))
                       /\ journal[i].rec.contract.gen \in Nat
    <3>1. ASSUME NEW w \in Workload, NEW i \in Contracts(w)
          PROVE  journal[i].rec.contract.gen \in Nat
      <4>1. i \in 1..n /\ journal[i].rec.type = "contract"
        BY DEF Contracts
      <4>2. journal[i].rec \in Record
        BY <1>0, <4>1, RecordsTyped
      <4>3. journal[i].rec.contract \in Contract
        BY <4>1, <4>2, RecordKinds
      <4> QED BY <4>3, RuntimeAssumption DEF Contract
    <3> QED BY <3>1 DEF HistoryInv, Counted, Contracts
  <2>i. Indexed'
    <3>1. ASSUME NEW w \in Workload, NEW j \in Contracts(w)'
          PROVE  \E i \in 1..Len(g(w)) : g(w)[i].contract = journal'[j].rec.contract
      <4>1. CASE j \in Contracts(w) /\ journal'[j].rec = journal[j].rec
        <5>1. PICK i \in 1..Len(h(w)) : h(w)[i].contract = journal[j].rec.contract
          BY <4>1 DEF HistoryInv, Indexed
        <5> HIDE DEF g, h
        <5>2. i \in 1..Len(g(w))
          BY <2>7, <5>1
        <5> QED BY <2>7, <4>1, <5>1, <5>2
      <4>2. CASE journal'[j].rec = rec /\ rec.type = "contract"
                   /\ rec.contract.workload = w
        <5> HIDE DEF g, h
        <5>1. Len(h(w)) + 1 \in 1..Len(g(w))
          BY <2>7, <4>2
        <5> QED BY <2>7, <4>2, <5>1
      <4> QED BY <2>9, <4>1, <4>2
    <3> QED BY <2>3, <3>1 DEF Indexed
  <2>11. Counted'
    <3>1. ASSUME NEW w \in Workload, NEW i \in Contracts(w)'
          PROVE  journal'[i].rec.contract.gen <= Len(g(w))
      <4> HIDE DEF g, h
      <4> QED BY <2>6, <2>7, <2>9, <2>10
    <3> QED BY <2>3, <3>1 DEF Counted
  <2>12. GenerationsAcceptedOnce'
    <3>1. ASSUME NEW w \in Workload, NEW i \in Contracts(w)', NEW j \in Contracts(w)',
                 i < j
          PROVE  journal'[i].rec.contract.gen < journal'[j].rec.contract.gen
      <4>1. CASE j \in Contracts(w) /\ journal'[j].rec = journal[j].rec
        <5>1. i \in Contracts(w) /\ journal'[i].rec = journal[i].rec
          BY <2>4, <2>9, <2>10, <3>1, <4>1
        <5> QED BY <3>1, <4>1, <5>1 DEF HistoryInv, GenerationsAcceptedOnce
      <4>2. CASE j = n + 1 /\ journal'[j].rec = rec
                   /\ rec.type = "contract" /\ rec.contract.workload = w
        <5>0. i # n + 1
          BY <2>4, <3>1, <4>2
        <5>1. i \in Contracts(w) /\ journal'[i].rec = journal[i].rec
          BY <2>9, <3>1, <5>0, Zenon
        <5>2. journal[i].rec.contract.gen <= Len(h(w))
          BY <2>10, <5>1
        <5> HIDE DEF h
        <5> QED BY <2>6, <2>7, <2>10, <4>2, <5>1, <5>2
      <4> QED BY <2>9, <4>1, <4>2
    <3> QED BY <3>1 DEF GenerationsAcceptedOnce
  <2>13. PermittedWhenAccepted'
    <3>1. ASSUME NEW w \in Workload, NEW i \in Contracts(w)',
                 past'[i - 1].policy # NoPolicy
          PROVE  LET c == journal'[i].rec.contract
                     policy == past'[i - 1].policy
                 IN  c.policyGen = policy.gen /\ <<policy.rules, c.body>> \in Permits
      <4>1. CASE i \in Contracts(w) /\ journal'[i].rec = journal[i].rec
        <5>1. past'[i - 1] = past[i - 1]
          BY <2>3, <2>4, <2>10, <4>1
        <5> QED BY <3>1, <4>1, <5>1 DEF HistoryInv, PermittedWhenAccepted
      <4>2. CASE i = n + 1 /\ journal'[i].rec = rec /\ rec.type = "contract"
        <5>1. past'[i - 1] = past[n]
          BY <2>3, <2>4, <4>2
        <5>2. PolicyAllows(rec.contract)
          BY <2>1, <4>2 DEF Guarded
        <5> QED BY <2>5, <3>1, <4>2, <5>1, <5>2 DEF PolicyAllows
      <4> QED BY <2>9, <4>1, <4>2
    <3> QED BY <3>1 DEF PermittedWhenAccepted
  <2> DEFINE q == past[n].policy
             q1 == past'[n + 1].policy
  <2>14. q1 = IF rec.type = "policy" THEN rec.policy ELSE q
    BY <2>3, <2>4, PolicyAfter
  <2>15. rec.type = "policy" =>
           /\ rec.policy \in Policy
           /\ q # NoPolicy => rec.policy.gen >= q.gen
                                /\ (rec.policy.gen = q.gen => rec.policy = q)
    BY <2>1, <2>5, RecordKinds DEF Guarded, MayInstall
  <2>16. \A i \in Policies' :
            \/ i \in Policies /\ i \in 1..n /\ journal'[i].rec = journal[i].rec
            \/ i = n + 1 /\ journal'[i].rec = rec /\ rec.type = "policy"
    BY <2>3, <2>4 DEF Policies
  <2>17. ASSUME NEW i \in Policies
         PROVE  /\ journal[i].rec.policy \in Policy
                /\ q # NoPolicy /\ q \in Policy
                /\ journal[i].rec.policy.gen < q.gen \/ journal[i].rec.policy = q
    <3>1. i \in 1..n /\ journal[i].rec.type = "policy"
      BY DEF Policies
    <3>2. journal[i].rec \in Record
      BY <1>0, <3>1, RecordsTyped
    <3>3. q # NoPolicy => q \in Policy
      BY <2>4 DEF State
    <3> QED BY <3>1, <3>2, <3>3, RecordKinds DEF HistoryInv, PolicyReached
  <2>18. ASSUME NEW i \in Policies
         PROVE  /\ q1 # NoPolicy
                /\ journal[i].rec.policy.gen < q1.gen \/ journal[i].rec.policy = q1
    <3>1. CASE rec.type = "policy"
      <4>1. /\ journal[i].rec.policy.gen \in Nat /\ q.gen \in Nat
            /\ rec.policy.gen \in Nat
        BY <2>15, <2>17, <3>1, RuntimeAssumption DEF Policy
      <4>2. q1 = rec.policy /\ q1 # NoPolicy
        BY <2>14, <2>15, <3>1, NoPolicyAssumption
      <4> HIDE DEF q, q1
      <4> QED BY <2>15, <2>17, <3>1, <4>1, <4>2
    <3>2. CASE rec.type # "policy"
      BY <2>14, <2>17, <3>2
    <3> QED BY <3>1, <3>2
  <2> HIDE DEF q
  <2>19. PolicyReached'
    <3>1. ASSUME NEW i \in Policies'
          PROVE  /\ q1 # NoPolicy
                 /\ journal'[i].rec.policy.gen < q1.gen \/ journal'[i].rec.policy = q1
      <4>1. CASE i \in Policies /\ journal'[i].rec = journal[i].rec
        BY <2>18, <4>1
      <4>2. CASE journal'[i].rec = rec /\ rec.type = "policy"
        BY <2>14, <2>15, <4>2, NoPolicyAssumption
      <4> QED BY <2>16, <4>1, <4>2
    <3> QED BY <2>3, <3>1 DEF PolicyReached
  <2>20. PolicyHistoryOrdered'
    <3>1. ASSUME NEW i \in Policies', NEW j \in Policies', i < j
          PROVE  \/ journal'[i].rec.policy.gen < journal'[j].rec.policy.gen
                 \/ journal'[i].rec.policy = journal'[j].rec.policy
      <4>1. i \in Policies /\ journal'[i].rec = journal[i].rec
        BY <2>4, <2>16, <3>1
      <4>2. CASE j \in Policies /\ journal'[j].rec = journal[j].rec
        BY <3>1, <4>1, <4>2 DEF HistoryInv, PolicyHistoryOrdered
      <4>3. CASE journal'[j].rec = rec /\ rec.type = "policy"
        BY <2>14, <2>18, <4>1, <4>3
      <4> QED BY <2>16, <4>2, <4>3
    <3> QED BY <3>1 DEF PolicyHistoryOrdered
  <2> QED BY <2>8, <2>i, <2>11, <2>12, <2>13, <2>19, <2>20 DEF HistoryInv
<1> QED BY <1>0, <1>1, <1>2, OnlyOperationsWrite

\* The journal, the answers given and the states it stands for agree, over
\* every sequence of submissions, crashes and restarts.
THEOREM HistoryInvariant == Spec => []HistoryInv
<1>1. Init => HistoryInv
  BY DEF Init, HistoryInv, Answered, Indexed, Counted, GenerationsAcceptedOnce,
         PermittedWhenAccepted, PolicyReached, PolicyHistoryOrdered,
         Contracts, Policies
<1>2. ReplayInv /\ HistoryInv /\ [Next]_vars => HistoryInv'
  BY HistoryInvPreserved
<1> QED BY <1>1, <1>2, ReplayInvariant, PTL DEF Spec

\* A contract answered with success is served by every later incarnation.
THEOREM AckedServed == Spec => []AckedContractsServed
<1>1. ReplayInv /\ HistoryInv => AckedContractsServed
  <2> SUFFICES ASSUME ReplayInv, HistoryInv, phase = "ready", NEW c \in acked
               PROVE  ContractAt(c.workload, c.gen) = {c}
    BY DEF AckedContractsServed
  <2> DEFINE h == state.generations[c.workload]
             n == Len(journal)
  <2>1. /\ state.generations = past[n].generations
        /\ c.workload \in Workload /\ n \in 0..n /\ state \in State
    BY DEF ReplayInv, Rebuilt, Registry, TypeOK, Contract
  <2>2. h \in History /\ Len(h) \in Nat
    BY <2>1, HistoryTyped
  <2>3. \A k \in 1..Len(h) : h[k].contract.gen = k
    BY <2>1 DEF ReplayInv, Numbered
  <2>4. PICK i \in 1..Len(h) : h[i].contract = c
    BY <2>1 DEF HistoryInv, Answered
  <2>5. ContractAt(c.workload, c.gen) =
          {h[k].contract : k \in {k \in 1..Len(h) :
             h[k].contract.gen = c.gen /\ \A j \in 1..(k - 1) : h[j].contract.gen # c.gen}}
    BY DEF ContractAt
  <2> HIDE DEF h
  <2>6. c.gen = i
    BY <2>3, <2>4
  <2>7. \A j \in 1..(i - 1) : h[j].contract.gen # c.gen
    BY <2>2, <2>3, <2>4, <2>6
  <2>8. \A k \in 1..Len(h) : h[k].contract.gen = c.gen => k = i
    BY <2>3, <2>6, SMTT(30)
  <2> QED BY <2>4, <2>5, <2>6, <2>7, <2>8
<1> QED BY <1>1, ReplayInvariant, HistoryInvariant, PTL

\* The index of a serving coordinator holds every contract of the journal.
THEOREM IndexVerified == Spec => []HistoryVerifies
<1>1. ReplayInv /\ HistoryInv => HistoryVerifies
  <2> SUFFICES ASSUME ReplayInv, HistoryInv, phase = "ready",
                      NEW i \in 1..Len(journal), journal[i].rec.type = "contract"
               PROVE  LET c == journal[i].rec.contract
                          h == state.generations[c.workload]
                      IN  \E k \in 1..Len(h) :
                            h[k].contract.gen = c.gen /\ Digest(h[k].contract) = Digest(c)
    BY DEF HistoryVerifies, IndexComplete
  <2> DEFINE c == journal[i].rec.contract
  <2>1. c.workload \in Workload
    BY RecordsTyped, RecordKinds DEF ReplayInv, Contract
  <2>2. i \in Contracts(c.workload)
    BY DEF Contracts
  <2>3. state.generations = past[Len(journal)].generations
    BY DEF ReplayInv, Rebuilt, Registry
  <2>4. \E k \in 1..Len(state.generations[c.workload]) :
          state.generations[c.workload][k].contract = c
    BY <2>1, <2>2, <2>3 DEF HistoryInv, Indexed
  <2> HIDE DEF c
  <2> QED BY <2>4, ZenonT(30) DEF c
<1> QED BY <1>1, ReplayInvariant, HistoryInvariant, PTL

\* No generation of a workload is accepted twice, across all restarts.
THEOREM AcceptedOnce == Spec => []GenerationsAcceptedOnce
<1>1. HistoryInv => GenerationsAcceptedOnce
  BY DEF HistoryInv
<1> QED BY <1>1, HistoryInvariant, PTL

\* Every contract in the journal passed the policy in force at its acceptance.
THEOREM AcceptedPermitted == Spec => []PermittedWhenAccepted
<1>1. HistoryInv => PermittedWhenAccepted
  BY DEF HistoryInv
<1> QED BY <1>1, HistoryInvariant, PTL

\* The installed policies never go back and never change under one number.
THEOREM PoliciesOrdered == Spec => []PolicyHistoryOrdered
<1>1. HistoryInv => PolicyHistoryOrdered
  BY DEF HistoryInv
<1> QED BY <1>1, HistoryInvariant, PTL

-----------------------------------------------------------------------------
(* The coordinator implements ContractRegistry *)

\* The contracts of a history form a sequence of the same length.
LEMMA ContractsTyped ==
  ASSUME NEW h \in History
  PROVE  /\ ContractsOf(h) \in Seq(Contract)
         /\ Len(ContractsOf(h)) = Len(h)
         /\ \A i \in 1..Len(h) : ContractsOf(h)[i] = h[i].contract
<1>1. \A i \in 1..Len(h) : h[i] \in Gen
  BY DEF History
<1>2. \A i \in 1..Len(h) : h[i].contract \in Contract
  BY <1>1 DEF Gen
<1>3. Len(h) \in Nat
  BY DEF History
<1> QED BY <1>2, <1>3 DEF ContractsOf

\* One more record appends its contract or leaves the contracts as they are.
LEMMA ContractsAfter ==
  ASSUME NEW h \in History, NEW g \in History, NEW rec \in Record,
         NEW w \in Workload, Extends(h, g, rec, w)
  PROVE  ContractsOf(g) =
           IF rec.type = "contract" /\ rec.contract.workload = w
             THEN Append(ContractsOf(h), rec.contract) ELSE ContractsOf(h)
<1>0. Len(h) \in Nat
  BY DEF History
<1>1. CASE rec.type = "contract" /\ rec.contract.workload = w
  <2>1. /\ Len(g) = Len(h) + 1
        /\ \A i \in 1..Len(h) : g[i].contract = h[i].contract
        /\ g[Len(h) + 1].contract = rec.contract
    BY <1>1 DEF Extends
  <2>2. Append(ContractsOf(h), rec.contract) =
          [i \in 1..(Len(h) + 1) |->
             IF i = Len(h) + 1 THEN rec.contract ELSE ContractsOf(h)[i]]
    BY <1>0, ContractsTyped
  <2>3. \A i \in 1..(Len(h) + 1) :
          g[i].contract = IF i = Len(h) + 1 THEN rec.contract ELSE ContractsOf(h)[i]
    BY <1>0, <2>1, ContractsTyped
  <2> QED BY <1>1, <2>1, <2>2, <2>3 DEF ContractsOf
<1>2. CASE ~(rec.type = "contract" /\ rec.contract.workload = w)
  BY <1>0, <1>2 DEF Extends, ContractsOf
<1> QED BY <1>1, <1>2

\* The registry the durable history stands for.
Gens == [w \in Workload |-> ContractsOf(past[Len(journal)].generations[w])]

Rets == past[Len(journal)].retired

\* Only a retirement changes which workloads are retired.
LEMMA RetiredAfter ==
  ASSUME NEW st \in State, NEW rec \in Record
  PROVE  Apply(st, rec).retired =
           IF rec.type = "retired" THEN [st.retired EXCEPT ![rec.workload] = TRUE]
                                   ELSE st.retired
BY ApplyRegistry, RecordKinds DEF Registry

\* An operation changes the registry by the effect of its record alone.
LEMMA RegistryAfter ==
  ASSUME ReplayInv, NEW rec \in Record, NEW answered,
         phase = "ready", Guarded(rec, answered), Commit(rec)
  PROVE  /\ rec.type = "contract" =>
              /\ rec.contract.workload \in Workload
              /\ Gens' = [Gens EXCEPT ![rec.contract.workload] =
                            Append(Gens[rec.contract.workload], rec.contract)]
              /\ Rets' = Rets
         /\ rec.type = "retired" =>
              Gens' = Gens /\ Rets' = [Rets EXCEPT ![rec.workload] = TRUE]
         /\ rec.type \in {"evidence", "policy"} => Gens' = Gens /\ Rets' = Rets
<1> DEFINE n == Len(journal)
<1>1. TypeOK /\ n \in Nat /\ past[n] \in State
  BY DEF ReplayInv, TypeOK
<1>2. Len(journal') = n + 1 /\ past'[n + 1] = Apply(past[n], rec)
  BY <1>1, CommitTyped
<1>3. Apply(past[n], rec) \in State
  BY <1>1, ApplyTyped
<1>4. \A w \in Workload :
        ContractsOf(Apply(past[n], rec).generations[w]) =
          IF rec.type = "contract" /\ rec.contract.workload = w
            THEN Append(ContractsOf(past[n].generations[w]), rec.contract)
            ELSE ContractsOf(past[n].generations[w])
  <2> TAKE w \in Workload
  <2> DEFINE h == past[n].generations[w]
             g == Apply(past[n], rec).generations[w]
  <2>1. h \in History /\ g \in History
    BY <1>1, <1>3, HistoryTyped
  <2>2. Extends(h, g, rec, w)
    BY <1>1, GenerationsAfter
  <2> HIDE DEF h, g
  <2>3. ContractsOf(g) =
          IF rec.type = "contract" /\ rec.contract.workload = w
            THEN Append(ContractsOf(h), rec.contract) ELSE ContractsOf(h)
    BY <2>1, <2>2, ContractsAfter
  <2> QED BY <2>3, Zenon DEF h, g
<1>5. Gens' = [w \in Workload |->
                 IF rec.type = "contract" /\ rec.contract.workload = w
                   THEN Append(Gens[w], rec.contract) ELSE Gens[w]]
  BY <1>2, <1>4 DEF Gens
<1>6. Rets' = IF rec.type = "retired" THEN [Rets EXCEPT ![rec.workload] = TRUE] ELSE Rets
  <2>1. Rets' = Apply(past[n], rec).retired
    BY <1>2 DEF Rets
  <2>2. CASE rec.type = "retired"
    BY <1>1, <2>1, <2>2, RetiredAfter DEF Rets
  <2>3. CASE rec.type # "retired"
    BY <1>1, <2>1, <2>3, RetiredAfter DEF Rets
  <2> QED BY <2>2, <2>3
<1>7. Gens = [w \in Workload |-> Gens[w]]
  BY DEF Gens
<1>8. rec.type = "contract" => rec.contract.workload \in Workload
  BY RecordKinds DEF Contract
<1> QED BY <1>5, <1>6, <1>7, <1>8

\* A step of the coordinator is a step of the registry or leaves it alone.
LEMMA RegistryStep ==
  ASSUME ReplayInv, [Next]_vars
  PROVE  [Registered!Next]_(Registered!vars)
<1>0. TypeOK
  BY DEF ReplayInv
<1> DEFINE n == Len(journal)
<1>1. CASE UNCHANGED <<journal, past, acked>>
  BY <1>1 DEF Registered!vars, ContractsOf
<1>2. CASE Performs
  <2>1. PICK rec \in Record, answered \in SUBSET Contract :
           phase = "ready" /\ Guarded(rec, answered) /\ Perform(rec, answered)
    BY <1>2 DEF Performs
  <2>2. Commit(rec)
    BY <2>1 DEF Perform
  <2>3. /\ state.generations = past[n].generations
        /\ state.retired = past[n].retired
    BY <2>1, <2>2, HistoryExtended DEF Registry
  <2>4. state \in State /\ Numbered(state)
    <3>1. n \in 0..n
      BY <1>0 DEF TypeOK
    <3> QED BY <1>0, <2>3, <3>1 DEF ReplayInv, Numbered, TypeOK
  <2>5. CASE rec.type = "contract"
    <3> DEFINE c == rec.contract
               h == state.generations[c.workload]
    <3>1. c \in Contract /\ c.workload \in Workload
      BY <2>5, RecordKinds DEF Contract
    <3>2. h \in History /\ Len(h) \in Nat
      BY <2>4, <3>1, HistoryTyped
    <3>3. Gens' = [Gens EXCEPT ![c.workload] = Append(Gens[c.workload], c)]
            /\ Rets' = Rets
      BY <2>1, <2>2, <2>5, RegistryAfter
    <3>4. Gens[c.workload] = ContractsOf(h)
      BY <2>3, <3>1 DEF Gens
    <3>5. c.gen = Len(h) + 1
      BY <2>1, <2>4, <2>5, GuardedNumber
    <3>6. /\ ContractsOf(h) \in Seq(Contract)
          /\ Len(ContractsOf(h)) = Len(h)
          /\ \A i \in 1..Len(h) : ContractsOf(h)[i] = h[i].contract
      BY <3>2, ContractsTyped
    <3>9. Gens' # Gens
      <4>1. c.workload \in DOMAIN Gens /\ Gens[c.workload] \in Seq(Contract)
        BY <3>1, <3>4, <3>6 DEF Gens
      <4> HIDE DEF c, h
      <4>2. Gens'[c.workload] = Append(Gens[c.workload], c)
        BY <3>3, <4>1
      <4>3. Append(Gens[c.workload], c) # Gens[c.workload]
        BY <3>1, <4>1
      <4> QED BY <4>2, <4>3
    <3>7. CASE Registers(c)
      <4>1. h = <<>> /\ c.gen = 1
        BY <3>7 DEF Registers, Known
      <4>2. Gens[c.workload] = <<>> /\ Append(<<>>, c) = <<c>>
        BY <3>4, <3>6, <4>1
      <4>3. Registered!Register(c)
        BY <3>3, <4>1, <4>2 DEF Registered!Register, Gens, Rets
      <4> QED BY <3>1, <3>9, <4>3 DEF Registered!Next, Gens
    <3>8. CASE Supersedes(c)
      <4>1. /\ h # <<>> /\ ~state.retired[c.workload]
            /\ c.publisher = h[Len(h)].contract.publisher
            /\ <<h[Len(h)].contract.body, c.body>> \in Compatible
        BY <3>8 DEF Supersedes, Known, Current
      <4>2. Len(h) \in 1..Len(h)
        BY <3>2, <4>1 DEF History
      <4>3. /\ Gens[c.workload] # <<>>
            /\ Len(Gens[c.workload]) = Len(h)
            /\ Gens[c.workload][Len(h)] = h[Len(h)].contract
        BY <3>4, <3>6, <4>2
      <4>4. ~Rets[c.workload]
        BY <2>3, <4>1, SMTT(30) DEF Rets
      <4> HIDE DEF c, h
      <4>5. Registered!Publish(c)
        BY <3>3, <3>5, <4>1, <4>3, <4>4 DEF Registered!Publish, Gens, Rets
      <4> QED BY <3>1, <3>9, <4>5 DEF Registered!Next, Gens
    <3> QED BY <2>1, <2>5, <3>7, <3>8 DEF Guarded
  <2>6. CASE rec.type = "retired"
    <3> DEFINE w == rec.workload
    <3>1. w \in Workload
      BY <2>6, RecordKinds
    <3>2. state.generations[w] # <<>> /\ ~state.retired[w]
      BY <2>1, <2>6 DEF Guarded, MayRetire, Known
    <3>3. Gens' = Gens /\ Rets' = [Rets EXCEPT ![w] = TRUE]
      BY <2>1, <2>2, <2>6, RegistryAfter
    <3>4. Gens[w] # <<>>
      <4>1. state.generations[w] \in History
        BY <2>4, <3>1, HistoryTyped
      <4>2. Len(state.generations[w]) # 0
        BY <3>2, <4>1 DEF History
      <4>3. Gens[w] = ContractsOf(state.generations[w])
        BY <2>3, <3>1 DEF Gens
      <4> QED BY <4>1, <4>2, <4>3, ContractsTyped
    <3>5. ~Rets[w]
      BY <2>3, <3>2 DEF Rets
    <3>6. Registered!Retire(w)
      BY <3>3, <3>4, <3>5 DEF Registered!Retire, Gens, Rets
    <3> QED BY <3>1, <3>6 DEF Registered!Next
  <2>7. CASE rec.type \in {"evidence", "policy"}
    <3>1. Gens' = Gens /\ Rets' = Rets
      BY <2>1, <2>2, <2>7, RegistryAfter
    <3> QED BY <3>1 DEF Registered!vars, Gens, Rets
  <2> QED BY <2>5, <2>6, <2>7, RecordKinds
<1> QED BY <1>0, <1>1, <1>2, OnlyOperationsWrite

\* Across every crash and restart the durable contracts of the coordinator
\* behave as ContractRegistry promises.
THEOREM RefinesRegistry == Spec => ImplementsRegistry
<1>1. Init => Registered!Init
  <2> SUFFICES ASSUME Init PROVE Registered!Init
    OBVIOUS
  <2>1. past[Len(journal)] = EmptyState
    BY DEF Init
  <2>2. \A w \in Workload : ContractsOf(EmptyState.generations[w]) = <<>>
    BY DEF EmptyState, ContractsOf
  <2>3. EmptyState.retired = [w \in Workload |-> FALSE]
    BY DEF EmptyState
  <2> QED BY <2>1, <2>2, <2>3 DEF Registered!Init
<1>2. ReplayInv /\ [Next]_vars => [Registered!Next]_(Registered!vars)
  BY RegistryStep
<1> QED BY <1>1, <1>2, ReplayInvariant, PTL DEF Spec, ImplementsRegistry, Registered!Spec

-----------------------------------------------------------------------------
(* What the replay makes of the evidence *)

\* The evidence sets are the ones the operations had attached, up to those of
\* retired workloads, and a set marked fresh was attached since the open.
EvidenceInv ==
  phase \in {"replay", "ready"} =>
    /\ \A w \in Workload : ~state.retired[w] =>
         SetOf(state.evidence[w]) = SetOf(past[applied].evidence[w])
    /\ reopened <= Len(journal)
    /\ \A w \in Workload :
         state.evidence[w] # NoEvidence /\ state.evidence[w].fresh =>
           \E i \in (reopened + 1)..Len(journal) :
             journal[i].rec = EvidenceRecord(state.evidence[w].set)

\* Only an evidence record changes the evidence.
LEMMA OtherRecords ==
  ASSUME NEW st \in State, NEW rec \in Record, rec.type # "evidence"
  PROVE  Apply(st, rec).evidence = st.evidence /\ ReplayApply(st, rec).evidence = st.evidence
<1>1. CASE rec.type = "contract"
  BY <1>1 DEF State, Apply, ApplyContract, ReplayApply, ReplayContract
<1>2. CASE rec.type = "retired"
  BY <1>2 DEF State, Apply, ApplyRetired, ReplayApply, ReplayRetired
<1>3. CASE rec.type = "policy"
  BY <1>3 DEF State, Apply, ApplyPolicy, ReplayApply
<1> QED BY <1>1, <1>2, <1>3, RecordKinds

\* Live it goes to the workloads that declare its scopes and are not retired,
\* in the replay to retired ones too.
LEMMA EvidenceAfter ==
  ASSUME NEW st \in State, NEW rec \in Record, rec.type = "evidence", NEW w \in Workload
  PROVE  /\ Declares(st, w, rec.evidence) /\ ~st.retired[w] =>
              Apply(st, rec).evidence[w] = [set |-> rec.evidence, fresh |-> TRUE]
         /\ ~(Declares(st, w, rec.evidence) /\ ~st.retired[w]) =>
              Apply(st, rec).evidence[w] = st.evidence[w]
         /\ Declares(st, w, rec.evidence) =>
              ReplayApply(st, rec).evidence[w] = [set |-> rec.evidence, fresh |-> FALSE]
         /\ ~Declares(st, w, rec.evidence) =>
              ReplayApply(st, rec).evidence[w] = st.evidence[w]
<1> DEFINE e == rec.evidence
           live == {v \in Workload : Declares(st, v, e) /\ ~st.retired[v]}
           all == {v \in Workload : Declares(st, v, e)}
<1>1. /\ Apply(st, rec).evidence = Attach(st, live, e, TRUE)
      /\ ReplayApply(st, rec).evidence = Attach(st, all, e, FALSE)
  BY DEF State, Apply, ApplyEvidence, ReplayApply, ReplayEvidence
<1>2. /\ w \in live <=> Declares(st, w, e) /\ ~st.retired[w]
      /\ w \in all <=> Declares(st, w, e)
  OBVIOUS
<1> HIDE DEF live, all
<1> QED BY <1>1, <1>2 DEF Attach

\* A workload that is not retired after a record was not before it.
LEMMA RetirementStays ==
  ASSUME NEW st \in State, NEW rec \in Record, NEW w \in Workload, st.retired[w]
  PROVE  Apply(st, rec).retired[w] /\ ReplayApply(st, rec).retired[w]
<1>0. DOMAIN st.retired = Workload
  BY DEF State
<1>1. CASE rec.type = "retired"
  <2>1. Apply(st, rec).retired = [st.retired EXCEPT ![rec.workload] = TRUE]
    BY <1>1, ApplyRegistry DEF Registry
  <2>2. ReplayApply(st, rec).retired = [st.retired EXCEPT ![rec.workload] = TRUE]
    BY <1>1, ReplayRegistry DEF Registry
  <2> QED BY <1>0, <2>1, <2>2
<1>2. CASE rec.type # "retired"
  BY <1>2, ApplyRegistry, ReplayRegistry, RecordKinds DEF Registry
<1> QED BY <1>1, <1>2

\* Live and in the replay a record leaves the same set with every workload
\* that is not retired.
LEMMA EvidenceAgrees ==
  ASSUME NEW st \in State, NEW old \in State, NEW rec \in Record,
         Registry(st) = Registry(old), NEW w \in Workload, ~st.retired[w],
         SetOf(st.evidence[w]) = SetOf(old.evidence[w])
  PROVE  /\ SetOf(Apply(st, rec).evidence[w]) = SetOf(Apply(old, rec).evidence[w])
         /\ SetOf(ReplayApply(st, rec).evidence[w]) = SetOf(Apply(old, rec).evidence[w])
<1>0. st.generations = old.generations /\ st.retired = old.retired
  BY DEF Registry
<1>1. CASE rec.type # "evidence"
  BY <1>1, OtherRecords
<1>2. CASE rec.type = "evidence"
  <2> DEFINE e == rec.evidence
  <2>1. e \in Evidence
    BY <1>2, RecordKinds
  <2>2. Declares(st, w, e) <=> Declares(old, w, e)
    BY <1>0 DEF Declares, Known, Current
  <2>3. \A b \in BOOLEAN : SetOf([set |-> e, fresh |-> b]) = e
    <3> SUFFICES ASSUME NEW b \in BOOLEAN PROVE SetOf([set |-> e, fresh |-> b]) = e
      OBVIOUS
    <3>1. [set |-> e, fresh |-> b] # NoEvidence
      BY <2>1, NoEvidenceAssumption
    <3> QED BY <3>1 DEF SetOf
  <2>4. ~old.retired[w]
    BY <1>0
  <2>5. CASE Declares(st, w, e)
    <3>1. /\ Apply(st, rec).evidence[w] = [set |-> e, fresh |-> TRUE]
          /\ Apply(old, rec).evidence[w] = [set |-> e, fresh |-> TRUE]
          /\ ReplayApply(st, rec).evidence[w] = [set |-> e, fresh |-> FALSE]
      BY <1>2, <2>2, <2>4, <2>5, EvidenceAfter
    <3> QED BY <2>3, <3>1
  <2>6. CASE ~Declares(st, w, e)
    <3>1. /\ Apply(st, rec).evidence[w] = st.evidence[w]
          /\ Apply(old, rec).evidence[w] = old.evidence[w]
          /\ ReplayApply(st, rec).evidence[w] = st.evidence[w]
      BY <1>2, <2>2, <2>6, EvidenceAfter
    <3> QED BY <3>1
  <2> QED BY <2>5, <2>6
<1> QED BY <1>1, <1>2

\* Each step keeps what is said of the evidence.
LEMMA EvidenceInvPreserved ==
  ASSUME ReplayInv, EvidenceInv, [Next]_vars
  PROVE  EvidenceInv'
<1> DEFINE n == Len(journal)
<1>0. TypeOK /\ Logged /\ Rebuilt /\ n \in Nat
  BY DEF ReplayInv, TypeOK
<1>1. CASE phase' \notin {"replay", "ready"}
  BY <1>1 DEF EvidenceInv
<1>2. CASE Open
  <2>1. /\ UNCHANGED <<journal, past>> /\ applied' = 0 /\ state' = EmptyState
        /\ reopened' = n
    BY <1>2 DEF Open
  <2>2. past'[0] = EmptyState
    BY <1>0, <2>1 DEF Logged
  <2>3. \A w \in Workload : EmptyState.evidence[w] = NoEvidence
    BY DEF EmptyState
  <2> QED BY <1>0, <2>1, <2>2, <2>3 DEF EvidenceInv
<1>3. CASE ReplayRecord
  <2> DEFINE rec == journal[applied + 1].rec
  <2>1. /\ UNCHANGED <<journal, past, phase, reopened>> /\ phase = "replay"
        /\ applied' = applied + 1 /\ state' = ReplayApply(state, rec)
    BY <1>3 DEF ReplayRecord, durable, observed
  <2>2. applied + 1 \in 1..n /\ applied \in 0..n
    BY <1>0, <1>3 DEF ReplayRecord, TypeOK
  <2>3. rec \in Record /\ state \in State /\ past[applied] \in State
    BY <1>0, <2>2, RecordsTyped DEF TypeOK
  <2>4. past[applied + 1] = Apply(past[applied], rec)
    <3>1. past[applied + 1] = Apply(past[(applied + 1) - 1], rec)
      BY <1>0, <2>2 DEF Logged
    <3> QED BY <2>2, <3>1
  <2>5. Registry(state) = Registry(past[applied])
    BY <1>0, <2>1 DEF Rebuilt
  <2>6. reopened <= n
    BY <2>1 DEF EvidenceInv
  <2> HIDE DEF rec
  <2>7. ASSUME NEW w \in Workload, ~state'.retired[w]
        PROVE  SetOf(state'.evidence[w]) = SetOf(past'[applied'].evidence[w])
    <3>1. ~state.retired[w]
      BY <2>1, <2>3, <2>7, RetirementStays
    <3>2. SetOf(state.evidence[w]) = SetOf(past[applied].evidence[w])
      BY <2>1, <3>1 DEF EvidenceInv
    <3>3. SetOf(ReplayApply(state, rec).evidence[w]) =
            SetOf(Apply(past[applied], rec).evidence[w])
      BY <2>3, <2>5, <3>1, <3>2, EvidenceAgrees
    <3> QED BY <2>1, <2>4, <3>3
  <2>8. ASSUME NEW w \in Workload, state'.evidence[w] # NoEvidence, state'.evidence[w].fresh
        PROVE  \E i \in (reopened + 1)..n :
                 journal[i].rec = EvidenceRecord(state'.evidence[w].set)
    <3>1. CASE rec.type # "evidence"
      <4>1. state'.evidence[w] = state.evidence[w]
        BY <2>1, <2>3, <3>1, OtherRecords
      <4> QED BY <2>1, <2>8, <4>1 DEF EvidenceInv
    <3>2. CASE rec.type = "evidence" /\ Declares(state, w, rec.evidence)
      <4>1. state'.evidence[w] = [set |-> rec.evidence, fresh |-> FALSE]
        BY <2>1, <2>3, <3>2, EvidenceAfter
      <4> QED BY <2>8, <4>1
    <3>3. CASE rec.type = "evidence" /\ ~Declares(state, w, rec.evidence)
      <4>1. state'.evidence[w] = state.evidence[w]
        BY <2>1, <2>3, <3>3, EvidenceAfter
      <4> QED BY <2>1, <2>8, <4>1 DEF EvidenceInv
    <3> QED BY <3>1, <3>2, <3>3
  <2> QED BY <2>1, <2>6, <2>7, <2>8 DEF EvidenceInv
<1>4. CASE OpenDone
  BY <1>4 DEF EvidenceInv, OpenDone, durable, observed
<1>5. CASE Performs /\ phase' = "ready"
  <2>1. PICK rec \in Record, answered \in SUBSET Contract :
           phase = "ready" /\ Guarded(rec, answered) /\ Perform(rec, answered)
    BY <1>5 DEF Performs
  <2>2. /\ Commit(rec) /\ state' = Apply(state, rec) /\ applied' = applied + 1
        /\ reopened' = reopened
    BY <1>5, <2>1 DEF Perform
  <2>3. /\ Len(journal') = n + 1 /\ past'[n + 1] = Apply(past[n], rec)
        /\ journal'[n + 1].rec = rec /\ \A i \in 1..n : journal'[i] = journal[i]
    BY <1>0, <2>2, CommitTyped
  <2>4. applied = n /\ Registry(state) = Registry(past[n])
    BY <1>0, <2>1 DEF Rebuilt
  <2>5. state \in State /\ past[n] \in State
    BY <1>0 DEF TypeOK
  <2>6. reopened <= n /\ reopened \in Nat
    BY <1>0, <2>1 DEF EvidenceInv, TypeOK
  <2>7. ASSUME NEW w \in Workload, ~state'.retired[w]
        PROVE  SetOf(state'.evidence[w]) = SetOf(past'[applied'].evidence[w])
    <3>1. ~state.retired[w]
      BY <2>2, <2>5, <2>7, RetirementStays
    <3>2. SetOf(state.evidence[w]) = SetOf(past[n].evidence[w])
      BY <2>1, <2>4, <3>1 DEF EvidenceInv
    <3>3. SetOf(Apply(state, rec).evidence[w]) = SetOf(Apply(past[n], rec).evidence[w])
      BY <2>4, <2>5, <3>1, <3>2, EvidenceAgrees
    <3> QED BY <2>2, <2>3, <2>4, <3>3
  <2>8. ASSUME NEW w \in Workload, state'.evidence[w] # NoEvidence, state'.evidence[w].fresh
        PROVE  \E i \in (reopened + 1)..(n + 1) :
                 journal'[i].rec = EvidenceRecord(state'.evidence[w].set)
    <3>1. CASE state'.evidence[w] = state.evidence[w]
      <4>1. PICK i \in (reopened + 1)..n :
              journal[i].rec = EvidenceRecord(state.evidence[w].set)
        BY <2>1, <2>8, <3>1 DEF EvidenceInv
      <4>2. i \in 1..n /\ i \in (reopened + 1)..(n + 1)
        BY <1>0, <2>6
      <4> QED BY <2>3, <3>1, <4>1, <4>2
    <3>2. CASE state'.evidence[w] # state.evidence[w]
      <4>1. rec.type = "evidence" /\ state'.evidence[w] = [set |-> rec.evidence, fresh |-> TRUE]
        <5>1. rec.type = "evidence"
          BY <2>2, <2>5, <3>2, OtherRecords
        <5> QED BY <2>2, <2>5, <3>2, <5>1, EvidenceAfter
      <4>2. rec = EvidenceRecord(rec.evidence)
        BY <4>1 DEF Record, EvidenceRecord
      <4>3. n + 1 \in (reopened + 1)..(n + 1)
        BY <1>0, <2>6
      <4>4. state'.evidence[w].set = rec.evidence
        BY <4>1
      <4> QED BY <2>3, <4>2, <4>3, <4>4
    <3> QED BY <3>1, <3>2
  <2>9. reopened <= n + 1
    BY <1>0, <2>6
  <2> QED BY <2>2, <2>3, <2>7, <2>8, <2>9 DEF EvidenceInv
<1>6. CASE UNCHANGED vars
  BY <1>6 DEF EvidenceInv, vars, durable, memory, observed
<1>7. ReplayFails \/ Crash \/ OpenRefused => phase' \notin {"replay", "ready"}
  BY DEF ReplayFails, Crash, OpenRefused
<1>8. Performs => phase' = "ready" \/ phase' = "down"
  BY DEF Performs, Perform
<1> QED BY <1>0, <1>1, <1>2, <1>3, <1>4, <1>5, <1>6, <1>7, <1>8, Steps

\* The evidence in memory, and what is marked fresh in it, over every
\* sequence of submissions, crashes and restarts.
THEOREM EvidenceInvariant == Spec => []EvidenceInv
<1>1. Init => EvidenceInv
  BY DEF Init, EvidenceInv
<1>2. ReplayInv /\ EvidenceInv /\ [Next]_vars => EvidenceInv'
  BY EvidenceInvPreserved
<1> QED BY <1>1, <1>2, ReplayInvariant, PTL DEF Spec

\* A restart gives every workload that is not retired back the evidence set
\* it had, although the replay attaches sets by other conditions than
\* attach_evidence does.
THEOREM EvidenceBack == Spec => []EvidenceRecovered
<1>1. ReplayInv /\ EvidenceInv => EvidenceRecovered
  BY DEF ReplayInv, Rebuilt, EvidenceInv, EvidenceRecovered
<1> QED BY <1>1, ReplayInvariant, EvidenceInvariant, PTL

\* Restoring state is never restoring liveness: an evidence set that can
\* decide a requirement is in a record appended after the open.
THEOREM DecisiveIsNew == Spec => []DecisiveEvidenceIsNew
<1>1. EvidenceInv => DecisiveEvidenceIsNew
  BY DEF EvidenceInv, DecisiveEvidenceIsNew, Decisive
<1> QED BY <1>1, EvidenceInvariant, PTL
=============================================================================
