# Workload Network Contract: TLA+ models and proofs

This directory holds a verification project for the coordinator of the
Workload Network Contract: TLA+ modules translated from the C++ sources, TLC
configurations that check them on small instances, and TLAPS proofs of what
matters most for every value of the parameters. `PROJECT.json` maps each
definition to the source lines it stands for.

## 1. The system

A coordinator process keeps contracts that workloads publish about the network
they need. Submissions arrive over TCP, are checked against a trust set, an
installed policy and the contract they replace, are appended to a journal, and
only then change the memory and are answered. After a restart the memory is
rebuilt from the journal alone.

| Component | State | Operations | Talks to | Hard about it |
|---|---|---|---|---|
| State primitives (`state.cpp`) | files | `write_file_atomic`, `append_file_flushed`, `truncate_file`, `remove_file`, `read_file`, `lock_directory` | Ledger | a kill or an error inside any of them |
| Ledger (`ledger.cpp`) | `head.bin`, `journal-NNNNN.log`; epoch, sequence, chain value, segment counters | `open` (scan, repair, head), `append`, rotation, `read_after` | State, Runtime | interrupted appends, interrupted repairs, bounds, the chain across boots |
| Runtime (`runtime.cpp`) | workloads with their generations, evidence, policy, evidence floor | `open` with replay, `register_workload`, `publish`, `attach_evidence`, `install_policy`, `retire`, `evaluate`, `contract_at`, `verify_history` | Ledger, Coordinator, Evaluation, Policy | the replay must repeat what the operations did; dying between append and answer; repeated submissions |
| Evaluation (`evaluation.cpp`) | none of its own; the evidence a workload keeps | `validate_evidence`, `decide_requirement`, `aggregate_satisfaction`, `evaluate_contract` | Runtime | freshness across restarts; unknown is not satisfied |
| Policy, compatibility (`policy.cpp`) | none; the chain of generations | `validate_policy`, `check_contract_against_policy`, `check_compatibility` | Runtime, the diagnostic log | weakening through a chain of steps; a full log |
| Composition (`composition.cpp`) | the body being composed, the report | `compose`, `compare_requirement_strength` | client | weakening, conflicts, order of layers |
| Contract (`contract.cpp`) | documents | decoding, validation, canonical form, digest, identities, sealing | all | identities that depend on each other; altered documents; cycles of scopes |
| Signatures (`signature.cpp`) | trust set | `sign`, `verify_signature` | Runtime | domain separation |
| Coordinator (`coordinator.cpp`) | sessions with inbound and outbound buffers, stop flags | accept, pump, flush, reap, shutdown | Runtime, wire, clients | peers that do not read, frames in parts, slots reused, stopping at any moment |
| Wire (`wire.cpp`) | none | `encode_frame`, `decode_frame`, sockets | Coordinator, tools | frames cut anywhere |
| JSON (`json.cpp`, `codec.cpp`) | none | decode, canonical writing, reals, the diagnostic log | all | depth and length limits, two notations of reals |
| Tools (`wncctl_main.cpp`, `coordinator_main.cpp`) | files | seal, validate, calls to a coordinator, the serving loop | Contract, Coordinator | |
| Identities, hashing, Ed25519 | none | | all | |

What makes each correct:

* **Ledger**: an acknowledged record is never lost; recovery removes nothing but
  interrupted writes and leaves nothing unreadable behind but what it could not
  remove; every boot has a higher epoch; the counters behind the bounds match the files; the trust set
  of a directory never changes.
* **Runtime**: the replay rebuilds exactly what was durable; an acknowledged
  contract is served for ever; generations are accepted once and in order, by
  the owner, under the policy in force; restored evidence decides nothing.
* **Evaluation**: a contract is called satisfied or unsatisfied only on evidence
  of this incarnation that shows it; unknown never becomes satisfied.
* **Policy, compatibility**: no sequence of accepted publications weakens what
  was once required; accepted bodies obey the policy of their time.
* **Composition**: what is required survives any order of layers; keys and
  scopes stay unambiguous; the report explains the result.
* **Contract, JSON**: sealing derives the identities from the content alone; an
  altered document is not accepted; what is decoded is written back whole.
* **Coordinator**: each request is answered at most once and in order on its
  session; a stalled peer does not stop the others; a stop completes.

## 2. Modules

| Module | Role |
|---|---|
| `Ledger` | journal and head on disk, `Ledger::open` step by step, `append` with its failures |
| `RecordLog` | abstract specification: what the journal promises the runtime |
| `ContractRegistry` | abstract specification: what the coordinator promises about contracts |
| `Runtime` | memory, journal records, replay and operations of `Runtime` |
| `Requirements` | what a requirement says, how it is decided, compared and validated |
| `Evaluation` | evidence attached, restored, aged and supplied; verdicts on the current contract |
| `Publication` | policy and compatibility checks, and the chain of bodies they let through |
| `Composition` | the loops of `compose` |
| `Document` | a contract document from draft through sealing and transport to acceptance |
| `JsonNumbers` | how number literals are read and reals are written |
| `JsonReals` | a number read, written and read again |
| `Json` | the decoder and the canonical writer of whole texts |
| `Coordinator` | the serving loop, its sessions and sockets, clients, stop and drain |
| `MC...` | instances for TLC |
| `LedgerProofs`, `RuntimeProofs`, `CoordinatorProofs`, `EvaluationProofs`, `PublicationProofs`, `CompositionProofs`, `DocumentProofs`, `JsonProofs` | theorems and lemmas, checked by TLAPS |

`Runtime` treats bodies as opaque and takes the answers of the compatibility
and policy checks as arbitrary relations; `Publication` opens the bodies and
models those checks; `Evaluation` adds the evidence that `Runtime` stores. All
three, `Composition` and `Document` share `Requirements`. `Coordinator` reduces
the runtime to one workload with its number of generations and retirement.

### Ledger

`head`, `journal` and `files` are the state directory. The journal is a
sequence of chunks: a chunk is the leading `bytes` bytes of one frame, so a kill
inside `append_file_flushed` after any number of bytes is representable. The
variables `boot` to `retained` are the fields of the `Ledger` object; `phase`
says how far `Ledger::open` has come. `open` is split exactly where it changes
the directory: scan (`OpenScan`), `truncate_file` (`TruncateTail`), one
`remove_file` per excess segment (`RemoveExcess`, or `RemoveFails`, whose result
`open` ignores), the end of the repair (`RepairDone`), then layout discovery and
the atomic rewrite of the head (`WriteHead`). `Crash` may come between any two of
them, and stands for the I/O errors that do end `open` as well. `unremoved` names
the segments this open tried to remove and could not; `Excess` are those it has
yet to try. `AppendRecord`, `AppendRefused`, `AppendFails` and
`CrashInAppend` are the outcomes of `append`; the last leaves 0 to all bytes of
the frame. `AppendFails` is a short write or a failed flush while the process
lives. `faults` counts these and the removals that failed, and `MaxFaults` bounds
them. Counting both together weakens nothing: there is an excess segment only
after a failed write.

A chain value is modelled by what it digests (sequence number and payload; the
code zeroes the link field before hashing). `Truncated` follows `parse_frame`:
a frame is torn when the file ends inside it, and corrupt when other bytes
follow a short header. Sizes are small numbers in the proportions the code
compares. A crash is a process death, not a power failure: the repository's
README promises durability against process death only.

`acked`, `served` and `writers` are observations, never read by an action's
guard; `faults` is read by `AppendFails` and `RemoveFails` alone, for its bound.

`RecordLog` is what the journal promises: a log of records that grows at its end
by one record at a time. A process that serves knows all of it, a record is
acknowledged under its place, a process that dies leaves the log as it is or with
the one record it was appending. `Ledger` implements it (`ImplementsLog`) with
the payloads of the complete frames as the log (`Durable`); torn frames, repairs,
rotation, refusals and the head are stutters. The promise ends (`Fault`) with a
write that fails in a process that goes on. `Runtime` takes its journal to be
such a log, with the link of each record beside it.

### Runtime

`journal` holds complete records with the link each was written with, as
`Ledger` leaves them after recovery. `state` is `state_`: generations with their
superseded and retired marks, evidence with its freshness, policy, evidence
floor. `Open`, `ReplayRecord` (one iteration of the replay loop), `ReplayFails`
and `OpenDone` are `Runtime::open`. Each operation is one action: its guard
(`MayRegister`, `MayPublish`, `MayAttach`, `MayInstall`, `MayRetire`) is the
conjunction of the early returns, and `Perform` is the commit followed either by
the change in memory and the answer, or by the death of the process in between.
The effect of a record exists twice, as in the code: `Apply` for the operation
that wrote it and `ReplayApply` for the replay loop.

`past[i]` is an observation: the state as the operations left it after the i-th
record. Contract bodies, rules and scopes are model values; what the
compatibility and policy checks answer is a constant relation, so the results
hold for every such relation. Signatures cannot be forged. An evidence
submission is a pair of its generation and whether it already carries an
identity: every set decoded by `evidence_from_json` does, sets built in process
usually do not.

The module assumes a disk without errors; `Ledger` covers those.

### Requirements and Evaluation

A requirement is a record with the code's fields; numbers are naturals, since the
code only compares them, and texts are members of small sets. `Decide` is
`decide_requirement` kind by kind; `ValidRequirement` is what `validate_body` asks
of one requirement; `Match`, `MayRemove`, `MayReplace` and `Compatible` are
`check_compatibility`. `Covers` (one requirement asks for everything another
asks for) is the reference notion the properties use.

`Evaluation` has one workload. `AttachEvidence` stamps a set with the epoch and
keeps it; `Restart` is what `Runtime::open` makes of it; `EvaluateStored` and
`EvaluateSupplied` are `evaluate` and `evaluate_with_evidence`; `Publish` changes
the contract and leaves the evidence; `Tick` is the clock. `answer` observes the
evaluation just made and is forgotten by the next step. `origin` in an entry is
an observation as well.

### Publication

`chain` is the list of accepted bodies, `under` the policy in force for each.
`Register` and `Publish` are the checks of `register_workload` and `publish` that
look into bodies. `PolicyPermits` includes the diagnostic log that
`check_contract_against_policy` reports to: it keeps `LogLimit` entries, and the
verdict is whether an error was kept.

### Composition

One action per pass of a loop of `compose`: `TakeScope`, `Add`, `Strengthen`,
`RefuseWeakening`, `RefuseConflict`, `RefuseUnnamed`, `NextLayer`, `Finish`.
`Compare` is `compare_requirement_strength` with its rule that a difference in
strength decides alone.

### Document

A hash is its argument with a domain tag. `Seal` and `Check` are the `wncctl`
commands, built from `Decoded`, `Valid`, `Canonicalize` and `Printed` as the
commands are; `Write` and `Change` are the outside: an author, and a medium that
alters one part at a time: the digest, the identity the document states, or what
it says (`OnePart`). `IsDocument` is what a document of the model looks like: the
members of the C++ structures with their types. The canonical writer spells
numbers out without an exponent (`printed` marks a text it wrote), and the parser
refuses a literal of more than 64 characters and a text of more than 512 KiB:
`Parses` says which printed documents can be read back, from the lengths
`Digits` and `Bytes`, which are parameters. A text that parses decodes to the
values it was printed from. `Walk` and `Cyclic` are the bounded walk over the
parents of scopes.

### Json

Texts are sequences of tokens; strings and white space stay inside them. The
parser's functions are operators with its depth count and its refusal of
repeated keys. `Json` declares RECURSIVE operators and so takes part in no proof.
Numbers are apart, in `JsonNumbers`: `FormatReal` is `format_canonical_real` with
the choice of notation that `std::to_chars` makes (external) and
`expand_exponent`; `ParseNumber` has the bound on the length of a literal. A real
is the shortest decimal form of a double, and `RealOf` takes the digits of a
literal as they are: that `std::from_chars` rounds a literal with more digits than
a double holds is not modelled, nor is the range of integers. `JsonReals` reads a
number, writes it and reads it again; `Json` extends it by the same for texts, and
`json_codec` runs both.

### Coordinator

A frame is two cells, so it can be received and sent in parts; `conn` is the
client's end with the cells in flight in both directions, `session` the server's
slots. `pc` walks through `run_pass`: accept, then flush, frames and receive for
each slot, then reap. Sends take as many cells as the socket has room for.
`RequestStop` may come at any moment, as from the signal handler or the watcher
of standard input; `Shutdown` is the drain, bounded by `DrainWindow`. Clients
connect, send up to `Window` requests without waiting, read, stall and vanish.
`IdleTimeout` counts the ticks after which `idle_timeout_millis` is exceeded; 0
turns reaping off, as in the code.
Requests that attach evidence or install a policy are answered like the others
and have no effect on the one workload the model keeps; "describe" stands for
every request that only reads. Waits are left out: each is bounded, so the
thread always takes another step.

## 3. Runs

| Run | Result | Shows |
|---|---|---|
| `ledger_crash` | holds | kills at every byte of an append and between all steps of `open`, with up to two writes or removals that fail while the process lives |
| `ledger_relink` | violated | after a reopen the next append links wrongly, the open after it is refused |
| `runtime_contracts` | holds | contracts, evidence, policies and retirements across crashes; refinement of `ContractRegistry` |
| `runtime_wire` | violated | evidence decoded from a document makes the next open fail |
| `session_pipeline` | holds | requests back to back, cut anywhere: one answer each, in order, within the buffers |
| `session_serving` | holds | three clients on two slots, waiting, slots reused, sessions reaped, a stop: slots match connections, reads see acknowledged writes |
| `session_live` | holds | next to a peer that never reads: others are answered, its session ends, a stop completes and nothing is served after it |
| `evaluation_verdicts` | holds | verdicts rest on evidence of this incarnation that shows them |
| `publication_chain` | holds | what was required stays required and is implied by later generations; policies bind |
| `composition_layers` | holds | required requirements survive, keys and scopes stay unique, the report explains the result |
| `document_seal` | holds | sealed documents are accepted exactly when their text parses, identities follow from content, alterations and cycles are found |
| `json_codec` | holds | nothing is lost between decoding and writing; a real that is not negative is read back as it was written |

Type invariants are proved (section 4); only that of `Ledger` is also checked by a
run.

The violated properties state sentences of the repository's own comments;
`PROJECT.json` quotes them under `findings`.

Bounds of `Ledger`: two payloads (frames of 3 and 5 bytes with a 2-byte header,
so a kill can fall inside the header, between header and payload and inside the
payload), two frames to a segment, two segments, so that rotation, the segment
bound and the total bound all happen; three boots, so that an interrupted
recovery is followed by another; two trust sets; two failures, so that a failed
write is followed by an open that finds excess segments and either removes them
or fails to. `AckedDurable`, `ImplementsLog`,
`AccountingExact` and `ReadableAfterOneWriter` are claimed while no write has
failed: after one they do not hold (see section 5).

Bounds of `Runtime`: two workloads, three publishers of whom two are trusted,
two bodies of which one may replace the other but not back, two policies for
each of two policy generations, evidence of generations 0 to 2, four records,
two generations retained. Two boots are enough: the first append after a reopen
breaks the chain (finding `ledger_relink`), so a third boot of a journal that
grew is refused whatever else happens. Workloads and trusted publishers are
interchangeable and declared symmetric.

Bounds of `Coordinator`: the runtime starts with any number of generations up to
`MaxGeneration`, as it recovered them. `session_pipeline` has two clients, one slot,
two requests outstanding, registrations, unknown requests and garbled ones, and a
receive that takes one and a half frames. `session_serving` has three clients and
two slots, so that a connection waits while every slot is in use: one client
publishes up to the second generation, one describes, one connects only and is
there to be refused a slot, to take one over or to be reaped; a session that is
idle for one tick is reaped at the next. `session_live` has two clients and a socket
that takes half a frame, so that a reply is stuck half sent. In the model but in no
run is "retire" over a session; its effect is in `runtime_contracts`.

Bounds of the rest: `Evaluation` runs to time 4 with maximum age 1 and two
boots, over bodies with every kind of requirement; `Publication` has chains of
three, a log of two entries and bodies of up to three requirements, so that the
log overflows; `Composition` has bases of up to two requirements and up to two
layers; `Document` has one file that is altered up to twice and a second
one to compare with, every graph of up to three scopes, a number that is longer
than the parser's bound once it is spelled out, and documents longer than its
bound on texts; `Json` has every
text of up to five tokens, longer objects and nestings around the depth bound of
2; `JsonReals` has reals of both signs with exponents from -75 to 45, past every
change of notation, and literals with zeros in front, between and behind.

Deadlock is checked for `Evaluation` only. Elsewhere the system may stop: a
directory that is refused stays refused, a process down at the last explored
boot stays down, a composition or a document is finished, a coordinator that
stopped stays stopped.

Fairness is assumed in `session_live` only (`LiveSpec`): the serving thread goes
on (`Pass`; every wait in it has a bound, `kAcceptPollMillis` and
`kWorkPollMillis`), the caller of `run` calls `stop` once it returned and the
drain then proceeds (`coordinator_main` does; its waits are bounded by
`kDrainPollMillis`), time passes, and clients that are not of the stalling kind
keep reading. Nothing is assumed of clients that send, connect or leave, and
none of the stop request.

## 4. Proofs

All results hold for every value of the constants that the named assumptions
admit: any sets of workloads, bodies, policies, evidence and layers, any bounds.

| Module | Theorem | Statement |
|---|---|---|
| `LedgerProofs` | `LedgerTypes` | `Spec => []TypeOK` |
| | `AckedStay` | `Spec => []AckedDurable` |
| | `Accounting` | `Spec => []AccountingExact` |
| | `CleanRecovery` | `Spec => []RecoveryLeavesCleanJournal` |
| | `OneWriterReadable` | `Spec => []ReadableAfterOneWriter` |
| | `RefinesLog` | `Spec => ImplementsLog` (refinement of `RecordLog`) |
| | `HeadAdvancing` | `Spec => HeadAdvances` (action property) |
| `RuntimeProofs` | `TypeCorrect` | `Spec => []TypeOK` |
| | `RecoveryExact` | `Spec => []RegistryRecovered` |
| | `AckedServed` | `Spec => []AckedContractsServed` |
| | `IndexVerified` | `Spec => []HistoryVerifies` |
| | `AcceptedOnce` | `Spec => []GenerationsAcceptedOnce` |
| | `AcceptedPermitted` | `Spec => []PermittedWhenAccepted` |
| | `PoliciesOrdered` | `Spec => []PolicyHistoryOrdered` |
| | `EvidenceBack` | `Spec => []EvidenceRecovered` |
| | `DecisiveIsNew` | `Spec => []DecisiveEvidenceIsNew` |
| | `RefinesRegistry` | `Spec => ImplementsRegistry` |
| `CoordinatorProofs` | `SlotsMatch` | `Spec => []SlotsMatchConnections` |
| | `BuffersStayBounded` | `Spec => []BuffersBounded` |
| | `ReadsAreFresh` | `Spec => []FreshReads` |
| | `PipelineStaysIntact` | `Spec => []PipelineIntact` |
| `EvaluationProofs` | `EvaluationTypes` | `Spec => []TypeOK` |
| | `VerdictsJustified` | `Spec => []VerdictJustified` |
| | `RestartsForget` | `Spec => []RestartForgets` |
| | `SuppliedRecentOnly` | `Spec => []SuppliedIsRecent` |
| `PublicationProofs` | `PublicationTypes` | `Spec => []TypeOK` |
| | `RequiredStays` | `Spec => []RequiredKept` |
| | `LaterSuffices` | `Spec => []LaterSatisfiesEarlier` |
| | `PolicyIsBinding` | `Spec => []PolicyBinds` |
| `CompositionProofs` | `CompositionTypes` | `Spec => []TypeOK` |
| | `ComposedKeysUnique` | `Spec => []KeysUnique` |
| | `RequiredIsKept` | `Spec => []RequiredSurvives` |
| | `ScopesAreKept` | `Spec => []ScopesKept` |
| | `ReportIsExact` | `Spec => []ReportExplains` |
| `DocumentProofs` | `SealedIsAcceptedAlways` | `Spec => []SealedIsAccepted` |
| | `IdentitiesAreDerived` | `Spec => []SealDerivesIdentities` |
| | `SealIgnoresOrderAlways` | `Spec => []SealIgnoresOrder` |
| | `AlterationsAreFound` | `Spec => []AlterationFound` |
| | `CyclesAreFound` | `Spec => []CycleFound` |
| `JsonProofs` | `RealsSurvive` | `Spec => []RealsRoundTrip` |

**Ledger** (from `LedgerAssumption`). The invariant `LedgerInv` has eight parts.
`Layout`: the chunks lie in their segments one behind the other and every byte
belongs to one, which is what a truncation at a chunk's offset needs to leave a
clean file. `Recovery`: where an open that was started stands, so that a crash
between the truncation, the removal of later segments and the write of the head
leaves a state from which the next open continues. It excepts the segments whose
removal failed, and so does `CleanRecovery`: when the head is written, what lies
behind the accepted records is in such segments only. `Boots`: epochs and trust sets
follow one another. `Segments`: the number of files against the counter that a
rotation checks. `Undisturbed`, `Counted` and `Linked` hold while no write has
failed in a process that lived on: only the last chunk may be torn, the counters
are those of the directory, and the links within one incarnation match. The
counters are sums over the segment files, so `LedgerProofs` has a small theory of
sums over finite sets, proved by the least set of naturals where a claim fails.
`RefinesLog` maps each step to one of `RecordLog` or to a stutter (`LogStep`). The
step that needs the invariant is the truncation: while no write has failed only
the last chunk may be torn, so what a repair removes was no record
(`RepairKeepsRecords`); and `WriteHead` serves with a sequence that is the number
of records, because the scan has accepted all of them.

**Runtime** (from `RuntimeAssumption`, `NoPolicyAssumption` and
`NoEvidenceAssumption`). None of the
properties is inductive. `RegistryRecovered` speaks of the end of the replay, so
the invariant `ReplayInv` speaks of every point of it: after `applied` records
the memory's registry equals that of `past[applied]`, each `past[i]` is
`past[i-1]` changed by record i (`Logged`), and in each of them the generations
of a workload are numbered 1, 2, 3, ... (`Numbered`). The numbering is what makes
the two implementations of superseding agree: the replay marks the generations
below the new one, the operation marks all, and these are the same only when the
new one is the highest. It is kept because `register_workload` and `publish`
accept the next generation only, which they compare with a memory that is itself
correct by the same invariant. `HistoryInv` adds what ties the journal to the
answers and to the states: each acknowledged contract is in the journal, each
contract of the journal is in the state after it, the length of a history counts
its contract records, and the policy in force is the last one installed. The
`EvidenceInv` does the same for the evidence, with the two differences the code
makes: a retired workload's evidence is not compared (`attach_evidence` passes
over retired workloads, the replay does not), and what the replay restores is
never fresh, so that a fresh set has a record behind `reopened`. The
refinement proof maps `generations` and `retired` to those of
`past[Len(journal)]`: operations map to `Register`, `Publish`, `Retire` or a
stutter, every other step to a stutter.

**Coordinator** (from `CoordinatorAssumption`, for any number of clients, slots,
requests in a window and cells in a buffer). `SessionInv` ties the slots to the
connections: a slot in use has one client, its connection is open or gone, the
backlog holds neither it nor anything twice, and nothing is queued while frames
are looked at, which is why one reply is the most a session ever holds. `Pipes`
says what the buffers hold: the cells between a client and its session (`down`,
`outbound`, `inbound`, `up`, in this order) are the header and the body of each
request that the client waits for, place by place, and what the session has read
begins at the start of a frame. `PipelineIntact` compares a filtered sequence
with the list of requests, and is no help in an induction; the place-by-place
form is inductive, and `MarksFit` derives the property from it. The property is
about complete answers: while a connection is open nothing is lost or out of
order; after it was closed the client has a prefix of its answers, and may have
the first half of the next.

**Evaluation** (from `EvaluationAssumption`). `StoredInv` says what the kept
evidence looks like: each entry is stamped with the incarnation that received
it. `FindIsEntry` shows that `EvidenceSet::find` is well defined (least element
of the positions of a scope), `DecidedByUsable` that a decided requirement was
decided by one entry of this incarnation that is current, `DecideAccepts` that
the verdict on a required requirement agrees with the reference definition
`Accepts`, kind by kind.

**Publication** (from `PublicationAssumption`). `check_compatibility` compares a
body with the one before only. `KeptInv` says that every required requirement of
every generation is covered in every later one; it is inductive because `Covers`
is transitive (`CoversTransitive`) and compatibility implies it for neighbours
(`MayReplaceCovers`). `CoversDecides` then turns coverage into the verdicts of
`decide_requirement`. For `PolicyBinds`, `PermittedInv` says that each body was
permitted by the policy it was accepted under, and `PermittedHasNoErrors` why
that is enough: the first requirement with an error has only requirements
without errors before it, each of which leaves one note at most, so the log still
has room for the error when the requirement is among the first `LogLimit`.

**Composition** (from `CompositionAssumption`). The invariant is types, unique
keys and `RequiredSurvives` together, at every point of the loops: survival of
what is required needs unique keys (the replaced requirement is the only one
with its key) and the unique keys need the types. `Reported` is `ReportExplains`
at every step: a decision on a key is the last one on it until that key comes
again, and a scope's decision never has the key of a requirement.

**Document** (from `DocumentAssumption`). A walk along the parents that takes
more steps than there are scopes visits one name twice, by the pigeonhole
theorem, and the names in between have all their parents among themselves;
conversely a walk that starts in such a set never leaves it. For sealing, the
chain of arguments is that of the code. `Sorted` is a permutation, because the
ranks of a total order on 1..n are the numbers 0..n-1 (`RankNumbers`), it ascends,
and two ascending lists of the same elements are equal (`AscendingUnique`). So the
canonical form of a body depends on its content alone and canonicalising it again
changes nothing (`SealedBodyCanonical`, `CanonicalBodyKept`), what was printed and
parses decodes to the same document (`PrintedReadsBack`), and a rearranged body is valid
when the first was, cycles, repeated keys and counts per scope included
(`ScopesStayValid`, `RequirementsStayValid`). `SealedIsAccepted` says that a sealed
document is accepted, and sealed again to itself, exactly when its text parses.
`SealIgnoresOrder` says of two files that their digests are equal exactly when
their content is, that equal content gives equal identities, and that equal
identities leave at most the generation to differ. The first two are what
`body_digest` and `canonicalize` do; the last holds of the code and of what the
comment at contract.cpp:376-380 intends, so the theorem takes no side in that
divergence. The inductive invariant
`FilesSealed` says of each file which sealed document it comes from and that, after
n changes, all but n of its parts (digest, identity, the rest) are as sealed.
`AlterationFound` follows since any one part that is left determines the content:
the digest and the identity cover it. Three changes can replace all
of a document, hence the two in the property.

**Json** (from `NumbersAssumption`). `Stages` ties the output to the value and the
value to the token. That a text is read as the number it was written for rests on
where the first and the last digit other than zero lie (`EndsExist`, by a least
element; `DigitsFound`), for each of the three layouts around the decimal point
(`LayOutReads`). The theorem speaks of decimal digits; what `std::from_chars` and
`std::to_chars` do with doubles is taken from their standard.

Collectives are excepted from `RequiredKept`, `LaterSatisfiesEarlier` and
`RequiredSurvives`: the code does let their members go (section 5).

Only model-checked: `Json.NothingLost`, because parser and writer are RECURSIVE
operators and what they compute for texts of any depth is an induction over data,
and liveness under fairness (`Answered`, `StalledEnds`, `StopCompletes`), which is
outside this prover's reach. The library's induction principles take an operator
as parameter, which the provers cannot instantiate; where a proof needs an
induction over numbers or finite sets (`Ledger`'s sums, `Coordinator`'s walk over
slots, `Publication`'s running count, `Document`'s ranks and walks) it argues by
the least counterexample.

## 5. Divergences met while modelling

Two are shown by runs, `ledger_relink` and `runtime_wire`. The others were met
while the properties were being stated, and are why some of those carry
conditions. Each is what the code does against what the repository says of it.

* `state.cpp:324`: append_file_flushed returns an error after a short write or a
  failed flush without cutting the file back, and append keeps running.
  src/include/wnc/ledger.hpp:151-152 says append "Returns false and leaves no
  partial frame at the durability point on failure."
* `ledger.cpp:344`: A partial frame left by a failed append can be followed by
  acknowledged records in the next segment. Recovery takes the short segment end
  for a torn tail and removes the later segments with their acknowledged
  records. src/include/wnc/ledger.hpp:33-34 says "Recovery truncates a torn
  tail, records that it did so, and never reports the truncated records as
  durable."
* `ledger.cpp:374`: open ignores the result of remove_file. When a removal fails it
  goes on to write the head and serves with the segment left behind; layout
  discovery makes that segment the append target, so later records follow the
  leftover ones. The next open then refuses the journal, or takes leftover records
  in again that recovery reported as cut off. src/include/wnc/ledger.hpp:33-34 says
  "Recovery truncates a torn tail, records that it did so, and never reports the
  truncated records as durable."
* `ledger.cpp:461`: segment_count_ of a new directory is 0 while segment 0 is
  already the append target, so rotate_segment allows kMaxLedgerSegments
  rotations and the directory gets one file more than the bound.
  src/include/wnc/config.hpp:56 says of the bound 256: "Journal segment files
  retained in a ledger directory."
* `runtime.cpp:270`: The replay leaves the floor alone when no workload declares
  a scope of the set, while attach_evidence raised it; after a restart the same
  generation is accepted again. src/tests/concurrency/test_concurrency.cpp:271
  says "Evidence generations must strictly advance", src/README.md:49-50 that
  generations "strictly advance".
* `runtime.cpp:228`: retire marks every generation record retired (line 827),
  the replay of the retirement record marks only the workload, so the history
  reported after a restart differs. src/src/runtime.cpp:149-150 says "The
  snapshot is materialised again by applying records in order",
  src/include/wnc/runtime.hpp:205-206 that retired workloads "retain their
  history and stay inspectable".
* `coordinator.cpp:390`: drop closes the socket and clears outbound with part of
  a reply already written: a timeout, the end of the drain window or a later
  send failure does so. src/src/coordinator.cpp:22-23 says "a reply is framed in
  memory before a single byte of it is written, so a session never observes a
  partially written frame".
* `coordinator.cpp:1012`: shutdown computes one deadline for all sessions; a
  peer that does not read uses it up, and the sessions after it are dropped
  without one attempt to write although their peers are reading.
  src/include/wnc/coordinator.hpp:68-69 says stop "drains what can be drained,
  closes every session".
* `evaluation.cpp:698`: decide_requirement tests the freshness mark only; an
  attached set is marked current once and the age is computed only for supplied
  evidence (validate_evidence). src/include/wnc/config.hpp:92 says "Default
  maximum age of evidence before it is considered stale."
* `codec.cpp:178`: A requirement that no rule constrains adds a note to the
  DiagnosticLog; after 64 entries add drops what follows, and
  check_contract_against_policy asks has_errors of what was kept, so a violation
  behind 64 notes is accepted. src/include/wnc/policy.hpp:78-79 says "Every
  violation is reported with the scope and requirement it applies to, and with a
  stable code." `PolicyBinds` is therefore claimed for the first 64
  requirements.
* `policy.cpp:461`: check_compatibility lets a requirement go that is not
  required while its scope stays. src/include/wnc/policy.hpp:103-104 says "no
  requirement may be removed or weakened. Additions are compatible."
* `policy.cpp:516`: For a requirement without numbers only value and preferred
  value are compared: a required collective may lose members, which weakens it.
  src/include/wnc/policy.hpp:103-104 says "no requirement may be removed or
  weakened."
* `policy.cpp:354`: The early return for a policy without rules leaves result.ok
  at its default false (src/include/wnc/policy.hpp:71), so every contract is
  refused while such a policy is installed. The comment at
  src/src/policy.cpp:355 says "An empty policy constrains nothing".
* `composition.cpp:181`: compare_requirement_strength answers by strength alone
  when the strengths differ, so a layer of higher strength replaces a
  requirement with tighter bounds. src/src/composition.cpp:163-164 says "A layer
  may never weaken what is already declared, neither in strength nor in a
  bound."
* `composition.cpp:29`: same_constraint does not look at members, so a layer
  replaces a required collective by one with fewer members and this counts as
  strengthening. src/include/wnc/composition.hpp:14 says "an overlay may never
  weaken a REQUIRED requirement."
* `composition.cpp:170`: When the stronger of two layers comes first, the later
  one is refused as a weakening and the composition fails.
  src/include/wnc/composition.hpp:11-12 says "two layers that name the same
  requirement key are a conflict unless one of them is strictly stronger, in
  which case the stronger one wins".
* `contract.cpp:399`: body_digest covers the whole body with its generation, and
  the contract identity is derived from that digest, so the identity changes
  with the generation. src/src/contract.cpp:376-380 says "two contracts with the
  same semantic content share an identity" and "It is deliberately independent
  of the generation number".
* `state.cpp:386`: Neither Ledger::open nor Runtime::open nor the coordinator
  calls lock_directory, so two processes open and serve one directory.
  src/README.md:331-332 says "One coordinator instance owns a state directory."
  and "Concurrency is handled by the single-threaded transport loop plus the
  directory lock".
* `ledger.cpp:308`: The epoch is read from head.bin, incremented and written
  back without the lock, so two boots can take the same one. src/README.md:156
  says "Every boot allocates a fresh incarnation and increments the epoch
  persisted in" head.bin.
* `json.cpp:925`: When to_chars uses no exponent, format_canonical_real returns
  the text after the sign; the flag negative is used only on the path with an
  exponent. src/include/wnc/json.hpp:15-16 says "reals are emitted in the
  shortest form that round trips through double, expanded to ordinary decimal
  notation".
* `json.cpp:418`: expand_exponent writes a small or large real out in full, and
  parse_number refuses a number token of more than 64 characters, so a record
  with such a number is written and cannot be read back.
  src/src/runtime.cpp:146-147 says "any record that was accepted is a record
  that can be recovered." For the same reason `wncctl seal` prints documents that
  `wncctl validate` refuses, for instance one with target and minimum 1e-70.
  src/tools/wncctl_main.cpp:123-124 says "the printed document is publishable as
  it stands." `SealedIsAccepted` is therefore claimed for texts that parse.

## 6. Not modelled

* A second process on a directory: `lock_directory` has no caller, so nothing in
  the code keeps one out (see above); the models have one process at a time.
* `write_snapshot`, `truncate_to`: no caller outside the tests, so the snapshot
  file never exists and `read_snapshot` always finds none.
* The cached evaluation in `WorkloadState`: nothing stores one, so it is always
  absent and `evaluate` always recomputes.
* Ed25519, SHA-2, CRC: digests and signatures are modelled by what they cover.
* Escapes, UTF-8 and size limits inside JSON strings; length and character rules
  of single fields; wording of diagnostics; address parsing; command lines.
* Wall clock values stored in records, beyond the age of evidence.
* Size limits other than `kMaxRecordBytes` in `Ledger` and the parser's bounds on
  a literal and on a text in `Document`.

## 7. What could come next

A composition of `Coordinator` and `Runtime` with clients that retry over broken
connections, so that repeated submissions cross restarts and sessions in one
model; and `Runtime` over `RecordLog` as a refinement, once the defect that
`ledger_relink` shows is gone and journals may grow over many boots.
