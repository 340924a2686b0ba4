SPECIFICATION Spec
CONSTANTS
  b1 = b1
  b2 = b2
  s1 = s1
  s2 = s2
  strict = strict
  lax = lax
  Workload = {w1, w2}
  Publisher = {p1, p2, p3}
  Trusted = {p1, p2}
  Body = {b1, b2}
  Scope = {s1, s2}
  Scopes <- MCScopes
  Compatible <- MCCompatible
  Rules = {strict, lax}
  Permits <- MCPermits
  NoPolicy = NoPolicy
  NoEvidence = NoEvidence
  EvidenceInputs <- MCEvidence
  MaxGeneration = 2
  MaxPolicyGen = 2
  MaxEpoch = 2
  MaxJournal = 4
INVARIANTS RegistryRecovered AckedContractsServed HistoryVerifies GenerationsAcceptedOnce PermittedWhenAccepted PolicyHistoryOrdered EvidenceRecovered DecisiveEvidenceIsNew
PROPERTY ImplementsRegistry
SYMMETRY Interchangeable
CHECK_DEADLOCK FALSE
