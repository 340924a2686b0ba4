SPECIFICATION Spec
CONSTANTS
  b1 = b1
  b2 = b2
  s1 = s1
  s2 = s2
  strict = strict
  lax = lax
  Workload = {w1, w2}
  Publisher = {p1, p3}
  Trusted = {p1}
  Body = {b1, b2}
  Scope = {s1, s2}
  Scopes <- MCScopes
  Compatible <- MCCompatible
  Rules = {lax}
  Permits <- MCPermits
  NoPolicy = NoPolicy
  NoEvidence = NoEvidence
  EvidenceInputs <- MCWireEvidence
  MaxGeneration = 2
  MaxPolicyGen = 1
  MaxEpoch = 2
  MaxJournal = 4
INVARIANT RecordsReplayable
CHECK_DEADLOCK FALSE
