CONSTANTS
  Bodies <- MCBodies
  Submissions <- MCSubmissions
  MaxAge = 1
  MaxTime = 4
  MaxEpoch = 2
  NoEvidence = NoEvidence
  NoAnswer = NoAnswer
SPECIFICATION Spec
INVARIANTS
  VerdictJustified
  RestartForgets
  SuppliedIsRecent
