CONSTANTS
  f1 = f1
  f2 = f2
  Files = {f1, f2}
  Drafts <- MCDrafts
  Changes <- MCChanges
  MaxChanges = 2
  Order <- MCOrder
  Limits <- MCLimits
  Digits <- MCDigits
  Bytes <- MCBytes
  None = None
SPECIFICATION Spec
INVARIANTS
  SealedIsAccepted
  SealDerivesIdentities
  SealIgnoresOrder
  AlterationFound
  CycleFound
CHECK_DEADLOCK FALSE
