SPECIFICATION Spec
CONSTANTS
  small = small
  large = large
  Payload = {small, large}
  PayloadBytes <- MCPayloadBytes
  HeaderBytes = 2
  MaxRecordBytes = 3
  MaxSegmentBytes = 7
  MaxSegments = 2
  MaxJournalBytes = 14
  TrustSet = {t1, t2}
  NoTrust = NoTrust
  MaxFaults = 2
  MaxEpoch = 3
  MaxChunks = 5
INVARIANTS TypeOK AckedDurable AccountingExact RecoveryLeavesCleanJournal ReadableAfterOneWriter
PROPERTIES ImplementsLog HeadAdvances
CHECK_DEADLOCK FALSE
