CONSTANTS
  admin = admin
  m1 = m1
  e1 = e1
  Members <- TwoMembers
  Admin = admin
  Entries <- OneEntry
  Owner <- OwnedByMember
  MaxAttempts = 2
  MaxManualRetries = 1
  GlobalLimit = 2
  MemberLimit = 1
  ClaimTicks = 1
  LeaseTicks = 2
  StageTicks = 2
  Backoff <- OneTickBackoff
  MaxRestores = 0
  FromBackup = TRUE
SPECIFICATION FairSpec
INVARIANTS
  EntryJobAgreement
  OneOriginal
  RawUploadKept
  LateUploadRechecked
PROPERTIES
  OutputsSettleOnce
  KeepsPromise
  UploadSettles
CHECK_DEADLOCK FALSE
