CONSTANTS
  admin = admin
  m1 = m1
  e1 = e1
  Members <- TwoMembers
  Admin = admin
  Entries <- OneEntry
  Owner <- OwnedByMember
  MaxAttempts = 1
  MaxManualRetries = 1
  GlobalLimit = 2
  MemberLimit = 1
  ClaimTicks = 1
  LeaseTicks = 2
  StageTicks = 2
  Backoff <- OneTickBackoff
  MaxRestores = 1
  FromBackup = TRUE
SPECIFICATION Spec
INVARIANTS
  OnlyActiveMembersRun
  IInv
CHECK_DEADLOCK FALSE
