\* Two workers with two outputs; the other parts' bounds are in MCStorage.
CONSTANTS
  cutout = cutout
  mask = mask
  w1 = w1
  w2 = w2
  raw = raw
  out = out
  r1 = r1
  r2 = r2
  Outputs <- TwoOutputs
  Runs <- TwoWorkers
  MaxAttempts = 2
  MaxManual = 0
  LeaseTicks = 2
  StageTicks = 2
SPECIFICATION StorageSpec
INVARIANTS
  OutputsAccounted
  DeletedAsRecorded
  StagesFollowThePiece
  StagesPaidAsAsked
PROPERTIES
  NewestPublishes
  LiveLeaseNotTaken
  LateResultsNeverApplied
CHECK_DEADLOCK FALSE
