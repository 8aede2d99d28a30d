\* A group photo in two tabs; the other parts' bounds are in MCPhotos.
CONSTANTS
  p1 = p1
  p2 = p2
  e = e
  solo = solo
  one = one
  two = two
  Nobody = Nobody
  Tabs <- Both
  Regions = {1}
  Proposed = {1}
  Window = 1
  MaxAttempts = 1
  MaxRetries = 0
  MaxSubmits = 2
  MaxFaults = 1
SPECIFICATION PhotosSpec
SYMMETRY Alike
INVARIANTS
  RepeatsAccountedFor
  PartsFoundWhole
  ConfirmedOnce
PROPERTIES
  AnswersStand
  SourceAsNeeded
CHECK_DEADLOCK FALSE
