\* One page and two regions; the other parts' bounds are in MCWorkEnds.
CONSTANTS
  solo = solo
  Tabs = {solo}
  Regions = {1, 2}
  Proposed = {1, 2}
  Window = 1
  MaxAttempts = 1
  MaxRetries = 0
  MaxSubmits = 1
  MaxFaults = 0
SPECIFICATION EndsSpec
PROPERTIES
  CropsEnd
  WorkSettles
CHECK_DEADLOCK FALSE
