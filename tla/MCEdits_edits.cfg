\* Two pages of one piece; the other parts' bounds are in MCEdits.
CONSTANTS
  solo = solo
  one = one
  two = two
  Pages <- Both
  Categories = {}
  MaxRevision = 3
  MaxJobs = 1
  MaxKeys = 2
  MaxFaults = 1
SPECIFICATION EditsSpec
SYMMETRY Alike
INVARIANTS
  SuggestionsYield
  SavesAreSeen
  MaskIsAsShown
PROPERTIES
  ValuesStay
CHECK_DEADLOCK FALSE
