\* One key, an output's or an upload's, and one deletion run; the other parts' bounds are in MCRequestsEnd.
CONSTANTS
  key = key
  r1 = r1
  solo = solo
  one = one
  two = two
  NoUser = NoUser
  RawKeys = {}
  OutKeys = {key}
  Runs = {r1}
  MaxFaults = 1
SPECIFICATION EndSpec
PROPERTIES
  DeletionsEnd
  UploadsMoveOn
CHECK_DEADLOCK FALSE
