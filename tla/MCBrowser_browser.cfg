\* Confirmations of an owner and a member in two tabs; the other parts' bounds
\* are in MCBrowser.
CONSTANTS
  u1 = u1
  u2 = u2
  u3 = u3
  c1 = c1
  c2 = c2
  solo = solo
  one = one
  two = two
  NoUser = NoUser
  Users = {u1, u2}
  Tabs <- Both
  Codes = {}
  Founder = u1
  Admitted = {u2}
  MaxSignIns = 3
  MaxChallenges = 2
  MaxFaults = 1
SPECIFICATION BrowserSpec
SYMMETRY Alike
INVARIANTS
  AdmittedAreNotRemoved
  PhotosOnTheirWay
  GatheredOnce
PROPERTIES
  OnlyFreshlyAsked
CHECK_DEADLOCK FALSE
