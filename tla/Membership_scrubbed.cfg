CONSTANTS
  Users = {u1}
  Tabs = {t1}
  Codes = {}
  NoUser = NoUser
  Founder = u1
  Admitted = {}
  MaxSignIns = 2
  MaxChallenges = 1
  MaxFaults = 0
SPECIFICATION Spec
INVARIANTS
  DomainRemovedAtOnce
CHECK_DEADLOCK FALSE
