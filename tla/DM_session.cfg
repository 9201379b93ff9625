SPECIFICATION FairSpec
CONSTANTS
  u1 = u1
  u2 = u2
  c1 = c1
  c2 = c2
  None = None
  Users = {u1, u2}
  Calls = {c1, c2}
  Overlap = FALSE
  MaxEvents = 2
INVARIANTS
  TypeOK
  
  
PROPERTIES
  LoginBringsUp
  StatusConverges
  DeferredRestartFires
CHECK_DEADLOCK FALSE
