SPECIFICATION AppSpec
CONSTANTS
  u1 = u1
  u2 = u2
  c1 = c1
  c2 = c2
  None = None
  Users = {u1, u2}
  Calls = {c1, c2}
  Overlap = FALSE
  MaxEvents = 1
PROPERTIES
  LoginBringsUp
CHECK_DEADLOCK FALSE
