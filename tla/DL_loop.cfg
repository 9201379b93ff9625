SPECIFICATION FairSpec
CONSTANTS
  p1 = p1
  p2 = p2
  s1 = s1
  s2 = s2
  h1 = h1
  h2 = h2
  u1 = u1
  u2 = u2
  Pollers = {p1, p2}
  Slots = {s1}
  Handlers = {h1, h2}
  Updates = {u1}
  ExecutableKnown = TRUE
  NoSlot = NoSlot
INVARIANTS
  TypeOK
  SlotsConserved
  AutoUpgradeIdle
  OneUpgrade
PROPERTIES
  ClaimsResume
  ShutdownEnds
CHECK_DEADLOCK FALSE
