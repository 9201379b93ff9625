SPECIFICATION FairSpec
CONSTANTS
  t1 = t1
  r1 = r1
  r2 = r2
  c1 = c1
  c2 = c2
  Tasks = {t1}
  Runtimes = {r1, r2}
  Claims = {c1, c2}
  NoVerdict = NoVerdict
  MaxFaults = 1
  MaxMerges = 1
INVARIANTS
  TypeOK
  NeverHidden
PROPERTIES
  Surfaces
CHECK_DEADLOCK FALSE
