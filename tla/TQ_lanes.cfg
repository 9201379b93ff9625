SPECIFICATION Spec
CONSTANTS
  a1 = a1
  r1 = r1
  r2 = r2
  i1 = i1
  c1 = c1
  Agents = {a1}
  Runtimes = {r1}
  Issues = {i1}
  Chats = {c1}
  QuickCreate = QuickCreate
  Autopilot = Autopilot
  Priority <- CodePriority
  Requests = {q1, q2}
  Workers = {w1}
  MaxConcurrent = 1
  MaxAttempts = 1
  Triggers = {i1, Autopilot}
  UserStatuses = {}
  DaemonReasons = {"agent_error"}
  Archivable = {a1}
  MaxEnqueued = 2
  MaxAdmitted = 1
  MaxCrashes = 0
SYMMETRY RequestSymmetry
INVARIANTS
  TypeOK
  OnePendingPerPair
  IssueSerialization
  OvershootBounded
PROPERTIES
  TerminalFinal
CHECK_DEADLOCK FALSE
