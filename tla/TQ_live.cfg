SPECIFICATION FairSpec
CONSTANTS
  a1 = a1
  r1 = r1
  r2 = r2
  i1 = i1
  c1 = c1
  Agents = {a1}
  Runtimes = {r1}
  Issues = {i1}
  Chats = {c1}
  QuickCreate = QuickCreate
  Autopilot = Autopilot
  Priority <- CodePriority
  Requests = {q1}
  Workers = {w1}
  MaxConcurrent = 1
  MaxAttempts = 2
  Triggers = {i1, c1, QuickCreate, Autopilot}
  UserStatuses = {}
  DaemonReasons = {"agent_error"}
  Archivable = {}
  MaxEnqueued = 1
  MaxAdmitted = 1
  MaxCrashes = 0
PROPERTIES
  QueuedLeaves
  RunningLeaves
CHECK_DEADLOCK FALSE
