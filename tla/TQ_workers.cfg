SPECIFICATION Spec
CONSTANTS
  a1 = a1
  r1 = r1
  r2 = r2
  i1 = i1
  c1 = c1
  Agents = {a1}
  Runtimes = {r1}
  Issues = {i1}
  Chats = {c1}
  QuickCreate = QuickCreate
  Autopilot = Autopilot
  Priority <- CodePriority
  Requests = {q1}
  Workers = {w1, w2}
  MaxConcurrent = 1
  MaxAttempts = 3
  Triggers = {i1}
  UserStatuses = {"in_progress", "done", "cancelled"}
  DaemonReasons = {"agent_error"}
  Archivable = {}
  MaxEnqueued = 1
  MaxAdmitted = 1
  MaxCrashes = 1
SYMMETRY WorkerSymmetry
INVARIANTS
  RetryLineage
  NoRetryLost
  StatusFaithful
CHECK_DEADLOCK FALSE
