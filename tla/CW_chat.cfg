SPECIFICATION FairSpec
CONSTANTS
    a1 = a1  a2 = a2  s1 = s1  s2 = s2  c1 = c1  c2 = c2
    None = None  Draft = Draft
    Agents = {a1, a2}
    Sessions = {s1, s2}
    Calls = {c1, c2}
    MaxTasks = 2
    MaxEvents = 4
CHECK_DEADLOCK FALSE
INVARIANTS TypeOK Addressed ActiveExists PillAccounted
PROPERTIES PillSettles
