SPECIFICATION Spec
CONSTANTS
    i1 = i1  i2 = i2  m1 = m1  m2 = m2
    Issues = {i1, i2}
    Lists = {"list"}
    Pages = {}
    Muts = {m1}
    MaxWrites = 3
    MaxEvents = 2
CHECK_DEADLOCK FALSE
INVARIANTS Recovered
