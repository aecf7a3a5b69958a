SPECIFICATION Spec
CONSTANTS
    j1 = j1
    j2 = j2
    w1 = w1
    w2 = w2
    q1 = q1
    Jobs = {j1}
    Workers = {w1, w2}
    Admins = {q1}
    MaxAttempts = 3
    MaxStalls = 1
    MaxManual = 1
    Faults = {"db", "stall", "crash"}
SYMMETRY Symmetry
INVARIANTS
    CompletedWasAccepted
    AttemptBudget
CHECK_DEADLOCK FALSE
