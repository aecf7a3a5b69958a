SPECIFICATION Spec
CONSTANTS
    j1 = j1
    j2 = j2
    w1 = w1
    w2 = w2
    q1 = q1
    Jobs = {j1}
    Workers = {w1}
    Admins = {}
    MaxAttempts = 2
    MaxStalls = 1
    MaxManual = 0
    Faults = {}
INVARIANTS
    RecordTracksJob
CHECK_DEADLOCK FALSE
