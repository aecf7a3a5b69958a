SPECIFICATION FairSpec
CONSTANTS
    j1 = j1
    j2 = j2
    w1 = w1
    w2 = w2
    q1 = q1
    Jobs = {j1, j2}
    Workers = {w1, w2}
    Admins = {}
    MaxAttempts = 3
    MaxStalls = 1
    MaxManual = 0
    Faults = {"db"}
INVARIANTS
    OutcomeIsTrue
PROPERTIES
    RecordMovesForward
    DeliveryEnds
CHECK_DEADLOCK FALSE
