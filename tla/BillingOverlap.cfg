SPECIFICATION Spec
CONSTANTS
    s1 = s1
    s2 = s2
    r1 = r1
    r2 = r2
    q1 = q1
    Runs = {r1, r2}
    Requests = {q1}
    Subs = {s1}
    Calls = {"create", "cancel"}
    Faults = {"db", "lost", "crash"}
    MaxRetries = 2
    Interval = 1
    StartDates = {0}
    MaxCycles = 2
    MaxCharges = 3
    MaxTime = 1
    RetryDelays <- MCNoDelays
SYMMETRY RunSymmetry
INVARIANTS
    PaidIfCompleted
    RetryBudget
