SPECIFICATION Spec
CONSTANTS
    s1 = s1
    s2 = s2
    r1 = r1
    r2 = r2
    q1 = q1
    Runs = {r1}
    Requests = {q1}
    Subs = {s1}
    Calls = {"create", "cancel"}
    Faults = {}
    MaxRetries = 2
    Interval = 1
    StartDates = {0}
    MaxCycles = 3
    MaxCharges = 2
    MaxTime = 2
    RetryDelays <- MCNoDelays
INVARIANTS
    CancelledNotCollected
