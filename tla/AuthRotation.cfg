SPECIFICATION Spec
CONSTANTS
    t1 = t1
    t2 = t2
    t3 = t3
    u1 = u1
    u2 = u2
    q1 = q1
    q2 = q2
    Tokens = {t1, t2, t3}
    Users = {u1}
    Requests = {q1, q2}
    RefreshLife = 2
    AccessLife = 1
    Faults = {"redis", "crash"}
    MaxTime = 2
SYMMETRY Symmetry
INVARIANTS
    SuccessorReplacesParent
    RevokedStaysDead
    OneLiveTokenPerLogin
