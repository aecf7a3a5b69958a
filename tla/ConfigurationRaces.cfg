SPECIFICATION Spec
CONSTANTS
    s1 = s1
    s2 = s2
    k1 = k1
    k2 = k2
    q1 = q1
    q2 = q2
    Servers = {s1, s2}
    Keys = {k1}
    Requests = {q1, q2}
    Options = {"yes", "no", "undefined"}
    Faults = {"db", "crash"}
    MaxWrites = 3
SYMMETRY Symmetry
INVARIANTS
    CacheFollowsTable
    FlagTellsCipher
