SPECIFICATION Spec
CONSTANTS
    None = None
    q1 = q1
    q2 = q2
    u1 = u1
    u2 = u2
    u3 = u3
    c1 = c1
    c2 = c2
    n1 = n1
    n2 = n2
    f1 = f1
    l1 = l1
    l2 = l2
    p1 = p1
    p2 = p2
    a1 = a1
    a2 = a2
    b1 = b1
    b2 = b2
    i1 = i1
    i2 = i2
    m1 = m1
    Requests = {q1, q2}
    Budgets <- MCBudgets
    Failing = TRUE
    Users = {u1, u2, u3}
    Codes = {c1, c2}
    Programs = {1, 2}
    ProgramBodies <- MCProgramBodies
    Issuances <- MCIssuances
    Recipients = {u1, u2}
    NoticeIds = {n1, n2}
    Flags = {f1}
    Audience = {u1, u2}
    Rules <- MCRules
    InRollout <- MCInRollout
    Payments = {p1, p2}
    Links = {l1, l2}
    Product <- MCProduct
    Books <- MCBooks
    Dates <- MCDates
    BestSellers = 1
    Cases <- MCCases
    Changes <- MCChanges
    AlertIds = {a1, a2}
    LimitIds = {1, 2, 3}
    Roles <- MCRoles
    MerchantNames <- MCMerchantNames
    LimitBodies <- MCLimitBodies
    Keys <- MCKeys
    Texts <- MCTexts
    Puts <- MCPuts
    Parts <- MCParts
    Stages <- MCStages
    Defaults <- MCDefaults
    Tables <- MCTables
    Routes = {b1, b2}
    Samples <- MCSamples
    Latencies = {1200}
    Quick = {100}
    AlertInterval = 2
    LatenciesKept = 2
    PointsKept = 2
    LastTick = 2
    Origins = {i1, i2}
    Owners = {m1}
    TopListed = 1
    Histories <- MCHistories
SYMMETRY Symmetry
INVARIANTS
    TypeOK
    ReferralsHold
    LogReplaysFlag
    FlagAgreesWithStatus
    FiguresAddUp
    AnswersMatchAlerts
    LimitsAsConfigured
    SettingsAsAnswered
    AlertsHold
    FiguresAgree
CHECK_DEADLOCK FALSE
