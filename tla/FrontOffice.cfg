SPECIFICATION Spec
CONSTANTS
    None = None
    q1 = q1
    q2 = q2
    u1 = u1
    u2 = u2
    e1 = e1
    e2 = e2
    w1 = w1
    w2 = w2
    m1 = m1
    m2 = m2
    v1 = v1
    v2 = v2
    s1 = s1
    s2 = s2
    s3 = s3
    r1 = r1
    r2 = r2
    r3 = r3
    r4 = r4
    p1 = p1
    h1 = h1
    h2 = h2
    i1 = i1
    a1 = a1
    a2 = a2
    t1 = t1
    o1 = o1
    o2 = o2
    k1 = k1
    k2 = k2
    k3 = k3
    n1 = n1
    n2 = n2
    word = word
    g1 = g1
    g2 = g2
    b1 = b1
    x1 = x1
    x2 = x2
    y1 = y1
    y2 = y2
    j1 = j1
    j2 = j2
    z1 = z1
    z2 = z2
    d1 = d1
    Requests = {q1, q2}
    Budgets <- MCBudgets
    Failing = TRUE
    People = {u1, u2}
    Owner = u1
    Addresses = {e1, e2}
    Wallets = {w1, w2}
    UserBodies <- MCUserBodies
    MailIds = {m1, m2}
    ProofIds = {v1, v2}
    SessionIds = {s1, s2, s3}
    Staff = {u1, u2}
    RoleIds = {r1, r2, r3, r4}
    Permissions = {p1}
    Rosters <- MCRosters
    MaxCustom = 3
    DefaultRoles <- MCDefaultRoles
    RoleBodies <- MCRoleBodies
    Holders = {u1}
    Hashes = {h1, h2}
    Hosts = {i1}
    BanAfter = 1
    MaxDay = 2
    Shops = {a1}
    Tokens = {t1}
    Orders = {o1, o2}
    ShopOf <- MCShopOf
    TokenOf <- MCTokenOf
    ExpiryOf <- MCExpiryOf
    LastDay = 2
    LinkIds = {k1, k2, k3}
    Words = {word}
    Names = {n1, n2}
    Stem <- MCStem
    LinkBodies <- MCLinkBodies
    MerchantIds = {a1, a2}
    Emails = {e1, e2}
    HookIds = {g1, g2}
    Urls = {"url"}
    Pictures = {z1, z2}
    ShopNames = {d1}
    ProfileBodies <- MCProfileBodies
    Members = {b1}
    Passwords = {x1, x2}
    Secrets = {y1, y2}
    Records = {j1, j2}
    Contents = {"A", "B"}
    PageSize = 1
SYMMETRY Symmetry
INVARIANTS
    TypeOK
    AccountsHold
    RolesKeepTheirRules
    RowsMatchLedger
    ListsAreAsGranted
    OrdersPaidOnce
    LinksAreCreated
    MerchantRecordsHold
    SecondFactorHolds
    TrailReplaysRows
CHECK_DEADLOCK FALSE
