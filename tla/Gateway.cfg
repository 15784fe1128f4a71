SPECIFICATION Spec
CONSTANTS
    None = None
    Users = {u1}
    Requests = {r1, r2}
    Tools = {t1}
    CacheMs = 1
    MaxNow = 2
    Calls = {c1, c2, c3}
    Tokens = {k1}
    Ips = {i1, i2}
    Capacity = 2
    IdleAge = 2
    PruneEvery = 2
    MaxTime = 6
    Visits = {v1}
    Posts = {p1, p2}
    Exchanges = {x1, x2}
INVARIANTS
    DenyHeldBack
    AuditedOnce
    ReplyIsOwn
    LazyIsEager
    OneTokenPerConsent
CHECK_DEADLOCK FALSE
