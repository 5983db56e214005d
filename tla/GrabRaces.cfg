SPECIFICATION ScopeSpec
CONSTANTS
    u1 = u1  u2 = u2  t1 = t1  t2 = t2
    q1 = q1  q2 = q2  w1 = w1  w2 = w2
    None = None
    User = {u1, u2}
    Ticket = {t1, t2}
    Stock <- OneEach
    Paid = {t1, t2}
    MaxCancels = 1
    Req = {q1, q2}
    Slot = {w1, w2}
    FaultSets = {{"enqueue", "tx"}, {"stall", "key", "redis"}, {"ttl", "evict"}}
    RecoveryOn = FALSE
SYMMETRY UserSymmetry
INVARIANTS TypeOK ReservedIsExact OneActivePerUser CacheLetsNoMoreThrough GrabIsVisible
PROPERTIES ImplementsSale ClaimKeepsItsWork
CHECK_DEADLOCK FALSE
