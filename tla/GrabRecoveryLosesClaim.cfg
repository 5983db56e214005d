SPECIFICATION Spec
CONSTANTS
    u1 = u1  u2 = u2  t1 = t1  t2 = t2
    q1 = q1  q2 = q2  w1 = w1  w2 = w2
    None = None
    User = {u1, u2}
    Ticket = {t1}
    Stock <- OneEach
    Paid = {}
    MaxCancels = 1
    Req = {q1, q2}
    Slot = {w1, w2}
    FaultSets = {{}}
    RecoveryOn = TRUE
SYMMETRY UserSymmetry
INVARIANTS CacheNeverOverAdmits
CHECK_DEADLOCK FALSE
