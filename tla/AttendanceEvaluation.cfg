SPECIFICATION FairSpec
CONSTANTS
    u1 = u1  u2 = u2  h1 = h1  s1 = s1  s2 = s2
    None = None
    Order = {1, 2}
    User = {u1, u2}
    Party <- Both
    Host <- EachHost
    Handler = {}
    Slot = {s1, s2}
    Start = 3
    Delta = 2
    Limit = 2
    Faults = {"redis", "db", "worker", "stall"}
INVARIANTS PenaltiesMatch
PROPERTIES MissedIsFinalised
CHECK_DEADLOCK FALSE
