SPECIFICATION Spec
CONSTANTS
    u1 = u1  u2 = u2  h1 = h1  s1 = s1  s2 = s2
    None = None
    Order = {1, 2}
    User = {u1, u2}
    Party <- OneAlone
    Host <- EachHost
    Handler = {h1}
    Slot = {s1, s2}
    Start = 3
    Delta = 2
    Limit = 0
    Faults = {"api", "stall"}
SYMMETRY SlotSymmetry
INVARIANTS TypeOK ScoreWithinLogs InTimeIsSafe
PROPERTIES ImplementsBook
CHECK_DEADLOCK FALSE
