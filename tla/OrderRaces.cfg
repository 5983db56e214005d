SPECIFICATION FairSpec
CONSTANTS
    o1 = o1  o2 = o2  h1 = h1  h2 = h2  s1 = s1  s2 = s2
    None = None
    Order = {o1}
    Paid = {o1}
    Handler = {h1, h2}
    Slot = {s1}
    MaxRecords = 3
    Faults = {"api", "db", "redis", "worker"}
INVARIANTS TypeOK PaymentsAgree AnswersAreTrue
PROPERTIES ImplementsOrders OverdueIsResolved
CHECK_DEADLOCK FALSE
