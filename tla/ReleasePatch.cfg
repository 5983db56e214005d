SPECIFICATION Spec
CONSTANTS
    Null = Null
    x1 = x1  p1 = p1
    MonthStart <- Months
    FirstWeekday = 5
    RuleId = {x1}
    ClosureId = {}
    InitialRules <- NoRules
    InitialClosures <- NoClosures
    Moments <- OneMoment
    Admin = {p1}
    RulePatches <- Payloads
    ClosurePatches = {}
    Booking = {}
    Wishes = {}
INVARIANTS WeeklyRuleHasDay
CHECK_DEADLOCK FALSE
