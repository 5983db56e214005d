SPECIFICATION CampusSpec
CONSTANTS
    None = None
    Setting <- Settings
    x1 = x1  x2 = x2  y1 = y1  y2 = y2  y3 = y3
    z1 = z1  z2 = z2  p1 = p1  p2 = p2  q1 = q1  q2 = q2  u1 = u1  u2 = u2
SYMMETRY Twins
INVARIANTS TypesAreRight CyclesAreRight ClosuresAreRanges CatalogueStands QuotaWithinStock
    StampsAgree FormsAreOfShown RulesAreValid BansMatch PagesAgree
PROPERTIES OpensOnTime ChannelHolds ShownIsStable AdmittedUnderRules
\* The rows there can be are used up.
CHECK_DEADLOCK FALSE
