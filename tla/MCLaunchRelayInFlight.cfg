CONSTANTS
    l1 = l1
    l2 = l2
    c1 = c1
    Launches = {l1}
    Creators = {c1}
    CreatorOf <- OneLaunch
    Keys = {k1}
    Requests = {r1, r2}
    Prepares = {p1}
    OperatorConfigured = TRUE
    None = None
SPECIFICATION Spec
SYMMETRY RequestSymmetry
PROPERTY InProgressMeansInFlight
CHECK_DEADLOCK FALSE
