CONSTANTS
    l1 = l1
    l2 = l2
    c1 = c1
    Launches = {l1, l2}
    Creators = {c1}
    CreatorOf <- OneCreator
    Keys = {k1}
    Requests = {r1, r2}
    Prepares = {p1, p2}
    OperatorConfigured = TRUE
    None = None
SPECIFICATION Spec
SYMMETRY RequestSymmetry
INVARIANT AnswersTheLaunchAsked
CHECK_DEADLOCK FALSE
