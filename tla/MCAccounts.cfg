SPECIFICATION Spec
CONSTANTS
    t1 = t1
    t2 = t2
    m1 = m1
    m2 = m2
    Thread = {t1, t2}
    Email = {m1, m2}
    Smtp = TRUE
    MaxUsers = 2
    MaxCodes = 3
    MaxAttempts = 1
    MaxRequests = 1
    MaxHandled = 4
    Failing = 1
SYMMETRY Symmetry
INVARIANTS ComparisonsCapped CodesPerWindow VerifiedProved
CHECK_DEADLOCK FALSE
