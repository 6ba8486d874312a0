SPECIFICATION TunnelSpec
CONSTANTS
    c1 = c1
    c2 = c2
    s1 = s1
    s2 = s2
    Call = {c1, c2}
    MaxKey = 3
    Sources = {s1}
    Model = m
    Requests <- NoChat
    Replies = {"ok"}
    MaxRetries = 0
    MaxBeats = 0
INVARIANTS RetryHidesRotation
PROPERTIES AtMostOnce CallEnds
