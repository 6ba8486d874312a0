SPECIFICATION MCSpec
CONSTANTS
    e1 = e1
    e2 = e2
    r1 = r1
    r2 = r2
    u1 = u1
    u2 = u2
    s1 = s1
    s2 = s2
    Endpoint = {e1, e2}
    Joinable = {e1}
    Request = {r1, r2}
    MaxRow = 2
    MaxShared = 2
    Account = {u1, u2}
    Creator = {u2}
    OwnerOf <- MCOwner
    CollectiveSlug = {s1, s2}
    Suffixed = {s2}
    MaxCollective = 2
    MaxEvents = 2
SYMMETRY Symmetry
INVARIANTS MembersConsented SharedOnceApproved ResolvedWereMembers ViewsFaithful
CHECK_DEADLOCK FALSE
