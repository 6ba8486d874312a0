SPECIFICATION MCSpec
CONSTANTS
    t1 = t1
    t2 = t2
    a = a
    b = b
    c = c
    d = d
    Endpoint = {}
    Joinable = {}
    Request = {t1, t2}
    MaxRow = 0
    MaxShared = 0
    Slug = {a, b}
    MaxId = 3
    MaxHandled = 3
    Failing = 1
    User = {a, b}
    ListedSlug = {c, d}
    TypeOf <- MCTypeOf
    PolicyLists <- MCPolicyLists
    MaxEntry = 3
    PageSize = 1
    MaxPerOwner = 1
    MaxChanges = 2
    MaxFaults = 1
SYMMETRY Symmetry
INVARIANTS IndexMirrors OneSyncRemains ListingsFaithful StarsCounted
CHECK_DEADLOCK FALSE
