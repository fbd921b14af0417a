SPECIFICATION FairPathSpec
CONSTANTS
    Conns = {c1, c2}
    Requests = {r1, r2}
    Nested = {r1, r2}
    Attempting = {r1, r2}
    MaxInner = 2
    None = None
    Keys = {k1, k2}
    Watched = k1
    Limit = 2
    Window = 2
    MaxDelay = 1
    Capacity = 1
INVARIANTS
    NotStuck
    NothingLeaks
    BelowTwiceTheLimit
PROPERTIES
    RefusedOnlyAfterLimit
    EveryRequestAnswered
