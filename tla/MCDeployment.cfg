SPECIFICATION DeploymentSpec
CONSTANTS
    Users = {u1, u2}
    Emails = {e1, e2}
    Servers = {p1, p2}
    Requests = {r1, r2}
    None = None
    Last = 2
    Repeatable = {2}
    Scripts = {s1, s2}
    MaxTimes = 2
SYMMETRY Symmetry
INVARIANTS
    SingleAdmin
    ServingHasAdmin
    AppliedInOrder
    LockedOutOnlyByStop
    QuietRunsSucceed
    UpgradedFindAllTables
PROPERTIES
    AdminStays
