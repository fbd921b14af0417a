SPECIFICATION Spec
CONSTANTS
    Sessions = {s1, s2, s3}
    Tokens = {t1}
    Codes = {c1}
    Requests = {r1, r2}
    None = None
    CodeCount = 1
    MaxEpoch = 2
    MaxSecret = 0
SYMMETRY Symmetry
INVARIANTS
    SessionsEndAtSecurityChange
PROPERTIES
    ReplacesProvenPassword
    KeepsRevocationPromise
