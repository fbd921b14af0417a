SPECIFICATION Spec
CONSTANTS
    Sessions = {s1, s2}
    Tokens = {t1, t2}
    Codes = {c1, c2}
    Requests = {r1, r2}
    None = None
    CodeCount = 1
    MaxEpoch = 1
    MaxSecret = 2
SYMMETRY Symmetry
INVARIANTS
    NewTokenReplacesOlder
    PasswordChangeCancelsTokens
    CodesBelongToSecret
    SingleUse
