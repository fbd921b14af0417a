SPECIFICATION FairSpec
CONSTANTS
    Sessions = {s1}
    Tokens = {t1}
    Codes = {c1}
    Requests = {r1, r2}
    None = None
    CodeCount = 1
    MaxEpoch = 1
    MaxSecret = 1
PROPERTIES
    EveryRequestEnds
