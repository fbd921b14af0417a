SPECIFICATION Spec
CONSTANTS
    Passwords = {p1, p2}
    Devices = {d1, d2}
    Sessions = {s1, s2, s3}
    Requests = {r1, r2}
    None = None
    MaxVersion = 1
SYMMETRY Symmetry
INVARIANTS
    DeviceListIsTrue
PROPERTIES
    KeepsRevocationPromise
