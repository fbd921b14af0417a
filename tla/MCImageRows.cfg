SPECIFICATION Spec
CONSTANTS
    Users = {u1, u2}
    Staff = {u1}
    Versions = {v1, v2}
    Assets = {a1, a2, a3}
    Links = {l1}
    Requests = {r1, r2}
    Limit = 2
    None = None
SYMMETRY Symmetry
INVARIANTS
    AvatarsCurrent
    ReviewImageLimit
    AssetsNamedOnce
