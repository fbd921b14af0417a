SPECIFICATION Spec
CONSTANTS
    Users = {u1}
    Apps = {a1}
    Artifacts = {f1, f2}
    Stages = {g1}
    Names = {n1}
    Requests = {r1, r2}
    None = None
SYMMETRY Symmetry
INVARIANTS
    PublishedByStaff
    QueueAgrees
    StageCommitsOnce
    NoOrphan
PROPERTIES
    KeepsCatalogPromise
