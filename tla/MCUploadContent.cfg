SPECIFICATION Spec
CONSTANTS
    Images = {i1}
    Names = {n1}
    Requests = {r1, r2}
    ImageSize = 2
    MaxUpload = 1
    MaxBody = 2
    MaxCrashes = 1
SYMMETRY Symmetry
INVARIANTS
    AnswersAreContent
