SPECIFICATION PageSpec
CONSTANTS
    Systems <- MCSystems
    Builds <- MCBuilds
    Unreadable = Unreadable
    NoVersion = NoVersion
    VersionIds <- MCVersionIds
    Artifacts <- MCArtifacts
    Number <- MCNumber
    Home <- MCHome
    Requires <- MCRequires
    Editors = {r1, r2}
    None = None
    Users = {u1, u2}
    Staff = {u2}
    Visitors = {u1}
    Reviews = {v1, v2}
    Files <- MCFiles
    VersionOf <- MCHome
    Guests = {r1, r2}
    Nobody = Nobody
SYMMETRY Symmetry
INVARIANTS
    PageTypeOK
    SeriesCoversItsReleases
    RunsOnAnInterval
    PageOffersBest
    RecommendedTogetherUnseen
    CountedOnce
PROPERTIES
    DeletedStaysDeleted
