\* Liveness: no symmetry.
SPECIFICATION FairSpec
CONSTANTS
    Assets = {a1, a2}
    Polls = {p1}
    MaxAssets = 1
    MaxIdentities = 1
    Window = 1
    NoData = NoData
    Churning = Churning
PROPERTIES
    UpdatesResume
    PollsReturn
