\* The smallest instance that shows what starts a reauthentication flow.
SPECIFICATION Spec
CONSTANTS
    Assets = {a1}
    Polls = {p1}
    MaxAssets = 1
    MaxIdentities = 1
    Window = 1
    NoData = NoData
    Churning = Churning
PROPERTIES
    ReauthOnlyForRejectedKey
