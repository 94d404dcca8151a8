\* Safety: two polls in flight at once, more assets than the budget.
SPECIFICATION Spec
CONSTANTS
    Assets = {a1, a2, a3}
    Polls = {p1, p2}
    MaxAssets = 1
    MaxIdentities = 2
    Window = 1
    NoData = NoData
    Churning = Churning
SYMMETRY Symmetry
CONSTRAINT HubKeepsChanging
INVARIANTS
    TypeOK
    IdentityBudget
    NoOrphanRequests
PROPERTIES
    RefusalIsHonest
    OnlyWholePollsPublish
    ImplementsPublisher
