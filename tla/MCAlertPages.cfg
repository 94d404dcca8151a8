SPECIFICATION Spec
CONSTANTS
    Alerts <- AllAlerts
    PageSize = 2
    MaxInstances = 4
    MaxChanges = 3
INVARIANTS
    TypeOK
    LimitIsHonest
    StuckIsHonest
PROPERTIES
    ImplementsCount
    CountEnds
