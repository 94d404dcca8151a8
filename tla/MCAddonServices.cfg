SPECIFICATION Spec
CONSTANTS
    Grace = 10
    DrainLimit = 5
    HubWait = 6
    PostgresWait = 3
    MaxPairs = 2
INVARIANTS
    TypeOK
    StopFitsGrace
PROPERTIES
    HubStopsFirst
    RenewalKeepsServing
    FrontCatchesUp
    ConsoleComesUp
    ContainerStops
