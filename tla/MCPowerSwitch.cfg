SPECIFICATION FairSpec
CONSTANTS
    None = None
    Pending = 2
    MaxCalls = 2
    MaxJobs = 2
INVARIANT TypeOK
INVARIANT ShowsAskedUntilReported
PROPERTY SettlesOnTruth
