SPECIFICATION Spec
CONSTANTS
    None = None
    Pending = 2
    MaxCalls = 1
    MaxJobs = 1
PROPERTY NeverFlipsBack
