SPECIFICATION FairSpec
CONSTANTS
    None = None
    A = A
    Tokens = {A}
    OptionSets <- WellFormedOptions
INVARIANT TypeOK
INVARIANT WayIn
PROPERTY ConsumedStaysConsumed
PROPERTY NoNewSecret
PROPERTY KeyStable
PROPERTY HubComesUp
\* A calm add-on with its Hub running has no step left.
CHECK_DEADLOCK FALSE
