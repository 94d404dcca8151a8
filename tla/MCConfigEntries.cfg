SPECIFICATION Spec
CONSTANTS
    None = None
    Entries = {e1, e2}
    Flows = {f1, f2}
    Hosts = {h1, h2}
    MaxEdits = 2
SYMMETRY Symmetry
INVARIANT TypeOK
INVARIANT ServiceFollowsEntries
INVARIANT ClientIsCurrent
INVARIANT ActionsReachTheirHub
\* With all entries loaded, or none stored, and no edits left nothing happens.
CHECK_DEADLOCK FALSE
