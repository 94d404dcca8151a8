SPECIFICATION Spec
CONSTANTS
    None = None
    Entries = {e1}
    Flows = {f1, f2}
    Hosts = {h1, h2}
    MaxEdits = 3
SYMMETRY Symmetry
INVARIANT NeverContradicts
\* With all entries loaded, or none stored, and no edits left nothing happens.
CHECK_DEADLOCK FALSE
