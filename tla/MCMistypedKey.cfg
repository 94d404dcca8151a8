SPECIFICATION Spec
CONSTANTS
    None = None
    A = A
    Tokens = {A}
    OptionSets <- MistypedKey
INVARIANT KeyIsOptional
\* A calm add-on with its Hub running has no step left.
CHECK_DEADLOCK FALSE
