SPECIFICATION Spec
CONSTANTS
    MinimumFree = 2
    MaskedWords = 2
    GenerationWords = 3
    IndexWords = 5
    MaxDestroys = 11
INVARIANTS
    OneOwnerPerIndex
    AliveTellsOwners
PROPERTY ReuseIsDelayed
\* The indices and the destroys run out.
CHECK_DEADLOCK FALSE
