SPECIFICATION Spec
CONSTANTS
    Callers = {c1, c2, c3}
    Versions = {v1, v2, v3}
    Pinned = {v1, v2}
    None = None
SYMMETRY Symmetry
INVARIANTS
    TypeOK
    SingleFlight
    NoForeignCancellation
    JoinableIsAlive
PROPERTY
    OnlyItsOwnEntry
