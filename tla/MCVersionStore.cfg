SPECIFICATION Spec
CONSTANTS
    Procs = {p1, p2}
    Versions = {1, 2}
    PinOf <- SamePin
    Keeps = {0, 1}
    Lifetime = 1
    MaxTicks = 1
    MaxCrashes = 1
    None = None
SYMMETRY Symmetry
INVARIANTS
    TypeOK
    DamageHasACause
    PinStays
    BlockedOnlyByDebris
PROPERTIES
    LiveIsSpared
