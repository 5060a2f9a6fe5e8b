SPECIFICATION Spec
CONSTANTS
    p1 = p1
    p2 = p2
    None = None
    Absent = Absent
    Empty = Empty
    Short = Short
    Procs = {p1, p2}
    Versions = {1, 2}
    PinOf <- MCPin
    Keeps = {0, 1}
    KeyFiles <- MCKeyFiles
    Documents <- MCDocuments
    Released <- MCReleased
    Signatures <- MCSignatures
    Times = {1, 3}
    MaxCrashes = 2
INVARIANTS
    Authentic
    PinStays
    BlockedByARemoval
    PruneLeavesSome
