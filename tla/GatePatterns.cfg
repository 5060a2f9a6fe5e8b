SPECIFICATION Spec
CONSTANTS
    Nil = Nil
    Drivers <- MCDrivers
    Requests <- MCRequests
    Parents <- MCParents
CHECK_DEADLOCK FALSE
INVARIANT
    EveryEntryReadAsWritten
