SPECIFICATION FairSpec
CONSTANTS
    Callers = {c1, c2}
    Versions = {v1, v2, v3}
    Pinned = {v1, v2}
    None = None
PROPERTIES
    GivingUpReturns
    AbandonedStops
