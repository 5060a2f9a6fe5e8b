SPECIFICATION FairSpec
CONSTANTS
    PipeCap = 2
    MaxLines = 3
    None = None
INVARIANTS
    TypeOK
    ReapedOnce
    NoAnswerLost
    OnlyItsOwnDeathIsBlamed
PROPERTIES
    KeepsContract
    OverdueEnds
    AbandonedEnds
