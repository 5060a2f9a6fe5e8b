SPECIFICATION FairSpec
CONSTANTS
    PipeCap = 1
    MaxLines = 1
    None = None
PROPERTY
    AlwaysEnds
