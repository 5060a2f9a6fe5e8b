SPECIFICATION Spec
CONSTANTS
    r1 = r1
    r2 = r2
    r3 = r3
    None = None
    Runs <- MCRuns
    ProviderOf <- MCProviderOf
    ProcOf <- MCProcOf
    MaxMeddles = 1
INVARIANTS
    ToldHolds
    WorkDoneOnce
PROPERTIES
    NeverHalfWritten
