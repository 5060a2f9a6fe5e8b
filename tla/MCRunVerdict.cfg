SPECIFICATION Spec
CONSTANTS
    None = None
    MaxLines = 3
    MaxInt = 999
    CodexLines <- MCCodexLines
    ClaudeLines <- MCClaudeLines
CHECK_DEADLOCK FALSE
INVARIANTS
    AnswersInShape
    BlockedIsRefused
    FailureSpeaks
    LastWord
    MainModel
