\* Violation run: a fallback after a tool turn sends the other shape's history.
CONSTANTS
    primary = primary
    backup = backup
    Candidates <- MCCandidates
    Shape <- MCShape
    RetryAttempts = 1
    MaxIterations = 3
    MaxCalls = 2
    LostCancel = TRUE
SPECIFICATION Spec
CHECK_DEADLOCK FALSE
INVARIANT
    HistoryFitsProvider
