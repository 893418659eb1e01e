\* A run ends, so the system stops.
\* Two candidates, one retry each, two tool calls per turn, three iterations:
\* a run can fall back in the middle and still have turns on both models.
CONSTANTS
    primary = primary
    backup = backup
    Candidates <- MCCandidates
    Shape <- MCShape
    RetryAttempts = 1
    MaxIterations = 3
    MaxCalls = 2
    LostCancel = TRUE
SPECIFICATION FairSpec
CHECK_DEADLOCK FALSE
INVARIANTS
    RequestBudget
    RequestsSeeAllResults
    OrphansOnlyAfterFailedTask
    StatusTruthful
PROPERTIES
    NoFlapping
    RunEnds
