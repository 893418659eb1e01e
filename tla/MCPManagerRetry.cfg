\* Violation run: a restart that fails is never tried again.
CONSTANTS
    NServers = 1
    MaxRestarts = 2
    LostCancel = TRUE
SPECIFICATION FairSpec
CHECK_DEADLOCK FALSE
PROPERTY
    FailedRestartIsRetried
