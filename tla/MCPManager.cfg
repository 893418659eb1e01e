\* Two servers, so that one is restarted while the other is started or stopped,
\* and two restarts of each.  After stop_all nothing happens.
CONSTANTS
    NServers = 2
    MaxRestarts = 2
    LostCancel = TRUE
SPECIFICATION FairSpec
CHECK_DEADLOCK FALSE
INVARIANTS
    DispatchFresh
    NoProcessLost
    GaugeFollowsServers
PROPERTIES
    DeadServerHandled
    StopAllReturns
