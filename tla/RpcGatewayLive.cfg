\* Two connections and one permit: each may have to queue behind the other.
CONSTANTS
    Conn = {c1, c2}
    Key = {k1}
    MaxRuns = 1
    MaxBacklog = 1
    LostCancel = TRUE
SPECIFICATION FairSpec
PROPERTIES
    EveryRequestSettles
    DepartedHandlerEnds
