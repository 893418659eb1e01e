\* Two kills, so that a start is cut short and so is the next, and one removal of
\* files between them.
CONSTANTS
    None = None
    Torn = Torn
    MaxEnds = 2
    MaxRemovals = 1
SPECIFICATION FairSpec
INVARIANTS
    IdentityHolds
PROPERTIES
    ComesUp
