\* Two agents, two good texts and one of every other kind, two souls: enough for a
\* mix of two writes and for a broken neighbour.  One edit, two SIGHUPs, nested.
CONSTANTS
    NAgents = 2
    Target = {1}
    Good = {g1, g2}
    Unserved = {u}
    Skipped = {b, m}
    Misnamed = {m}
    Poison = {p}
    Soul = {s, empty}
    NoSoul = empty
    None = None
    Unknown = Unknown
    Pending = Pending
    MaxEdits = 1
    MaxHups = 2
    MaxNest = 2
SYMMETRY Texts
SPECIFICATION Spec
INVARIANTS
    AcknowledgedIsServed
    MixedOnlyIfDisturbed
    OnlyEditsBreakAgents
    ReloadsCatchUp
