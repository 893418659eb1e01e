\* Three interchangeable connections, two permits: the smallest instance in
\* which a request queues behind a granted waiter while a permit is free.
CONSTANTS
    Conn = {c1, c2, c3}
    Key = {k1}
    MaxRuns = 2
    MaxBacklog = 1
    LostCancel = TRUE
SYMMETRY Symmetry
SPECIFICATION Spec
INVARIANTS
    PermitConservation
    NoLostWakeup
    FifoGrants
    NoOrphanTask
    AuthBeforeRun
PROPERTIES
    NoOvertaking
    NoStartAfterDisconnect
    ImplementsAdmission
