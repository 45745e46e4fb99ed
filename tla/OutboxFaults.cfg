\* Two rows and two workers under fair scheduling; no symmetry: a leads-to property is checked.
SPECIFICATION FairSpec
CONSTANTS
    Events = {e1, e2}
    Workers = {w1, w2}
    LeaseTicks = 1
    BackoffCap = 3
    BackoffExponent = 2
    MaxTasks = 2
    FaultKinds = {"lost", "reject", "ambiguous", "crash", "slow"}
    MaxFaults = 2
INVARIANTS
    NewestAttemptOwnsRow
    DuplicatesNeedFaults
    ExclusiveDelivery
PROPERTIES
    DeliveredIsFinal
    ImplementsOutbox
    EventuallyDelivered
