\* Two turns, tried again and again, compete for one place; three faults.
\* No symmetry: a leads-to property is checked.
\* TTL > TaskLimit + 2*Skew, the assumption of ActiveTheorem.
CONSTANTS
    Turns = {t1, t2}
    Limit = 1
    TTL = 5
    TaskLimit = 2
    Skew = 1
    FaultKinds = {"redis", "broker", "crash"}
    MaxFaults = 3
    MaxLeaving = 2
SPECIFICATION FairSpec
INVARIANTS WithinLimit ActiveWithinLimit
PROPERTIES PlacesComeBack
