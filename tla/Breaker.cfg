\* Three request threads; no symmetry: a temporal property is checked.
SPECIFICATION FairSpec
CONSTANTS
    Threads = {t1, t2, t3}
    FailureThreshold = 3
    RecoveryTimeout = 2
INVARIANTS TrippedIffAtThreshold
PROPERTIES FailedProbeReopens OpenIsLeft
