SPECIFICATION Spec
CONSTANTS
    Turns = {t1}
    Workers = {w1, w2}
    Limit = 1
    MaxAttempts = 2
    FaultKinds = {"crash"}
    MaxFaults = 1
SYMMETRY WorkerSymmetry
PROPERTY FinishedIsFinal
