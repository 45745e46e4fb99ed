SPECIFICATION Spec
CONSTANTS
    Turns = {t1, t2}
    Workers = {w1, w2}
    Limit = 2
    MaxAttempts = 1
    FaultKinds = {"crash", "store", "capacity", "database", "lease", "broker", "removal"}
    MaxFaults = 2
SYMMETRY TurnWorkerSymmetry
INVARIANTS OneAnswer NothingAfterTerminal
PROPERTIES FinishedIsFinal ImplementsContract
