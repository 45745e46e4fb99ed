SPECIFICATION PolledSpec
CONSTANTS
    Turns = {t1}
    Workers = {w1, w2}
    Limit = 1
    MaxAttempts = 1
    FaultKinds = {"crash", "database", "ambiguous", "slow", "delay"}
    MaxFaults = 1
INVARIANTS AnswerIffCompleted DoneMeansAnswer SingleWriter
PROPERTIES TurnsEnd
