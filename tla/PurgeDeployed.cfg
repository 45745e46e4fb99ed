\* The registry of migration 0015; nothing fails and nothing changes.
SPECIFICATION FairSpec
CONSTANTS
    Workers = {w1}
    ArchiveTicks = 2
    ConfirmTicks = 1
    ImpactTicks = 1
    StreamTicks = 2
    LeaseTicks = 1
    BlockerRows = {"job", "checkpoint"}
    MaxLife = 2
    FaultKinds = {}
    MaxFaults = 0
PROPERTIES PurgeCompletes
