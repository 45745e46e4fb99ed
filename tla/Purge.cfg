\* The registry as the tests of purge_services replace it: no rows of the purge itself.
SPECIFICATION Spec
CONSTANTS
    Workers = {w1, w2}
    ArchiveTicks = 2
    ConfirmTicks = 1
    ImpactTicks = 1
    StreamTicks = 2
    LeaseTicks = 1
    BlockerRows = {}
    MaxLife = 4
    FaultKinds = {"content", "owner", "blocker", "store", "crash", "slow"}
    MaxFaults = 3
SYMMETRY WorkerSymmetry
INVARIANTS DestructionIsAuthorised CompletedMeansWiped OnePurger
PROPERTIES PurgeIsIrrevocable ImplementsDeletion
