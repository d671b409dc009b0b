SPECIFICATION IntakeSpec
CONSTANTS
    Keys = {k1, k2}
    Wallets = {alice}
    KnownWallets = {}
    Listeners = {l1}
    MaxPublished = 2
    MaxCrashes = 0
SYMMETRY Symmetry
INVARIANT HandledIsRecorded
CHECK_DEADLOCK FALSE
