SPECIFICATION FairSpec
CONSTANTS
    Runs = {r1}
    ApiThreads = {q1, q2}
    Workers = {w1}
    MaxAsked = 2
    MaxKills = 1
    Null = null
    Keys = {k1, k2}
    Wallets = {alice, bob}
    KnownWallets = {alice}
    Listeners = {l1, l2}
    MaxPublished = 2
    MaxCrashes = 1
INVARIANTS ExecutionsAccounted RowMatchesArtifacts RowsAreIntents
PROPERTIES RunsSettle ReceivedIsRecorded
CHECK_DEADLOCK FALSE
