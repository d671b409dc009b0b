SPECIFICATION FairSpec
CONSTANTS
    Rows = {r1, r2}
    Users = {u1, u2}
    Amounts = {1, 2}
    Requests = {c1}
    Keepers = {k1}
    MockProcesses = {}
    SweepTake = 2
    MaxCrashes = 0
    Null = Null
    MockHash = MockHash
INVARIANT AuditMatchesTrade
PROPERTIES SubmittedSettles ImplementsLifecycle
CHECK_DEADLOCK FALSE
