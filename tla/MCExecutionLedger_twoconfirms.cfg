SPECIFICATION Spec
CONSTANTS
    Rows = {r1}
    Users = {u1}
    Amounts = {1}
    Requests = {c1, c2}
    Keepers = {k1}
    MockProcesses = {}
    SweepTake = 1
    MaxCrashes = 0
    Null = Null
    MockHash = MockHash
INVARIANT AtMostOneTrade
CHECK_DEADLOCK FALSE
