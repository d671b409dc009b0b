SPECIFICATION Spec
CONSTANTS
    Rows = {r1}
    Users = {u1}
    Amounts = {1, 2}
    Requests = {c1, c2}
    Keepers = {k1, k2, k3}
    MockProcesses = {c2, k3}
    SweepTake = 2
    MaxCrashes = 1
    Null = Null
    MockHash = MockHash
SYMMETRY Symmetry
INVARIANTS TradesAccounted TradesWereConfirmed ConfirmedIsMined
CHECK_DEADLOCK FALSE
