SPECIFICATION EndsSpec
CONSTANTS
    MaxSockets = 2
    MaxSeq = 2
    MaxSends = 2
    SkipThreshold = 1
    LaneCap = 2
    Tasks = {"s1"}
    MaxConcurrent = 1
    RestartLimit = 1
    MaxStarts = 2
    Backends = {b1, b2}
    MaxTx = 2
    Workspaces = {"w1"}
    Targets = {"t1", "t2"}
    MaxEpochs = 1
    MaxLeaseVersion = 4
VIEW EndsView
CHECK_DEADLOCK FALSE
INVARIANTS
    EndsTypeOK
PROPERTIES
    ClientLosesNothing
    DispatchIsExclusive
    TransactionsHold
    WorkspaceIsExclusive
