SPECIFICATION ProgressSpec
CONSTANTS
    Command = {c1}
    Adapter = {a1}
    Handler = {h1}
    Modes = {FALSE}
    MaxAccepted = 1
    Recorded = {}
    Publisher = {p1, p2}
    Viewer = {v1}
    MaxSeq = 2
    MaxBatch = 1
    MaxBuffered = 1
    MaxTokens = 2
    Paths = {}
    MaxRestarts = 1
    EventCap = 1
    Deadline = 2
    MaxAttaches = 2
    MaxHubRestarts = 1
    NItems = 2
    MaxBytes = 2
    MaxPending = 3
    MaxLinks = 2
    Commands = {"c1"}
    AcceptLimit = 1
    MaxAttempts = 2
    MaxPings = 0
    MaxSends = 1
    LaunchAttempts = 2
    FirstID = 3
    LaunchWants <- ModelLaunches
    ChangeWants <- ModelChanges
    MaxOwn = 0
    MaxChanges = 1
    MaxDrops = 1
VIEW ProgressView
CHECK_DEADLOCK FALSE
INVARIANT
    ReceivedHasOwner
PROPERTIES
    NothingWaitsForever
