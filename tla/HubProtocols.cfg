SPECIFICATION ProtocolSpec
CONSTANTS
    TTL = 3
    Lead = 1
    MaxClock = 5
    MaxIDs = 2
    MaxFaults = 1
    MaxRestarts = 1
    QueueCap = 2
    Deadline = 2
    MaxAttaches = 2
    MaxHubRestarts = 1
    LaunchAttempts = 2
    FirstID = 3
    LaunchWants <- ModelLaunches
    ChangeWants <- ModelChanges
    MaxOwn = 1
    MaxChanges = 1
    MaxDrops = 1
    GSessions = {s1, s2}
    GWorkspaces = {w1}
    WorkspaceOf <- OneWorkspace
    Sources = {x1}
    Callers = {c1, c2}
    MaxWorkers = 2
    MaxMembers = 2
    MultiWorker = TRUE
    NSessions = 2
    AppendedEvents <- ModelEvents
    LegacyLogs <- ModelLegacyLogs
    Grants <- ModelGrants
    MaxLog = 2
    MaxVersion = 1
    MaxTerm = 2
    MaxAttentionLinks = 2
    MaxAsks = 2
    PageLimit = 1
    Faults = TRUE
    Responses = {"approve", "deny"}
    Others = {"interrupt"}
    Requests = {"a request"}
    Elsewhere = {"another Session's request"}
    RequestOf <- ModelRequests
    BufferCap = 2
    CommandWindow = 1
    DecisionWindow = 1
    MaxRouted = 4
    MaxAdapters = 2
VIEW ProtocolView
CHECK_DEADLOCK FALSE
INVARIANTS
    ProtocolTypeOK
    ReportsAreTrue
    DecisionsAreFinal
PROPERTIES
    RotationIsSafe
    HandoffIsExact
    GroupIsConsistent
    AttentionIsTrue
