SPECIFICATION ProcessSpec
CONSTANTS
    MaxRestarts = 1
    EventCap = 1
    Root = r
    Descendants = {d1, d2}
    MaxTracked = 2
    MaxVersion = 6
    NItems = 2
    MaxBytes = 2
    MaxPending = 2
    MaxLinks = 3
    Commands = {"c1"}
    AcceptLimit = 1
    MaxAttempts = 2
    MaxPings = 1
    MaxSends = 2
VIEW ProcessView
CHECK_DEADLOCK FALSE
INVARIANTS
    ProcessTypeOK
    OutputDelivered
    WrapperKeepsWord
PROPERTIES
    WorkerAnswersForEffects
    OwnershipIsHonest
