SPECIFICATION HubSpec
CONSTANTS
    Command = {c1}
    Adapter = {a1, a2}
    Handler = {h1, h2}
    Modes = {FALSE, TRUE}
    MaxAccepted = 1
    Recorded = {"accepted"}
    Publisher = {h1, h2}
    Viewer = {v1}
    MaxSeq = 3
    MaxBatch = 2
    MaxBuffered = 2
    MaxTokens = 3
    Paths = {"recover", "fence", "afterCommit", "receipt", "file"}
SYMMETRY HubSymmetry
VIEW HubView
INVARIANTS
    HubTypeOK
    AtMostOnce
    OneEventPerCommand
    AcceptedIsCompleted
    GatedReplay
    SentFromLog
    OnePublisher
