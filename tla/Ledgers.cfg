SPECIFICATION Spec
CONSTANTS
    MaxWriter = 2
    MaxLog = 4
    Setting = {s1}
    SettingsRequest <- ModelRequest
    Capability <- Readings
    StoreFails = TRUE
    Control = {r1}
    Supported = {{"interrupt", "stop"}, {"stop"}}
    FileCommand = {f1}
    Sender = {h1, h2}
    Fingerprint = {"f", "g"}
CHECK_DEADLOCK FALSE
INVARIANTS
    LedgersTypeOK
    SettingsOneTerminal
    AppliedIsReadBack
    RequestsEndWithWriter
    ControlOutcomeIsTrue
    PendingControlIsLive
    FileOutcomeIsTrue
    BoundFileIsLive
