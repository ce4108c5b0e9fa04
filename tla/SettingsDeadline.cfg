SPECIFICATION FairSettingsSpec
CONSTANTS
    MaxWriter = 2
    MaxLog = 4
    Setting = {s1}
    SettingsRequest <- ModelRequest
    Capability <- Readings
    StoreFails = FALSE
PROPERTY DeadlineFinalizes
CHECK_DEADLOCK FALSE
