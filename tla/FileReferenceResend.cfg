SPECIFICATION FileSpec
CONSTANTS
    MaxWriter = 1
    MaxLog = 3
    FileCommand = {f1}
    Sender = {h1, h2}
    Fingerprint = {"f"}
INVARIANT FileReferenceDeliveredOnce
CHECK_DEADLOCK FALSE
