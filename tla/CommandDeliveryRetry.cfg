SPECIFICATION Spec
CONSTANTS
    Command = {c1}
    Adapter = {a1}
    Handler = {h1}
    Modes = {TRUE}
    MaxAccepted = 1
    Recorded = {"persist_failed", "duplicate"}
PROPERTY RetryIsDuplicate
