SPECIFICATION FairSpec
CONSTANTS
    Command = {c1}
    Adapter = {a1, a2}
    Handler = {h1}
    Modes = {FALSE}
    MaxAccepted = 1
    Recorded = {}
PROPERTY ReceivedIsResolved
