SPECIFICATION FairSpec
CONSTANTS
    Setup = setup
    Checks = {c1}
    long = long
    short = short
    Messages = {long, short}
    Parts <- MCParts
    NoJob = NoJob
    MaxOwed = 3
INVARIANTS
    TypeOK
    ActiveArmed
    SentIsAccepted
PROPERTIES
    SendsSettle
