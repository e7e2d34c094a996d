SPECIFICATION FairSpec
CONSTANTS
    Ports = {p1, p2}
    InRange = {p1, p2}
    Clients = {c1}
    MaxRestarts = 1
    NoPort = NoPort
INVARIANTS
    TypeOK
    NoDeadEntry
    DisabledHasNoEntry
PROPERTIES
    MapFollowsConfig
