SPECIFICATION FairSpec
CONSTANTS
    Ports = {p1, p2}
    Sims = {a}
    HealthChecks = {h1}
    Connect = connect
    NoSim = NoSim
INVARIANTS
    TypeOK
    ShownIsCompared
PROPERTIES
    IccidConverges
    HistoryConverges
