SPECIFICATION Spec
CONSTANTS
    Ports = {p1}
    Sims = {a, b}
    HealthChecks = {h1}
    Connect = connect
    NoSim = NoSim
PROPERTIES
    NoBogusChange
