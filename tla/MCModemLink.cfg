SPECIFICATION FairSpec
CONSTANTS
    HealthChecks = {h1, h2}
    Connect = connect
    Slots = {s1, s2}
    NoPort = NoPort
INVARIANTS
    TypeOK
    NeverStranded
    WatchedIffOnline
    OpenedHandleHeld
    OneOpening
    NoLostCommand
PROPERTIES
    StoppedStaysDown
    ConnectReturns
    ImplementsMonitor
