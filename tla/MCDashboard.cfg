SPECIFICATION FairSpec
CONSTANTS
    Ports = {p1, p2}
    Loads = {l1, l2}
    Dialogs = {"phone"}
    Buttons = {"reconnect"}
    NoPort = NoPort
    MaxRevision = 2
    MaxEvents = 1
    MaxRequests = 2
INVARIANTS
    RowsFollow
    DrawerAgrees
PROPERTIES
    PollingConverges
