SPECIFICATION FairSpec
CONSTANTS
    a = a
    b = b
    c = c
    d = d
    e = e
    Messages = {a, b, c, d, e}
    Thread <- MCThread
    Text <- MCText
    At <- MCAt
    Earlier = {a, b}
    Window = 2
    PageSize = 2
    MaxRows = 2
    Filters <- MCFilters
    Loads = {l1, l2}
    MaxAnnounced = 4
    MaxEvents = 2
    MaxSaving = 2
INVARIANTS
    LiveAsGrouped
PROPERTIES
    FeedConverges
