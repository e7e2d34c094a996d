SPECIFICATION Spec
CONSTANTS
    NULL = NULL
    single = single
    triple = triple
    ends = ends
    splits = splits
    wide = wide
    wider = wider
    other = other
    Messages = {single, triple, ends, splits, wide, wider, other}
    OwnNumber <- MCOwnNumber
    Sender <- MCSender
    Body <- MCBody
    SentAt <- MCSentAt
    References = {7, 255}
    Slots = 3
    MaxSent = 2
    MaxStray = 1
INVARIANTS
    WholeAgain
    FitsOneSms
