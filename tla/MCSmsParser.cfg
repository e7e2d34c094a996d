SPECIFICATION FairParserSpec
CONSTANTS
    m1 = m1
    m2 = m2
    s = s
    k1 = k1
    p1 = p1
    Ports = {p1}
    Messages = {m1, m2, s}
    Keys = {k1}
    Total <- MCTotal
    KeyOf <- MCKeyOf
    PortOf <- MCPortOf
    NoKey = NoKey
    NoText = NoText
    NoPart = NoPart
    Timeout = 2
    MaxRepeats = 1
INVARIANTS
    ParserTypeOK
    OneTimer
    NothingDropped
    WholeInTime
PROPERTIES
    GroupsEnd
