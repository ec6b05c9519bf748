SPECIFICATION FairSpec
CONSTANTS
    Recipients = {p1, p2}
    Senders = {s1, s2}
    MaxLifetime = 1
    IdModulus = 2
    MaxMessages = 3
    MaxTime = 1
    NoMessage = NoMessage
INVARIANTS
    TypeOK
    UniqueIDs
    NoEmptyMailbox
    GoneForGood
PROPERTIES
    ImplementsMailbox
    ExpiredIsPurged
