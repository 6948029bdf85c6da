SPECIFICATION Spec
CONSTANTS
    Posters = {p1, p2}
    Buffers = {b1, b2}
    Values = {v1, v2}
    Null = Null
    Bare = Bare
    Nothing = Nothing
    QueueLen = 2
INVARIANTS
    TypeOK
    OwnedOnce
PROPERTIES
    ImplementsMailbox
    CallReturns
