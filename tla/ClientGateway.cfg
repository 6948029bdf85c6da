SPECIFICATION Spec
CONSTANTS
    Conns = {c1, c2}
    Nil = Nil
    Messages <- AllMessages
    Nothing = Nothing
    Encoders <- Registered
    QueueLen = 2
    MaxAddrs = 2
    WireMax = 5
INVARIANTS
    TypeOK
    InSync
    SocketsAccounted
PROPERTIES
    ImplementsOutboundLine
    Recovers
