SPECIFICATION Spec
CONSTANTS
    Peers = {p1, p2}
    Nobody = Nobody
    Frames <- SampleFrames
    Decoders <- BootDecoders
    Routes <- BootRoutes
    Tasks <- BootTasks
    QueueLen <- OneEach
    MaxPayload = 2
    Window <- Windows
INVARIANTS
    TypeOK
    InSync
PROPERTIES
    ImplementsFrameChannel
    SessionEnds
