SPECIFICATION Spec
CONSTANTS
    Peers = {p1}
    Nobody = Nobody
    Frames <- SampleFrames
    Decoders <- BootDecoders
    Routes <- BootRoutes
    Tasks <- BootTasks
    QueueLen <- OneEach
    MaxPayload = 2
    Window <- Windows
INVARIANT FullQueueDrops
