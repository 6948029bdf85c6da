SPECIFICATION ConsoleSpec
CONSTANTS
    Readers = {activity}
    Service = service
    Free = Free
    QueueLen = 1
    MaxInputs = 2
    Activity = activity
    ActQueueLen = 1
    LineMax = 2
INVARIANT ConsoleTypeOK
PROPERTIES
    ImplementsLatestValue
    InputTakesEffect
    HaltStops
    HaltKept
    StickFollowed
