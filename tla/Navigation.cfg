SPECIFICATION Spec
CONSTANTS
    Gateway = Gateway
    Commanders = {c1, c2}
    None = None
    ActQueueLen = 4
    SvcQueueLen = 1
    EvQueueLen = 2
    XMax = 2
INVARIANTS
    TypeOK
    OneMoveInFlight
    TickingIffManual
    MoveNeverBlocksActivity
PROPERTIES
    ManualEndsByHalt
    ImplementsMoveCycle
    MoveCompletes
    CallbackReturns
