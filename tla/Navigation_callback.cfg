SPECIFICATION Spec
CONSTANTS
    Gateway = Gateway
    Commanders = {c1}
    None = None
    ActQueueLen = 2
    SvcQueueLen = 1
    EvQueueLen = 2
    XMax = 2
INVARIANT CallbackNeverBlocks
