SPECIFICATION Spec
CONSTANT MAXIMUM_RETRY = 10
CHECK_DEADLOCK FALSE
INVARIANTS
    TypeOK
    GivesUpLate
    StartedBeforeUse
PROPERTY BootEnds
