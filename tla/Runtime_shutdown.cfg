SPECIFICATION RuntimeSpec
CONSTANTS
    Keys = {k1}
    Values = {v1}
    Null = Null
    MaxTasks = 1
INVARIANT SessionClosed
CHECK_DEADLOCK FALSE
