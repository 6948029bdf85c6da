SPECIFICATION TickSpec
CONSTANTS
    Modulus = 8
    Intervals = {2, 4}
    Capacity = 2
    MaxBusy = 3
INVARIANTS
    TickTypeOK
    NeverLate
PROPERTY NeverEarly
