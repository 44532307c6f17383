SPECIFICATION Spec
CONSTANTS
    NSlots = 2
    CtrMod = 8
    Window = 2
    Tolerance = 1
    DataCap = 3
    Lengths = {1, 2}
    Channels <- One
    Drift = {0}
    MaxParts = 3
    MaxTime = 4
    InFlight = 2
    Faults = {FALSE}
INVARIANT CompleteMessages
CHECK_DEADLOCK FALSE
