SPECIFICATION Spec
CONSTANTS
    NSlots = 2
    CtrMod = 2
    Window = 2
    Tolerance = 1
    DataCap = 2
    Lengths = {1}
    Channels <- Two
    Drift = {0, 1}
    MaxParts = 3
    MaxTime = 4
    InFlight = 2
    Faults = {TRUE, FALSE}
INVARIANTS
    WholeMessages
    OnlyPlausibleMessages
CHECK_DEADLOCK FALSE
