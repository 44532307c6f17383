SPECIFICATION FairSpec
CONSTANTS
    Workers = {w1}
    Modes = {"file"}
    RecvTimeout = TRUE
    Cap <- One
    MaxBuffers = 1
    MaxBursts = 1
    MaxSignals = 0
PROPERTY FileRunEnds
CHECK_DEADLOCK FALSE
