SPECIFICATION FairSpec
CONSTANTS
    Workers = {w1}
    Modes = {"file", "live", "net"}
    RecvTimeout = TRUE
    Cap <- One
    MaxBuffers = 2
    MaxBursts = 1
    MaxSignals = 1
PROPERTIES
    ShutdownCompletes
    InterruptEndsRun
CHECK_DEADLOCK FALSE
