SPECIFICATION Spec
CONSTANTS
    Workers = {w1, w2}
    Modes = {"file", "live", "net"}
    RecvTimeout = TRUE
    Cap <- One
    MaxBuffers = 2
    MaxBursts = 2
    MaxSignals = 1
SYMMETRY Symmetry
INVARIANTS
    BuffersAreOwned
    NothingLeftBehind
CHECK_DEADLOCK FALSE
