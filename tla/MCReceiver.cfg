SPECIFICATION ReceiverSpec
CONSTANTS
    Parts = {"detector", "doppler", "sbs", "web", "hub", "vita"}
    NBins = 8
    Fft = 2
    Width = 2
    DcHalf = 0
    Spectra <- SmallSpectra
    MaxBursts = 2
    Pre = 4
    Post = 6
    MaxLen = 6
    History = 2
    RingSize = 20
    BatchSize = 2
    BufLens = {3, 5}
    Modes = {"cpu", "gpu"}
    MaxSamples = 24
    MaxFails = 1
    Word = 1000
    MaxSats = 3
    PerSat = 3
    MaxAge = 3
    MinVelGap = 1
    MaxVelGap = 3
    GapReset = 3
    ShortGap = 2
    TopMove = 1
    ClusterDist = 3
    Ids = {3, 4}
    Spots = {1, 9}
    Tables <- SmallTables
    Fixes = {1, 9}
    MinMeas = 2
    MinSats = 2
    Sigma2 = 2
    Params = 1
    JumpDist = 3
    JumpLimit = 3
    Late = 1
    Ahead = 1
    MaxFrames = 3
    MaxSteps = 4
    Fds = {1, 2, 3, 4}
    MaxClients = 2
    SbsModes = {"server", "client"}
    MaxPeers = 4
    Requests = {q1, q2, q3}
    MaxSse = 2
    MaxEvents = 1
    MaxLines = 4
    Counts = 4
    Contexts <- SmallContexts
    Absent = Absent
    ExplicitSets <- SmallExplicitSets
    MaxSent = 10
INVARIANTS
    BurstsAreSound
    
    SolvesUseTheirOwn
    ClientTableIsExact
    ClientsAreServed
    SignalIsCovered
    
    RingsHoldOnePass
    
    LinesNeverMerge
    ConfiguredWhole
    GapsAreLosses
PROPERTIES
    BurstsAreHandedOn
    
CHECK_DEADLOCK FALSE
