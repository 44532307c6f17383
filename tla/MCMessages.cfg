SPECIFICATION MessagesSpec
CONSTANTS
    Parts = {"sbd", "feed", "route", "decode"}
    SbdSlots = 2
    SbdCap = 5
    SbdTimeout = 1
    Senders = {"u", d, e}
    DirOf <- Dirs
    Counts = {0, 1, 3}
    Sizes = {2}
    MaxMessages = 2
    SbdMaxTime = 3
    SbdInFlight = 2
    BeamSlots = 2
    BeamWindow = 2
    Word = 1000
    RingSlots = 3
    MaxListed = 2
    Dedup = 1
    MaxAircraft = 2
    MaxSatellites = 1
    MaxFixes = 2
    LongAgo = 3
    MinGap = 0
    TopSpeed = 2
    NoPos = NoPos
    NoReg = NoReg
    Regs = {r1, r2, r3}
    InDatabase = {r1, r2, r3}
    Places = {1, 4}
    OptionSets <- TwoOptionSets
    Satellites = {0, 1, 2}
    Traffics <- TwoTraffics
    Late = 2
    Ahead = 1
    MaxFrames = 4
    Somewhere = place
    Burst = {0, 5, 9, 14, 30}
    WeakLists <- ThreeWeakLists
    Payloads = {62, 75, 124, 150, 180, 186, 248, 310, 372, 380, 409, 434}
    FrameLens = {0, 69, 70, 95, 96, 134, 160, 262, 400, 736, 800, 864}
SYMMETRY Symmetry
INVARIANTS
    
    
    
    DecodersAreRight
    
    WholeSbdMessages
    PlausibleSbdMessages
    
    UniqueWordTellsDirection
CHECK_DEADLOCK FALSE
