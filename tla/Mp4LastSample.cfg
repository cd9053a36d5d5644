\* As MCMediaFiles.cfg; the last sample of a complete file is not given.
CONSTANTS
    Kinds <- MCKinds
    Steps = {0, 1, 3}
    MaxSamples = 4
    Layouts <- MCLayouts
    Sizes <- MCSizes
    BufSize = 5
    CutSamples = 2
    Modulus = 16
    TagKinds <- MCTagKinds
    Starts = {0, 5}
    TagSteps = {3, 8}
    MaxTags = 2
    AnyType = {"audio"}
    AnySize = {0, 2}
    AnyTime = {0, 90}
    TimeMod = 256
    Plans <- MCPlans
    Epoch = 300
    MaxClock = 500
    Delays = {0, 1}
    Pulse = 1
    Jitter = 6
    SeiPeriod = 3
    SleepMod = 32
    RawBuffers <- MCRawBuffers
    MaxWrites = 3
SPECIFICATION MediaSpec
INVARIANT GivesEverySample
CHECK_DEADLOCK FALSE
