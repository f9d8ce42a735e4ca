\* Three jobs on two interfaces, with every way out of execute.c.
SPECIFICATION FairSpec
CONSTANTS
    Says <- Answers
    Kernels <- AnyKernel
    Timeouts <- SomeTimeouts
    TicksPerSecond = 2
    MillisPerTick = 2
    IntMax = 7
    MaxFds = 4
    SpawnFails = TRUE
    Lingers = TRUE
    Faulty <- MayFail
    Variables <- SomeVariables
    Installed <- SomeInstalled
    Jobs <- SomeJobs
    Addon = TRUE
    MaxJobs = 3
INVARIANTS
    TypeOK
    InTimeHonoured
    HeardInOnePiece
PROPERTIES
    KeepsPhasePromise
    OnlySilenceBlocks
