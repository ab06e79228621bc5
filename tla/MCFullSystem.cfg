SPECIFICATION FullSpec
CONSTANTS
    NumOverrides = 2
    Threads = {t1, t2}
    Sites = {s1}
    MaxCalls = 3
    BucketCount = 3
    Width = 4
    MaxIntervals = 2
    Fractions <- MCFractions
    Rounding = 51
CHECK_DEADLOCK FALSE
INVARIANTS
    FullTypeOK
    NoTeardownUnderGuest
    SessionOutlivesCallback
    HandlersKeepRegisters
    WindowsPartitionIntervals
    QuantilesCover
PROPERTIES
    FailureEndsRun
    LaunchedRunEnds
    KeepsRunPromise
