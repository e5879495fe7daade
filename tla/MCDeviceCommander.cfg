\* Two threads command one device that may act late, drop commands or be switched by hand.
CONSTANTS
    Threads = {t1, t2}
    Values = {on, off}
    Unknown = Unknown
    BlankReads = {off}
    OperationRetries = 2
    VerifyRetries = 2
    FailThreshold = 2
    Backoff = 1
    MaxQueue = 1
    LogMayFail = TRUE
SYMMETRY Symmetry
SPECIFICATION Spec
INVARIANTS FloodBounded StatusSettles
PROPERTIES OutcomeTruthful FallbackNeverSkipped
