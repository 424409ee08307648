SPECIFICATION Spec
CONSTANTS
    MaxRecords = 3
    MaxBatch = 2
    MaxBytes = 3
    MaxAge = 0
    Rooms = {0, 9}
    Times = {1, 2}
    StepBack = FALSE
    Faults = {"write", "crash", "nospool", "unlink"}
    ChanCap = 1
    BatchSize = 2
    MaxBody = 3
    Big = {3}
    LoomMax = 1
    MemMax = 3
    Posts = {"fail", "replyLost", "reject"}
    Stops = TRUE
INVARIANTS Accounted NoLostWakeup
