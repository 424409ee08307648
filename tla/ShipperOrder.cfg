SPECIFICATION FairSpec
CONSTANTS
    MaxRecords = 4
    MaxBatch = 2
    MaxBytes = 9
    MaxAge = 0
    Rooms = {9}
    Times = {1, 2, 3}
    StepBack = FALSE
    Faults = {}
    ChanCap = 2
    BatchSize = 3
    MaxBody = 4
    Big = {4}
    LoomMax = 1
    MemMax = 3
    Posts = {"fail"}
    Stops = TRUE
INVARIANTS SentOnce
PROPERTIES DeliveredInOrder GivesUpOnlyOversized EverythingSettles ShutdownReturns
