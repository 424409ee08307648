SPECIFICATION SpoolSpec
CONSTANTS
    MaxRecords = 4
    MaxBatch = 3
    MaxBytes = 5
    MaxAge = 1
    Rooms = {1, 9}
    Times = {1, 2, 3, 4}
    StepBack = FALSE
    Faults = {"write", "crash", "damage"}
INVARIANTS SpoolInv IndexAgrees PostingOrder
PROPERTIES ImplementsDurableQueue PutContract DropsOldestFirst
