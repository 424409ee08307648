SPECIFICATION FairSpec
CONSTANTS
    Addrs <- MCAddrs
    SourceKeys <- MCSourceKeys
    SourceKey <- MCSourceKey
    Keys <- MCKeys
    Need <- MCNeed
    Datagrams <- QuicDatagrams
    MaxSources = 2
    Cost = 2
    Rate = 9
    Burst = 9
    Idle = 1
    FailuresBeforePause = 2
    CtPause = 3
    MaxPending = 1
    TableFactor = 2
    MaxCryptoBytes = 4
    MaxSegments = 3
    PendingTTL = 1
    CompletedTTL = 2
    IgnoreNets = {"ign"}
    GlobalRate = 9
    GlobalBurst = 9
    MaxReads = 3
    MaxPanics = 1
    Shuts = TRUE
INVARIANTS DatagramsAccounted AssemblerSound AtMostOneLost
PROPERTIES OneRecordPerAttempt AttemptsRecorded
CHECK_DEADLOCK FALSE
