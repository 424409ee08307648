SPECIFICATION Spec
CONSTANTS
    Addrs <- MCAddrs
    SourceKeys <- MCSourceKeys
    SourceKey <- MCSourceKey
    Keys <- MCKeys
    Need <- MCNeed
    Datagrams <- LimitDatagrams
    MaxSources = 1
    Cost = 2
    Rate = 1
    Burst = 4
    Idle = 4
    FailuresBeforePause = 2
    CtPause = 3
    MaxPending = 1
    TableFactor = 2
    MaxCryptoBytes = 4
    MaxSegments = 3
    PendingTTL = 1
    CompletedTTL = 2
    IgnoreNets = {"ign"}
    GlobalRate = 1
    GlobalBurst = 1
    MaxReads = 4
    MaxPanics = 4
    Shuts = FALSE
INVARIANTS DatagramsAccounted FewTimeouts LimInv
