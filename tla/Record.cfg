SPECIFICATION Spec
CONSTANTS
    Sizes <- MCSizes
    ConnLens <- MCConnLens
    Varints <- MCVarints
    MaxQuestions = 2
    MaxRecords = 2
    MaxNameBytes = 8
    MaxTrailing = 2
    MaxEDNSOptions = 2
    Counts = {0, 1, 2, 3}
    Labels = {1, 4}
    Pointers = {0, 12, 20}
    DataLens = {0, 1, 15, 300}
    OptionLens = {0, 3}
    MaxHello = 80
    MaxParams = 3
    FieldLens = {0, 60}
    BlockLens = {0, 10, 28, 300}
    ExtLens = {1, 6, 14, 300}
    ParamForms <- MCParamForms
    Banners = {0, 7}
    PacketLens = {0, 1, 2, 26, 30, 300000}
    PadLens = {0, 4, 255}
    ListLens = {0, 1, 4}
    NameLists = 2
    MinQUICDatagram = 34
    HelloSizes <- MCHelloSizes
    TcpSizes = {3, 7, 30, 42}
    Texts <- MCTexts
INVARIANTS InBounds InitialsRead StaysInside RecordedOnce DocumentKeeps FingerprintStable
PROPERTIES WalkAdvances DecodingEnds
CHECK_DEADLOCK FALSE
