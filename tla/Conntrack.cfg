SPECIFICATION FairSpec
CONSTANTS
    Flows <- MCFlows
    OrigDst <- MCOrigDst
    Mixed = {"m"}
    SeqMod = 3
    MaxCalls = 5
PROPERTIES AnswerIsOwn CallsReturn
CHECK_DEADLOCK FALSE
