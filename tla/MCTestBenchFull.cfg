SPECIFICATION Spec
CONSTANTS
    None = None
    Words <- MCWords
    LineWords = 2
    Configs <- MCConfigs
    WordBits = 2
    ErrorSegments <- MCErrorSegments
    AmoFifoDepth = 2
    LrscPowerUp <- MCLrscZero
    ReadIds = {"r1"}
    WriteIds = {"w1", "w2", "w3"}
    UcId = "uc"
    MemIds = {"r1", "w1", "w2", "w3", "uc"}
    Pending = 2
    WriteReqDepth = 1
    RespDepth = 2
    SegWords <- MCSegWords
    Kinds = {"write"}
    OpsDrawn = {"LOAD", "STORE", "LR", "ADD", "FLUSH_INVAL_NLINE"}
    Data = {1}
    Lengths <- MCThreeWrites
    MaxTransId = 2
INVARIANT WritesForwarded
