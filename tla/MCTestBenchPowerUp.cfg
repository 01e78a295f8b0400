SPECIFICATION Spec
CONSTANTS
    None = None
    Words <- MCWords
    LineWords = 2
    Configs <- MCConfigs
    WordBits = 2
    ErrorSegments <- MCErrorSegments
    AmoFifoDepth = 2
    LrscPowerUp <- MCLrscError
    ReadIds = {"r1"}
    WriteIds = {"w1", "w2"}
    UcId = "uc"
    MemIds = {"r1", "w1", "w2", "uc"}
    Pending = 2
    WriteReqDepth = 3
    RespDepth = 2
    SegWords <- MCSegWords
    Kinds = {"random"}
    OpsDrawn = {"LOAD", "STORE", "LR", "SC"}
    Data = {1}
    Lengths <- MCLengths
    MaxTransId = 2
INVARIANT NoFalseError
