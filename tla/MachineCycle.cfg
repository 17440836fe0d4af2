CONSTANTS
    FirstAddress = 0
    LastAddress = 2
    MAUSize = 1
    MaxAccess = 4
    WordModulus = 4
    LongModulus = 8
    GuardLatency = 2
    ImmRegs = {"i"}
    ImmLatency = 2
    TimerModulus = 3
    Regs = {"g", "r"}
    GuardReg = "g"
    Values = {0, 1}
    Instructions <- MCInstructions
    Image <- MCImage
    UserData <- MCUserData
    MaxPending = 1
    ImmReg = "i"
    NoResult = NoResult
SPECIFICATION Spec
INVARIANTS
    TypeOK
    InstructionIsParallel
    GuardIsDelayed
    ImmediatesOnTime
PROPERTIES
    StoresReadBack
    IsDelayLine
