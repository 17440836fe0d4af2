SPECIFICATION Spec
CONSTANTS
    AddressModulus = 8
    DelaySlots = 2
    ProgramSize = 5
    InitialPC = 0
    Machines = {{"JUMP", "CALL", "BZR"}, {"JUMP", "BZ", "HWLOOP"}}
    Operands = {0, 1, 3, 7}
    MaxIterations = 3
    NoOperation = NoOperation
    NoBody = NoBody
INVARIANTS TypeOK IdleMeansNoBranch LoopInBody
PROPERTY ImplementsDelayedBranch
