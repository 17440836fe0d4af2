SPECIFICATION FairSpec
CONSTANTS
    Commands = {"run", "until", "step", "next"}
    MaxCount = 2
    HasTimeout = TRUE
INVARIANTS TypeOK TimeoutReasonIsTrue StopIsExplained StopIsHonoured
PROPERTY StopEndsCommand
