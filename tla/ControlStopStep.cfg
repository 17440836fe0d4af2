SPECIFICATION Spec
CONSTANTS
    Commands = {"step"}
    MaxCount = 2
    HasTimeout = FALSE
INVARIANT StopIsAlwaysHonoured
