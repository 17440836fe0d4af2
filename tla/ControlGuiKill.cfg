SPECIFICATION GuiSpec
CONSTANTS
    Commands = {"run"}
    MaxCount = 1
    HasTimeout = TRUE
PROPERTY KillEndsSimulation
