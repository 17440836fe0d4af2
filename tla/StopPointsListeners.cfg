CONSTANTS
    Addresses = {0, 1}
    Values = {"old", "new"}
    Fails = "fails"
    Trackers <- MCTrackers
    MaxHandles = 2
    MaxIgnore = 1
    MaxCycles = 2
    MaxEdits = 3
SPECIFICATION Spec
INVARIANT InformsEveryListener
