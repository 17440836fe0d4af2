CONSTANTS
    Operations = {"add", "mul", "wait"}
    Resources = {"in", "out", "unit"}
    MaxLatency = 3
    Usage <- MCUsage
    CyclesFail = TRUE
SPECIFICATION Spec
INVARIANTS
    TypeOK
    TableIsExact
    DCMIsExact
    AutomatonRaisesNoFalseAlarm
    AutomatonRecovers
    VectorRaisesNoFalseAlarm
