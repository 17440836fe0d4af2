SPECIFICATION Spec
CONSTANTS
    Latency = 4
    Values = {v1, v2}
    NoResult = NoResult
    SizeMod = 8
    MaxThrows = 1
    MaxAborts = 2
INVARIANTS TypeOK CountCoversRing
PROPERTY ImplementsDelayLine
