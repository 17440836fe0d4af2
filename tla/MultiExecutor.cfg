SPECIFICATION Spec
CONSTANTS
    quick = quick
    slow = slow
    Outputs <- MCOutputs
    OutLatency <- MCOutLatency
    Latency = 3
    Values = {v1, v2}
    NoResult = NoResult
    NULL = NULL
    MaxFaults = 1
INVARIANTS TypeOK StartFindsFreeSlot StagesDistinct
PROPERTY ImplementsDelayLines
