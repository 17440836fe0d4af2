SPECIFICATION Spec
CONSTANTS
    quick = quick
    slow = slow
    Outputs <- MCOutputs
    OutLatency <- MCOutLatency
    Latency = 3
    Values = {v1}
    NoResult = NoResult
    NULL = NULL
    MaxFaults = 0
INVARIANT NoResultOfKilledRun
