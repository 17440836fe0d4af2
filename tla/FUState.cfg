SPECIFICATION FUSpec
CONSTANTS
    add = add
    mul = mul
    move = move
    Ops <- MCOps
    ExecList <- MCExecList
    Latency <- MCLatency
    Immediate = {move}
    Detecting = {mul}
    Values = {v1, v2}
    NoResult = NoResult
    NoOperation = NoOperation
    ContextIsEmpty = TRUE
    MaxActive = 4
INVARIANTS TypeOK ActiveCoversLive IdleMeansDrained
PROPERTY ImplementsPipelines
