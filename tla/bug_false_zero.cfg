\* A TRON node reports an error in a 2xx answer.
SPECIFICATION Spec
CONSTANTS
    ChainNames = {"ethereum", "tron"}
    Generate = TRUE
    Kinds = {"positive", "zero", "rpc_error"}
    Afters = {}
    Requests <- TRONRequests
    MaxConcurrency = 2
    Initial = 2
    MinSamples = 3
    TargetLatency = 1
    Latencies = {0}
CHECK_DEADLOCK FALSE
INVARIANTS NoFalseZero
