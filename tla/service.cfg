\* Two chains, one slot: startup check, one command, signal and kill.
SPECIFICATION FairSpec
CONSTANTS
    ChainNames = {"ethereum", "solana"}
    Generate = TRUE
    Kinds = {"positive", "zero", "rpc_error", "rate_limited", "disconnected"}
    Afters = {1500}
    Requests <- CommandRequests
    MaxConcurrency = 1
    Initial = 1
    MinSamples = 3
    TargetLatency = 1
    Latencies = {0}
\* The process and the command both end.
CHECK_DEADLOCK FALSE
INVARIANTS TypeOK NoFalseZero AllResultsStored StartupUsesItsSlots HintsHonoured ExitMeansAllKnown
PROPERTIES ImplementsLimiter ImplementsInFlight StartupReturns CallersAnswered
