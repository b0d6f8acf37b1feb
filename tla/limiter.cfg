\* Two clients on one chain: slots, limits, calls that return, recovery.
SPECIFICATION FairSpec
CONSTANTS
    Clients = {k1, k2}
    ChainNames = {c1}
    MaxConcurrency = 3
    Initial = 2
    MinSamples = 2
    TargetLatency = 1
    Latencies = {1, 4}
INVARIANTS TypeOK SlotsAccounted NeverLockedOut
PROPERTIES AcquireReturns RecoversUnderLoad
