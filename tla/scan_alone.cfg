\* One scan at a time, restarted after crashes and pauses, with one import.
SPECIFICATION FairSpec
CONSTANTS
    Procs = {p1}
    Imports = {i1}
    MaxId = 3
    MaxRuns = 3
    BatchSize = 2
    MaxCount = 3
    Answers = {"zero", "positive", "error"}
    TypeOf <- BtcOnly
INVARIANTS TypeOK CountedOnce CompletedAtEnd
PROPERTIES CheckpointMonotonic ScanReturns
