\* One scan at a time over an address with one chain and one with three.
SPECIFICATION Spec
CONSTANTS
    Procs = {p1}
    Imports = {i1}
    MaxId = 2
    MaxRuns = 2
    BatchSize = 2
    MaxCount = 0
    Answers = {"zero", "positive", "error"}
    TypeOf <- EvmLast
INVARIANTS CompletedRunsSettled
PROPERTIES CleanupOnlyConfirmedEmpty
