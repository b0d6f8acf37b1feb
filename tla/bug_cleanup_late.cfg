\* Two imports: a cleanup deletes an address that was never scanned.
SPECIFICATION Spec
CONSTANTS
    Procs = {p1}
    Imports = {i1, i2}
    MaxId = 3
    MaxRuns = 1
    BatchSize = 1
    MaxCount = 0
    Answers = {"zero", "positive", "error", "invalid_address"}
    TypeOf <- BtcOnly
PROPERTIES CleanupOnlyConfirmedEmpty
