\* Two scans and two imports: shared and overlapping runs, late commits.
SPECIFICATION Spec
CONSTANTS
    Procs = {p1, p2}
    Imports = {i1, i2}
    MaxId = 2
    MaxRuns = 2
    BatchSize = 1
    MaxCount = 0
    Answers = {"zero", "invalid_address"}
    TypeOf <- BtcOnly
SYMMETRY Symmetry
INVARIANTS OnTimeAddressesSettled SchemaChecksHold
PROPERTIES CleanupSparesUnscanned
