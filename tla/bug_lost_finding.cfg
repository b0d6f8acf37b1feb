\* A crash between the closing of a retry and the saving of its balance.
SPECIFICATION Spec
CONSTANTS
    Procs = {p1}
    NItems = 1
    NEvents = 2
    Balances = {1}
    BatchSize = 1
    Reopens = 0
    NIncidents = 0
    Crashes = TRUE
INVARIANTS ClosedPositivesSaved
