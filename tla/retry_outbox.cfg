\* Two processes that may end at any statement: the retries and the outbox.
SPECIFICATION Spec
CONSTANTS
    Procs = {p1, p2}
    NItems = 1
    NEvents = 2
    Balances = {1, 2}
    BatchSize = 1
    Reopens = 0
    NIncidents = 2
    Crashes = TRUE
SYMMETRY Symmetry
INVARIANTS TypeOK NotifiedOfLatest OutagesReported OnlyAbandonedLost
