\* One process at a time, under weak fairness, which may crash.
SPECIFICATION FairSpec
CONSTANTS
    Procs = {p1}
    NItems = 2
    NEvents = 2
    Balances = {1, 2}
    BatchSize = 1
    Reopens = 1
    NIncidents = 0
    Crashes = TRUE
INVARIANTS NotifiedOfLatest
PROPERTIES SentIsFinal RetryReturns
