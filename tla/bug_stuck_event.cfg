\* An event whose first delivery failed is never delivered once the queue is empty.
SPECIFICATION OperatedSpec
CONSTANTS
    Procs = {p1}
    NItems = 1
    NEvents = 2
    Balances = {1}
    BatchSize = 1
    Reopens = 0
    NIncidents = 0
    Crashes = FALSE
PROPERTIES EventsDelivered
