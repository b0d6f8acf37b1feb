\* Two workers under fairness; one address has three chains, one of them
\* without a provider.
SPECIFICATION FairSpec
CONSTANTS
    Workers = {w1, w2}
    BatchLength = 4
    TypeOf <- EvmFirst
    Providers = {"btc", "ethereum", "bsc"}
    SemaphoreSize = 1
    MaxRetries = 1
    Threshold = 1
INVARIANTS TypeOK BatchContract UnhealthyPauses AtMostOneAlertPerEpisode
PROPERTIES BatchReturns
