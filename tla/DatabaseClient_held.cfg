CONSTANTS
    MaxPuts = 1
    Transactions = {}
    Queries = {q}
    OnDisconnects = {o}
    MaxWire = 2
    MaxStale = 1
    MaxLate = 1
    MaxFaults = 1
SPECIFICATION FairSpec
PROPERTY CommitIsReported
