CONSTANTS
    MaxPuts = 2
    Transactions = {2}
    Queries = {q}
    OnDisconnects = {o}
    MaxWire = 2
    MaxStale = 1
    MaxLate = 1
    MaxFaults = 1
SPECIFICATION FairSpec
INVARIANTS TypeOK StatesAgree NeverStranded InterruptedIsOffline
    ConnectedMeansSent UnackedListensAwaited AnsweredOnce
PROPERTIES QueueSpec WritesDecided
