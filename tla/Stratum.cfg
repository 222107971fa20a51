\* Two miners, the gateway's own, two slots, a table of two clients, a heap of two lines.
SPECIFICATION StratumFairSpec
CONSTANTS
    Miners = {m1, m2}
    Own = own
    MaxMiners = 2
    NJobs = 2
    Heap = 2
    MaxClients = 2
INVARIANTS
    BooksTrue
PROPERTIES
    QueueServed
    HearsJobs
    PoolAgain
CHECK_DEADLOCK FALSE
