\* Up to two networks, two attempts at each, two events waiting.  Four clients,
\* a firewall of three entries, a DNS list of three.
SPECIFICATION MCSpec
CONSTANTS
    a = a
    b = b
    c = c
    d = d
    IP = {a, b, c, d}
    NoIP = NoIP
    MaxFw = 3
    MaxAuth = 3
    MaxNetworks = 2
    MaxRetry = 2
    MaxEvents = 2
INVARIANTS
    NoDuplicates
    NotStuck
PROPERTIES
    ImplementsSets
    EventsHandled
    FindsNetwork
    LowRenewed
CHECK_DEADLOCK FALSE
