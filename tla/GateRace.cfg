\* Fewer slots than clients: sessions are evicted while the main loop runs.
SPECIFICATION Spec
CONSTANTS
    a = a
    b = b
    c = c
    IP = {a, b, c}
    NoIP = NoIP
    MaxFw = 3
    MaxAuth = 3
    MaxSessions = 2
    Allotment = 1
    MaxPayments = 3
INVARIANTS
    OneSessionPerClient
    AccessIsOwed
