\* Both metrics, a full table, eviction, wrap of the counter, restarts.
SPECIFICATION FairSpec
CONSTANTS
    a = a
    b = b
    IP = {a, b}
    NoIP = NoIP
    MaxFw = 1
    MaxAuth = 1
    MaxSessions = 1
    IntMax = 4
    TickWrap = 3
    Metrics = {"milliseconds", "bytes"}
    Allotments = {1}
    Traffic = {1}
    MaxAllot = 2
    MaxBytes = 1
    MaxLag = 1
INVARIANTS
    CountIsActive
    AccessIsOwed
    AuthAgrees
PROPERTIES
    PaidAccessKept
    NoEarlyCutoff
    SessionsEnd
