\* Two connections and two slots, subscriptions by kind and by author, one of an
\* id that is kept cut, a queue of one.
SPECIFICATION Spec
CONSTANTS
    Fds = {f1, f2}
    SubIds = {"s", "s+"}
    Cut <- MCCut
    Events <- MCEvents
    Blank <- MCBlank
    Authors = {"a", "b", "short"}
    Short = "short"
    Filters <- MCFilters
    MaxConns = 2
    MaxPerConn = 2
    MaxSubs = 2
    MaxBuckets = 2
    EventLimit = 1
    ReqLimit = 1
    MaxStore = 2
    MaxWork = 1
INVARIANTS
    SubsAreConnected
    NothingStray
    NothingForgotten
SYMMETRY MCSymmetry
CHECK_DEADLOCK FALSE
