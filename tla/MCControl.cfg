\* Two listeners, two requests of five, up to two networks; two mints.
SPECIFICATION MCSpec
CONSTANTS
    Requests <- MCRequests
    Listeners = {1, 2}
    MaxStored = 2
    MaxNets = 2
    Mints = {1, 2}
    Primary = 1
    Threshold = 3
INVARIANTS
    Durable
    ReachableEarned
PROPERTIES
    ListensAgain
    OffersFollow
CHECK_DEADLOCK FALSE
