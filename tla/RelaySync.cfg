\* Two relays of which one has NIP-77; two failures make one dead.
SPECIFICATION SyncFairSpec
CONSTANTS
    N = 2
    Nip77 = {2}
    MaxFailures = 2
INVARIANTS
    SelectionUsable
PROPERTIES
    FindsTheRelay
CHECK_DEADLOCK FALSE
