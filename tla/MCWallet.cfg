\* One wallet, four proofs' names; the API's server, the ContextVM and the main
\* loop with its payout; factors that two recipients take above one.
SPECIFICATION MCSpec
CONSTANTS
    p1 = p1
    p2 = p2
    p3 = p3
    p4 = p4
    Proofs = {p1, p2, p3, p4}
    LastSlot = 0
    Tasks = {"api", "cvm", "main"}
    Overflow = 1
    Recipients = 2
    Factors = {60}
    MinPayout = 2
    MinBalance = 2
    FeePct = 10
    Width = 16
SYMMETRY Symmetry
INVARIANTS
    HandedOutOnce
    ReserveKept
PROPERTIES
    Accounted
CHECK_DEADLOCK FALSE
