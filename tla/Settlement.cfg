\* One token paid with over and over, one earned; a queue that is soon full.
SPECIFICATION FairSpec
CONSTANTS
    s = s
    t = t
    Tokens = {s, t}
    NoToken = NoToken
    Accepted = {s}
    Dust = {}
    Earners = {"faucet"}
    QueueLen = 1
    MaxEntered = 5
INVARIANTS
    NothingLost
PROPERTIES
    EverySubmissionEnds
