\* One token, paid with twice.
SPECIFICATION FairSpec
CONSTANTS
    s = s
    Tokens = {s}
    NoToken = NoToken
    Accepted = {s}
    Dust = {}
    Earners = {}
    QueueLen = 1
    MaxEntered = 2
PROPERTIES
    OldTokenIsUseless
