\* The portal's task, which also revokes all, the API's and the main loop's, three
\* clients.  A history ends where the table is no longer sound.
SPECIFICATION RaceSpec
CONSTANTS
    a = a
    b = b
    c = c
    portal = portal
    api = api
    loop = loop
    IP = {a, b, c}
    Blank = Blank
    MaxFw = 3
    MaxAuth = 3
    Granters = {portal, api}
    Revokers = {portal, api, loop}
    Resetters = {portal}
SYMMETRY Clients
INVARIANTS
    BystanderKept
CHECK_DEADLOCK FALSE
