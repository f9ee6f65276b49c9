\* Two players and a longer match, from every operation to its return.
CONSTANTS
    MAX_CLIENTS = 2
    MAX_GAMES   = 1
    GameIds     = {g1}
    Fds         = {f1, f2}
    Peers       = {p1, p2}
    MaxMoves    = 3
    MaxRetries  = 1
SPECIFICATION FairSystem
INVARIANTS
    ViewsAgree
PROPERTIES
    CallsReturn
