\* A peer that connects and does not send its game id.
CONSTANTS
    MAX_CLIENTS = 2
    MAX_GAMES   = 1
    GameIds     = {g1}
    Fds         = {1, 2, 3}
    Peers       = {p1, p2}
    Bodies      = {"OTHER"}
    MaxLine     = 1
    MaxDials    = 1
SPECIFICATION FairLoop
CHECK_DEADLOCK FALSE
PROPERTIES
    ClientsAreRead
