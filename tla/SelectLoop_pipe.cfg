\* Frames in pieces, and several of them in one read, from peers that connect
\* again and again.
CONSTANTS
    MAX_CLIENTS = 2
    MAX_GAMES   = 1
    GameIds     = {g1}
    Fds         = {1, 2, 3}
    Peers       = {p1, p2}
    Bodies      = {"SHIPS", "OTHER"}
    MaxLine     = 3
    MaxDials    = 0
SPECIFICATION LoopSpec
SYMMETRY LoopSymmetry
INVARIANTS
    BuffersMatchClients
    NoCrossTalk
PROPERTIES
    LoopCallsHandlers
