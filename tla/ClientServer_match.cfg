\* Three players for the two seats of one match: matches, crashes, rejoins.
CONSTANTS
    MAX_CLIENTS = 2
    MAX_GAMES   = 1
    GameIds     = {g1}
    Fds         = {f1, f2, f3}
    Peers       = {p1, p2, p3}
    MaxMoves    = 2
    MaxRetries  = 1
SPECIFICATION SystemSpec
SYMMETRY SystemSymmetry
INVARIANTS
    SystemTypeOK
    AnswersFit
    RequestsInPhase
    ShipsAckedTogether
    NobodyStuck
