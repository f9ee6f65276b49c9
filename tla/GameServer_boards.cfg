\* Does the engine's board of a player hold that player's ships?
CONSTANTS
    MAX_CLIENTS = 2
    MAX_GAMES   = 1
    GameIds     = {g1}
    Fds         = {f1, f2}
SPECIFICATION Spec
INVARIANTS
    BoardsMatchPlayers
