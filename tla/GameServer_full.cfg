\* Is a full game table full of games that somebody is in?
CONSTANTS
    MAX_CLIENTS = 2
    MAX_GAMES   = 1
    GameIds     = {g1}
    Fds         = {f1, f2}
SPECIFICATION Spec
INVARIANTS
    FullTableIsUsed
