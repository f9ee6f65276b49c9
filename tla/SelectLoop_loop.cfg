\* More peers than client entries, so that connections are refused; peers say
\* who they are and give up after one connection.
CONSTANTS
    MAX_CLIENTS = 2
    MAX_GAMES   = 1
    GameIds     = {g1}
    Fds         = {1, 2, 3}
    Peers       = {p1, p2, p3}
    Bodies      = {"OTHER"}
    MaxLine     = 1
    MaxDials    = 1
SPECIFICATION PatientLoop
CHECK_DEADLOCK FALSE
INVARIANTS
    LoopTypeOK
    NoBlockingRead
PROPERTIES
    ClientsAreRead
