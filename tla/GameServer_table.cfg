\* The proportions of game.h: two client entries per game entry; one id more
\* than there are game entries, so that the table runs full.
CONSTANTS
    MAX_CLIENTS = 4
    MAX_GAMES   = 2
    GameIds     = {g1, g2, g3}
    Fds         = {f1, f2, f3, f4}
SPECIFICATION Spec
SYMMETRY Symmetry
INVARIANTS
    TypeOK
    SeatsConsistent
    OneGamePerId
    EngineMirrorsTable
    PhasesAgree
    EngineInStep
    DescriptorsExact
    SeatImpliesClientEntry
PROPERTIES
    GamesIsolated
    SessionsStable
    EndIsTold
    TurnIsBroadcast
    ImplementsMatches
