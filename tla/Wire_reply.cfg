CONSTANTS
    Base = 6
    PROTO_MAX_COORD = 2
    PROTO_MAX_FRAME = 38
    SHIPS = 2
    ShipsBuf = 10
    MSG_SHIPS_ACK = 0
    MSG_MOVE_RESULT = 1
    MSG_MOVE_EXT_RESULT = 2
    MSG_OPP_MOVE = 3
    MSG_SHIPS_FAIL = 4
    MSG_ERROR = 5
    Turns = {0, 1}
    ShipLengths = {2, 3}
    Directions = {0, 1}
    Letters = {1, 2, 3}
    Octets = {0, 1, 2, 3}
    MaxPayload = 9
SPECIFICATION FairWire
CHECK_DEADLOCK FALSE
INVARIANTS
    WireTypeOK
    ShipsParsed
    RequestUnaltered
    HeardIsTold
PROPERTIES
    ReplyArrives
