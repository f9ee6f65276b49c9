\* Frames of five or six bytes, a buffer of ten, bits for bytes.  A connection
\* that is closed, or whose peer writes no more, stands still.
CONSTANTS
    Base = 2
    PROTO_MAX_FRAME = 2
    MaxBytes = 12
SPECIFICATION FairFraming
CHECK_DEADLOCK FALSE
INVARIANTS
    FramingTypeOK
    RoomToRead
    BufferIsTail
    Reassembled
PROPERTIES
    Delivered
