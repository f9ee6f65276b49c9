------------------------------ MODULE Framing -------------------------------
(***************************************************************************)
(* The bytes of one connection to the server: a peer that may write        *)
(* anything, reads that return any part of what has arrived, the           *)
(* ClientBuffer they are appended to, and the frames that                  *)
(* process_client_buffer (server_c/server.c) cuts from it.                 *)
(*                                                                         *)
(* SelectLoop takes a frame for two items; here are the byte counts behind *)
(* that: the buffer never overflows, always has room for another read, and *)
(* how the bytes were cut into reads makes no difference.                  *)
(*                                                                         *)
(* data holds what cb->data has below cb->len.  Handlers never free the    *)
(* buffer (SelectLoop), so that return is left out, and the connection is  *)
(* one the game does not end.                                              *)
(* A definition marked "fault" is explained in GameServer.                 *)
(***************************************************************************)
EXTENDS Bytes

CONSTANT MaxBytes           \* bound: bytes the peer writes
ASSUME FramingAssumption == MaxBytes \in Nat

SmallBuf      == PROTO_MAX_FRAME        \* fault: no room for the length
READ_BUF_SIZE == PROTO_MAX_FRAME + 8

VARIABLES stream,   \* history: what the peer has written
          hung,     \* the peer has closed its end
          taken,    \* how much of it the server has read
          data,     \* the buffer
          frames,   \* history: what server_handle_client_message was called with
          pc        \* "select", "process", or "closed"

vars == <<stream, hung, taken, data, frames, pc>>

Init == /\ stream = <<>> /\ hung = FALSE
        /\ taken = 0
        /\ data = <<>>
        /\ frames = <<>>
        /\ pc = "select"
-----------------------------------------------------------------------------
Write == /\ ~hung /\ Len(stream) < MaxBytes
         /\ \E b \in Byte : stream' = Append(stream, b)
         /\ UNCHANGED <<hung, taken, data, frames, pc>>

HangUp == /\ ~hung
          /\ hung' = TRUE
          /\ UNCHANGED <<stream, taken, data, frames, pc>>

Room == READ_BUF_SIZE - Len(data)
Arrived == Len(stream) - taken

ReadTooMuch ==                          \* fault: READ_BUF_SIZE bytes at cb->len
    /\ pc = "select" /\ Room > 0
    /\ \E n \in 1 .. READ_BUF_SIZE :
          /\ n <= Arrived
          /\ data' = data \o SubSeq(stream, taken + 1, taken + n)
          /\ taken' = taken + n
    /\ pc' = "process"
    /\ UNCHANGED <<stream, hung, frames>>

Read == /\ pc = "select" /\ Room > 0
        /\ \E n \in 1 .. Room :
              /\ n <= Arrived
              /\ data' = data \o SubSeq(stream, taken + 1, taken + n)
              /\ taken' = taken + n
        /\ pc' = "process"
        /\ UNCHANGED <<stream, hung, frames>>

(* The buffer is full, or read returns 0.                                  *)
GiveUp == \/ Arrived > 0 /\ Room <= 0
          \/ Arrived = 0 /\ hung
ReadEnds == /\ pc = "select" /\ GiveUp
            /\ pc' = "closed"
            /\ UNCHANGED <<stream, hung, taken, data, frames>>

Headed == pc = "process" /\ Len(data) >= 4
Whole  == Headed /\ ~Illegal(Total(data)) /\ Len(data) >= 4 + Total(data)

Handed(t) == frames' = Append(frames, SubSeq(data, 5, 4 + t))
FrameShort ==                           \* fault: the length's own bytes stay
    /\ Whole
    /\ Handed(Total(data))
    /\ data' = SubSeq(data, Total(data) + 1, Len(data))
    /\ UNCHANGED <<stream, hung, taken, pc>>

FrameOnce ==                            \* fault: if instead of while
    /\ Whole
    /\ Handed(Total(data))
    /\ data' = SubSeq(data, 5 + Total(data), Len(data))
    /\ pc' = "select"
    /\ UNCHANGED <<stream, hung, taken>>

FrameUnmoved ==                         \* fault: the rest is not moved down
    /\ Whole
    /\ Handed(Total(data))
    /\ data' = SubSeq(data, 1, Len(data) - 4 - Total(data))
    /\ UNCHANGED <<stream, hung, taken, pc>>

OneFrame == /\ Whole
            /\ Handed(Total(data))
            /\ data' = SubSeq(data, 5 + Total(data), Len(data))
            /\ UNCHANGED <<stream, hung, taken, pc>>

BadLength == /\ Headed /\ Illegal(Total(data))
             /\ pc' = "closed"
             /\ UNCHANGED <<stream, hung, taken, data, frames>>

NoFrame == /\ pc = "process"
           /\ Len(data) >= 4 => /\ ~Illegal(Total(data))
                                /\ Len(data) < 4 + Total(data)
           /\ pc' = "select"
           /\ UNCHANGED <<stream, hung, taken, data, frames>>

Server == Read \/ ReadEnds \/ OneFrame \/ BadLength \/ NoFrame

Next == Write \/ HangUp \/ Server

Spec == Init /\ [][Next]_vars

(* The loop comes back to the connection (SelectLoop, ClientsAreRead).     *)
FairFraming == Spec /\ WF_vars(Server)
-----------------------------------------------------------------------------
(* The variables have their types, and cb->len is within cb->data.         *)
FramingTypeOK ==
    /\ stream \in Seq(Byte) /\ hung \in BOOLEAN
    /\ taken \in 0 .. Len(stream)
    /\ data \in Seq(Byte) /\ Len(data) <= READ_BUF_SIZE
    /\ pc \in {"select", "process", "closed"}

(* There is always room when the server comes to read: a client is never   *)
(* disconnected because its buffer is full (server.c:117), and read is     *)
(* never asked for 0 bytes, which would look like the end.                 *)
RoomToRead == pc = "select" => Room > 0

(* The buffer holds the last of the bytes taken from the connection, in    *)
(* their order: moving the rest down (server.c:106) loses and repeats      *)
(* none, so a frame is always bytes the peer wrote one after another.      *)
BufferIsTail ==
    /\ Len(data) <= taken
    /\ data = SubSeq(stream, taken - Len(data) + 1, taken)

(* The frames of a sequence of bytes, by a definition that knows of no     *)
(* reads and no buffer: up to an illegal length or an incomplete frame.    *)
FramesOf(s) ==
    LET from[i \in 1 .. Len(s) + 1] ==
            LET rest == SubSeq(s, i, Len(s))
            IN  IF \/ Len(rest) < 4 \/ Illegal(Total(rest))
                   \/ Len(rest) < 4 + Total(rest)
                THEN <<>>
                ELSE <<SubSeq(rest, 5, 4 + Total(rest))>> \o from[i + 4 + Total(rest)]
    IN  from[1]

(* However the bytes were cut into reads, the server has handed over just  *)
(* the frames that have arrived whole.                                     *)
Reassembled == pc # "process" => frames = FramesOf(SubSeq(stream, 1, taken))

(* Every frame the peer has written whole is handed over at last.  A frame *)
(* takes at least five bytes.                                              *)
Delivered == \A k \in 1 .. MaxBytes \div 5 :
                Len(FramesOf(stream)) >= k ~> Len(frames) >= k
=============================================================================
