-------------------------------- MODULE Codec -------------------------------
(***************************************************************************)
(* The payloads of common/protocol.c: what the proto_write_ functions put  *)
(* in a buffer and what the proto_read_ functions get out of one.  A       *)
(* function that may return false is two operators: Can... says when it    *)
(* returns true, the other what it has then written or read.               *)
(*                                                                         *)
(* A char * is the sequence of its characters, without the NUL.  A buffer  *)
(* is known by its capacity; a writer that fails has set no length, so     *)
(* what it left in the buffer is never looked at.                          *)
(* A definition marked "fault" is explained in GameServer.                 *)
(***************************************************************************)
EXTENDS Bytes

CONSTANTS PROTO_MAX_COORD,  \* 16
          SHIPS,            \* ships of a fleet, 4
          ShipsBuf          \* capacity of client_send_ships' buffer, 256

CoordBuf == PROTO_MAX_COORD + 4         \* client_send_move, notify_opponent_move
CoordOut == PROTO_MAX_COORD + 1         \* where a coordinate is read to

(* A coordinate is shorter than a byte can say, a fleet fits the buffer,   *)
(* and the longest extended result, with its length and the frame's type,  *)
(* is a frame.                                                             *)
ASSUME CodecAssumption ==
    /\ Base > 2 /\ Base % 2 = 0
    /\ PROTO_MAX_COORD \in 1 .. Base - 1
    /\ SHIPS \in Nat \ {0}
    /\ ShipsBuf \in Nat /\ ShipsBuf >= SHIPS * (PROTO_MAX_COORD + 3)
    /\ PROTO_MAX_FRAME >= Base * Base + 2

(* (uint8_t) of an int, (int8_t) of a byte, htons, htonl.                  *)
U8(n) == n % Base
Signed(b) == IF b < Base \div 2 THEN b ELSE b - Base
htons(n) == <<U8(n \div Base), U8(n)>>
htonl(n) == htons((n \div Base) \div Base) \o htons(n)

(* The C string at the beginning of s, which a NUL follows.                *)
CString(s) ==
    LET strlen == CHOOSE n \in 0 .. Len(s) :
                    /\ \A k \in 1 .. n : s[k] # 0
                    /\ n < Len(s) => s[n + 1] = 0
    IN  SubSeq(s, 1, strlen)

LegalCoordLen(n) == n \in 1 .. PROTO_MAX_COORD
-----------------------------------------------------------------------------
CanWriteCoord(cap, s) == LegalCoordLen(Len(s)) /\ 1 + Len(s) <= cap
proto_write_coord(s) == <<U8(Len(s))>> \o s

CanReadCoord(p, cap) == /\ Len(p) >= 1
                        /\ LegalCoordLen(p[1]) /\ Len(p) = 1 + p[1]
                        /\ p[1] + 1 <= cap
proto_read_coord(p) == SubSeq(p, 2, 1 + p[1])
-----------------------------------------------------------------------------
CanWriteOppMove(cap, s) == LegalCoordLen(Len(s)) /\ 2 + Len(s) <= cap
proto_write_opp_move(s, result) == proto_write_coord(s) \o <<U8(result)>>

CanReadOppMove(p, cap) == /\ Len(p) >= 2
                          /\ LegalCoordLen(p[1]) /\ Len(p) = 2 + p[1]
                          /\ p[1] + 1 <= cap
proto_read_opp_move(p) == [coordinate |-> SubSeq(p, 2, 1 + p[1]),
                           result     |-> Signed(p[2 + p[1]])]
-----------------------------------------------------------------------------
CanWriteExt(cap, data) == 2 + Len(data) <= cap
proto_write_ext_result(data) == htons(Len(data)) \o data

CanReadExt(p) == Len(p) >= 2 /\ 2 + p[1] * Base + p[2] = Len(p)
proto_read_ext_result(p) == SubSeq(p, 3, Len(p))
-----------------------------------------------------------------------------
Ship == [coordinate : Seq(Byte), length : Byte, direction : Byte]

(* One turn of the loop in proto_write_ships, with len bytes written.      *)
CanWriteShip(len, cap, s) == /\ LegalCoordLen(Len(s.coordinate))
                             /\ len + 1 + Len(s.coordinate) + 2 <= cap
WriteShipSwapped(s) ==                  \* fault: the order of the fields
    proto_write_coord(s.coordinate) \o <<U8(s.direction), s.length>>
WriteShip(s) == proto_write_coord(s.coordinate) \o <<s.length, U8(s.direction)>>

(* One turn of the loop in proto_read_ships, from the byte after pos.      *)
(* Behind the payload is whatever the buffer holds.                        *)
At(p, k) == IF k <= Len(p) THEN p[k] ELSE 0
CanReadShipShort(p, pos) ==             \* fault: length and direction not counted
    /\ pos + 1 <= Len(p)
    /\ LegalCoordLen(p[pos + 1]) /\ pos + 1 + p[pos + 1] <= Len(p)
CanReadShip(p, pos) ==
    /\ pos + 1 <= Len(p)
    /\ LegalCoordLen(p[pos + 1]) /\ pos + 1 + p[pos + 1] + 2 <= Len(p)
AfterShip(p, pos) == pos + p[pos + 1] + 3
ReadShip(p, pos) == [coordinate |-> SubSeq(p, pos + 2, pos + 1 + p[pos + 1]),
                     length     |-> At(p, AfterShip(p, pos) - 1),
                     direction  |-> At(p, AfterShip(p, pos))]
=============================================================================
