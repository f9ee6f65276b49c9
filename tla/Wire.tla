-------------------------------- MODULE Wire --------------------------------
(***************************************************************************)
(* A request and a reply on the wire.  The payload of a SHIPS or MOVE      *)
(* frame, written by the client library or by any other program, is read   *)
(* by handle_ships or handle_move (server_c/game.c); the server's reply    *)
(* goes to one client as a frame that write_exact sends in pieces and the  *)
(* library's blocked call reads in pieces with read_exact.                 *)
(*                                                                         *)
(* The payload reaches the handler as it was sent (Framing).  A move is    *)
(* followed to the mover or to the opponent: their connections have        *)
(* nothing in common.  What the engine says, and how the handler finds the *)
(* match, is chosen here (GameServer has both): a request may be refused,  *)
(* and a fleet wait for the rival's.                                       *)
(***************************************************************************)
EXTENDS Codec

CONSTANTS MSG_SHIPS_ACK, MSG_MOVE_RESULT, MSG_MOVE_EXT_RESULT, MSG_OPP_MOVE,
          MSG_SHIPS_FAIL, MSG_ERROR,
          Turns,            \* TurnResults of a turn that was taken
          ShipLengths, Directions,
          Letters,          \* bound: bytes of a coordinate from the library
          Octets,           \* bound: bytes of a payload not from the library
          MaxPayload        \* bound: length of a SHIPS payload not from the library

MsgType == <<MSG_SHIPS_ACK, MSG_MOVE_RESULT, MSG_MOVE_EXT_RESULT, MSG_OPP_MOVE,
             MSG_SHIPS_FAIL, MSG_ERROR>>
Refusals == {MSG_SHIPS_FAIL, MSG_ERROR}
Players == {1, 2}
Int8 == -(Base \div 2) .. Base \div 2 - 1
Invalid == -1
TurnResult == Turns \cup {Invalid}

ASSUME WireAssumption ==
    /\ \A i, j \in 1 .. 6 : MsgType[i] \in Byte /\ (i # j => MsgType[i] # MsgType[j])
    /\ Turns \subseteq Int8 \cap Nat
    /\ ShipLengths \subseteq Byte /\ Directions \subseteq Byte
    /\ Letters \subseteq Byte \ {0} /\ Octets \subseteq Byte
    /\ MaxPayload \in Nat

(* The arguments of callers, some of them too long; the data of an         *)
(* extended result, of any length.                                         *)
UpTo(n, S) == UNION {[1 .. k -> S] : k \in 0 .. n}
Strings  == UpTo(PROTO_MAX_COORD + 1, Letters)
Ships    == [coordinate : Strings, length : ShipLengths, direction : Directions]
ExtData  == {[k \in 1 .. n |-> U8(n + k)] : n \in 0 .. Base * Base - 1}

VARIABLES
    pc,         \* "call", "SHIPS", "MOVE", "noFleet", "noMove", "placed", "moved",
                \* "waiting" (for the rival's fleet), "answered"
    asked,      \* history: what the library's caller passed, if it was one
    payload,    \* of the request, at the server
    pos, read,  \* locals of proto_read_ships; what the handler has read so far
    told,       \* history: type and contents of the reply
    out,        \* buffers the server has still to write
    net,        \* bytes on the way to the client
    cut,        \* the connection has broken
    got,        \* what proto_read_frame has read
    rd          \* "reading", "returned", "failed"

request == <<asked, payload, pos, read>>
reply   == <<told, out, net, cut, got, rd>>
vars    == <<pc, request, reply>>

Init == /\ pc = "call" /\ asked = <<>> /\ payload = <<>> /\ pos = 0 /\ read = <<>>
        /\ told = [type |-> 0, value |-> <<>>]
        /\ out = <<>> /\ net = <<>> /\ cut = FALSE /\ got = <<>> /\ rd = "reading"
-----------------------------------------------------------------------------
(* Nothing is sent for arguments that do not fit; the call then returns.   *)
WriteNextShip == /\ pc = "call" /\ Len(asked) < SHIPS
                 /\ \E s \in Ships : /\ CanWriteShip(Len(payload), ShipsBuf, s)
                                     /\ payload' = payload \o WriteShip(s)
                                     /\ asked' = Append(asked, s)
                 /\ UNCHANGED <<pc, pos, read, reply>>
client_send_ships == /\ pc = "call" /\ Len(asked) = SHIPS
                     /\ pc' = "SHIPS"
                     /\ UNCHANGED <<request, reply>>

Sent(type, args, p) == /\ pc' = type /\ asked' = args /\ payload' = p
                       /\ UNCHANGED <<pos, read, reply>>
client_send_move == /\ pc = "call" /\ asked = <<>>
                    /\ \E s \in Strings : /\ CanWriteCoord(CoordBuf, s)
                                          /\ Sent("MOVE", s, proto_write_coord(s))

AnyProgram == /\ pc = "call" /\ asked = <<>>
              /\ \/ \E p \in UpTo(MaxPayload, Octets) : Sent("SHIPS", <<>>, p)
                 \/ \E p \in UpTo(CoordBuf, Octets) : Sent("MOVE", <<>>, p)
-----------------------------------------------------------------------------
(* A coordinate in read is the bytes stored; the NUL behind them is left out. *)
ParseShip == /\ pc = "SHIPS" /\ Len(read) < SHIPS
             /\ CanReadShip(payload, pos)
             /\ read' = Append(read, ReadShip(payload, pos))
             /\ pos' = AfterShip(payload, pos)
             /\ UNCHANGED <<pc, asked, payload, reply>>

AllSeen == TRUE                         \* fault: more bytes than ships
AllRead == pos = Len(payload)

ParseEnds == /\ pc = "SHIPS" /\ Len(read) = SHIPS
             /\ pc' = IF AllRead THEN "placed" ELSE "noFleet"
             /\ UNCHANGED <<request, reply>>

ParseMove == /\ pc = "MOVE" /\ CanReadCoord(payload, CoordOut)
             /\ read' = proto_read_coord(payload)
             /\ pc' = "moved"
             /\ UNCHANGED <<asked, payload, pos, reply>>

ParseFails == /\ \/ /\ pc = "SHIPS" /\ Len(read) < SHIPS
                    /\ ~CanReadShip(payload, pos)
                    /\ pc' = "noFleet"
                 \/ /\ pc = "MOVE" /\ ~CanReadCoord(payload, CoordOut)
                    /\ pc' = "noMove"
              /\ UNCHANGED <<request, reply>>
-----------------------------------------------------------------------------
Handled == asked' = <<>> /\ payload' = <<>> /\ pos' = 0 /\ read' = <<>>

(* proto_send_frame: the length, the type and the payload are three writes, *)
(* of which the third is left out for a frame that has no payload.         *)
Answer(type, value, p) ==
    /\ told' = [type |-> type, value |-> value]
    /\ out' = <<htonl(1 + Len(p)), <<type>>>> \o IF p = <<>> THEN <<>> ELSE <<p>>
    /\ pc' = "answered" /\ Handled
    /\ UNCHANGED <<net, cut, got, rd>>
Refuse(type) == Answer(type, <<>>, <<>>)
Ack(player) == Answer(MSG_SHIPS_ACK, <<player>>, <<player>>)

(* The phase of the match is looked at before the payload is; a payload    *)
(* that is none ends the game, and tells so.                               *)
OutOfPhase == /\ pc \in {"SHIPS", "MOVE"} /\ read = <<>>
              /\ Refuse(MSG_ERROR)
Malformed == pc \in {"noFleet", "noMove"} /\ Refuse(MSG_ERROR)

(* The rest of handle_ships: the engine may refuse the fleet; the server   *)
(* has received the fleets of some slots, not of both, or the match would  *)
(* be out of this phase.                                                   *)
PlaceShips ==
    /\ pc = "placed"
    /\ \/ Refuse(MSG_ERROR)
       \/ \E player \in Players, received \in SUBSET Players \ {Players} :
             \/ player \in received /\ Refuse(MSG_SHIPS_FAIL)
             \/ /\ player \notin received
                /\ received \cup {player} = Players /\ Ack(player)
             \/ /\ player \notin received /\ received \cup {player} # Players
                /\ pc' = "waiting" /\ Handled /\ UNCHANGED reply

(* handle_ships of the rival, whose fleet is the second; or the rival ends *)
(* the game, by a fleet that is refused or by leaving.                     *)
Rival == /\ pc = "waiting"
         /\ Refuse(MSG_ERROR) \/ \E player \in Players : Ack(player)

MoveResult == /\ pc = "moved"
              /\ \E r \in TurnResult : Answer(MSG_MOVE_RESULT, <<r>>, <<U8(r)>>)

MoveExtResult == /\ pc = "moved"
                 /\ \E data \in ExtData :
                       /\ CanWriteExt(PROTO_MAX_FRAME, data)
                       /\ Answer(MSG_MOVE_EXT_RESULT, data, proto_write_ext_result(data))

(* The engine and the opponent get the coordinate as a C string.           *)
notify_opponent_move ==
    /\ pc = "moved" /\ CanWriteOppMove(CoordBuf, CString(read))
    /\ \E r \in Turns :
          Answer(MSG_OPP_MOVE, <<r>> \o CString(read),
                 proto_write_opp_move(CString(read), r))
-----------------------------------------------------------------------------
WriteShort(n) ==                        \* fault: what write left is forgotten
    out' = Tail(out)
Rest(n) == out' = IF n = Len(out[1]) THEN Tail(out)
                  ELSE [out EXCEPT ![1] = SubSeq(@, n + 1, Len(@))]

write_exact == /\ out # <<>>
               /\ \E n \in 1 .. Len(out[1]) :
                     net' = net \o SubSeq(out[1], 1, n) /\ Rest(n)
               /\ UNCHANGED <<pc, request, told, cut, got, rd>>

(* The connection breaks: writing fails, and what was written may not arrive. *)
Break == /\ pc = "answered" /\ ~cut
         /\ cut' = TRUE /\ out' = <<>>
         /\ \E n \in 0 .. Len(net) : net' = SubSeq(net, 1, n)
         /\ UNCHANGED <<pc, request, told, got, rd>>

(* The bytes that the read_exact in proto_read_frame is still waiting for. *)
MissingWithLength ==                    \* fault: the type counted twice
    IF Len(got) < 4 THEN 4 - Len(got)
    ELSE IF Len(got) = 4 THEN 1 ELSE 5 + Total(got) - Len(got)
Missing == IF Len(got) < 4 THEN 4 - Len(got)
           ELSE IF Len(got) = 4 THEN 1 ELSE 4 + Total(got) - Len(got)
BadLength == Len(got) = 4 /\ Illegal(Total(got))

read_exact == /\ rd = "reading" /\ ~BadLength
              /\ \E n \in 1 .. Missing :
                    /\ n <= Len(net)
                    /\ got' = got \o SubSeq(net, 1, n)
                    /\ net' = SubSeq(net, n + 1, Len(net))
              /\ UNCHANGED <<pc, request, told, out, cut, rd>>

(* What the call that waits for this type makes of the frame; none waits   *)
(* for a refusal.                                                          *)
Understood(type, p) == \/ type \in {MSG_SHIPS_ACK, MSG_MOVE_RESULT} /\ Len(p) = 1
                       \/ type = MSG_OPP_MOVE /\ CanReadOppMove(p, CoordOut)
                       \/ type = MSG_MOVE_EXT_RESULT /\ CanReadExt(p)
Heard(type, p) ==
    CASE type = MSG_SHIPS_ACK       -> p
      [] type = MSG_MOVE_RESULT     -> <<Signed(p[1])>>
      [] type = MSG_MOVE_EXT_RESULT -> proto_read_ext_result(p)
      [] type = MSG_OPP_MOVE        ->
            LET move == proto_read_opp_move(p)
            IN  <<move.result>> \o CString(move.coordinate)
HeardPayload == SubSeq(got, 6, Len(got))

FrameRead == Len(got) > 4 /\ Missing = 0
Return == /\ rd = "reading" /\ FrameRead
          /\ rd' = IF got[5] = told.type /\ Understood(told.type, HeardPayload)
                   THEN "returned" ELSE "failed"
          /\ UNCHANGED <<pc, request, told, out, net, cut, got>>

ReadFails == /\ rd = "reading" /\ ~FrameRead
             /\ BadLength \/ (cut /\ net = <<>>)
             /\ rd' = "failed"
             /\ UNCHANGED <<pc, request, told, out, net, cut, got>>
-----------------------------------------------------------------------------
Caller == WriteNextShip \/ client_send_ships \/ client_send_move \/ AnyProgram
Server == \/ ParseShip \/ ParseEnds \/ ParseMove \/ ParseFails
          \/ OutOfPhase \/ Malformed \/ PlaceShips \/ MoveResult \/ MoveExtResult \/ notify_opponent_move
          \/ write_exact
Reader == read_exact \/ Return \/ ReadFails

Next == Caller \/ Server \/ Rival \/ Break \/ Reader
Spec == Init /\ [][Next]_vars

(* The server's thread and the caller's run; the network does not hold     *)
(* bytes back.  Nothing makes the rival send a fleet.                      *)
FairWire == Spec /\ WF_vars(Server) /\ WF_vars(Reader)
-----------------------------------------------------------------------------
(* The variables have their types, no byte is read behind the end of a     *)
(* payload, no coordinate is stored that its buffer does not hold with its *)
(* NUL (protocol.c:128), and no frame is read that is larger than the      *)
(* library's buffer (protocol.c:41).                                       *)
WireTypeOK ==
    /\ pc \in {"call", "SHIPS", "MOVE", "noFleet", "noMove", "placed", "moved",
              "waiting", "answered"}
    /\ payload \in Seq(Byte) /\ pos \in 0 .. Len(payload)
    /\ pc \in {"SHIPS", "placed"} =>
          /\ read \in Seq(Ship) /\ Len(read) <= SHIPS
          /\ \A k \in 1 .. Len(read) : Len(read[k].coordinate) < CoordOut
    /\ pc \in {"MOVE", "moved"} => read \in Seq(Byte) /\ Len(read) < CoordOut
    /\ \A k \in 1 .. Len(out) : out[k] \in Seq(Byte)
    /\ net \in Seq(Byte) /\ cut \in BOOLEAN
    /\ got \in Seq(Byte) /\ (Len(got) > 4 => Len(got) - 5 < PROTO_MAX_FRAME)
    /\ rd \in {"reading", "returned", "failed"}

(* n[k] is the length of the k-th coordinate: the payload is cut into      *)
(* ships, by a definition that does not read it from the left.             *)
CutInto(p, n) ==
    LET at[k \in 1 .. SHIPS + 1] == IF k = 1 THEN 1 ELSE at[k - 1] + n[k - 1] + 3
    IN  /\ at[SHIPS + 1] = Len(p) + 1
        /\ \A k \in 1 .. SHIPS : p[at[k]] = n[k]
IsFleet(p) == \E n \in [1 .. SHIPS -> 1 .. PROTO_MAX_COORD] : CutInto(p, n)

Encoded(ships) == LET from[k \in 1 .. SHIPS + 1] ==
                          IF k > SHIPS THEN <<>> ELSE WriteShip(ships[k]) \o from[k + 1]
                  IN  from[1]

(* The server takes exactly the payloads that are a fleet, without a byte  *)
(* too many, and has read the ships whose encoding they are.               *)
ShipsParsed == /\ pc = "placed" => IsFleet(payload) /\ Encoded(read) = payload
               /\ pc = "noFleet" => ~IsFleet(payload)

(* What a caller of the library asks for is read by the server as it was   *)
(* asked and never taken for malformed, and a fleet always fits the        *)
(* library's buffer: only a coordinate's own length keeps a request from   *)
(* being sent.                                                             *)
RequestUnaltered ==
    /\ asked # <<>> => /\ pc \notin {"noFleet", "noMove"}
                       /\ pc \in {"placed", "moved"} => read = asked
    /\ pc = "call" /\ Len(asked) < SHIPS =>
          \A s \in Ships : LegalCoordLen(Len(s.coordinate)) =>
                             CanWriteShip(Len(payload), ShipsBuf, s)

(* The call has read a whole refusal.                                      *)
Refused == /\ rd = "failed" /\ told.type \in Refusals
           /\ Len(got) = 5 /\ got[5] = told.type

(* A call of the library that returns a result returns what the server     *)
(* told, through int8_t, int and byte; it fails only when the server       *)
(* refused, all of which the client has read, or when the connection       *)
(* broke, although replies are written and read in pieces.                 *)
HeardIsTold ==
    /\ rd = "returned" => /\ told.type \notin Refusals
                          /\ Heard(told.type, HeardPayload) = told.value
    /\ rd = "failed" => cut \/ Refused

(* Every request that was read is answered and the answer is read, unless  *)
(* the connection breaks; only a fleet that was taken may be left without  *)
(* an answer, while the match waits for the rival's.  No reply is too      *)
(* large for the buffers it goes through, and no side waits for bytes the  *)
(* other does not send.                                                    *)
ReplyArrives ==
    pc \in {"noFleet", "noMove", "placed", "moved", "answered"}
        ~> pc = "waiting" \/ rd = "returned" \/ Refused \/ cut
=============================================================================
