---------------------------- MODULE ClientServer ----------------------------
(***************************************************************************)
(* The client library (client_c/client.c) and the server, joined by TCP    *)
(* connections.  Each operation of the library sends at most one request   *)
(* and then blocks until it has read one frame; what frame it is decides   *)
(* what the operation returns.  A call and its return are separate steps,  *)
(* so that the other players, the server and crashes come in between.      *)
(*                                                                         *)
(* The server is GameServer: a step of it is one handler, called with the  *)
(* oldest message of one connection.  (SelectLoop shows that the event     *)
(* loop calls the handlers in this way.)                                   *)
(*                                                                         *)
(* The program that calls the library is external.  It is one that makes   *)
(* the calls in the order of client.h and takes turns: it connects, waits  *)
(* for its opponent, places its ships, and then, as player 1, moves first. *)
(* It gives up when an operation fails, except that it may repeat an       *)
(* invalid move; and it may be killed at any time.                         *)
(*                                                                         *)
(* A definition marked "fault" is explained in GameServer.                 *)
(***************************************************************************)
EXTENDS GameServer

LOCAL INSTANCE SequencesExt

CONSTANTS Peers,        \* client objects (ClientImplementation) in use
          MaxMoves,     \* bound: moves a caller makes or awaits in a match
          MaxRetries    \* bound: invalid moves a caller repeats

ASSUME CallerAssumption == MaxMoves \in Nat /\ MaxRetries \in Nat

VARIABLES lib,          \* the client objects
          caller,       \* the programs that use them
          net,          \* the connections between them and the server
          due           \* history: the moves of each client's match

callers == <<lib, caller>>
system  == <<vars, callers, net, due>>

Operation == {"connect", "wait", "ships", "move", "move_ext", "receive"}

(* connected as in struct Client; call: the operation that is reading.     *)
(* game_id and ready are written but never read, and are left out.         *)
Lib == [connected : BOOLEAN, call : Operation \cup {"none"}]
client_init == [connected |-> FALSE, call |-> "none"]

Outcome == Players \X {"Miss", "Win"}

(* heard: the moves of the match as the library returned them.             *)
Caller == [stage : {"start", "joined", "ready", "mine", "theirs", "over"},
           player : Players \cup {0}, heard : Seq(Outcome), retries : 0 .. MaxRetries]
Newcomer == [stage |-> "start", player |-> 0, heard |-> <<>>, retries |-> 0]

(* fd: the server's descriptor once it has accepted; up, down: what is in  *)
(* flight; hung, eof: the client, the server has closed its end; rst: what *)
(* the client sent met a closed socket.                                    *)
Net == [fd : Fds \cup {NONE}, up : Seq(MsgType \cup GameIds), down : Seq(Frame),
        hung : BOOLEAN, eof : BOOLEAN, rst : BOOLEAN]
NoConnection == [fd |-> NONE, up |-> <<>>, down |-> <<>>,
                 hung |-> FALSE, eof |-> FALSE, rst |-> FALSE]

SystemInit ==
    /\ Init
    /\ lib = [p \in Peers |-> client_init]
    /\ caller = [p \in Peers |-> Newcomer]
    /\ net = [p \in Peers |-> NoConnection]
    /\ due = [p \in Peers |-> <<>>]
-----------------------------------------------------------------------------
(* Calls: the request is written, and the library starts to read.          *)

ServerRests == sent' = Silence /\ UNCHANGED <<tables, due>>

Idle(p) == lib[p].call = "none"
Reads(p, op) == lib' = [lib EXCEPT ![p].call = op] /\ UNCHANGED caller

Write(p, m) == net' = IF net[p].eof THEN [net EXCEPT ![p].rst = TRUE]
                      ELSE [net EXCEPT ![p].up = Append(@, m)]

client_connect(p) ==
    /\ caller[p].stage = "start"
    /\ Idle(p)
    /\ net[p] = NoConnection
    /\ \E id \in GameIds : Write(p, id)
    /\ Reads(p, "connect")

client_wait_for_opponent(p) ==
    /\ caller[p].stage = "joined"
    /\ Idle(p) /\ lib[p].connected
    /\ Reads(p, "wait")
    /\ UNCHANGED net

client_send_ships(p) ==
    /\ caller[p].stage = "ready"
    /\ Idle(p) /\ lib[p].connected
    /\ Write(p, "SHIPS")
    /\ Reads(p, "ships")

OnTurn(p) == /\ caller[p].stage = "mine"
             /\ Len(caller[p].heard) < MaxMoves
             /\ Idle(p) /\ lib[p].connected

client_send_move(p) == OnTurn(p) /\ Write(p, "MOVE") /\ Reads(p, "move")

client_send_move_extended(p) ==
    OnTurn(p) /\ Write(p, "MOVE_EXT") /\ Reads(p, "move_ext")

client_receive_move(p) ==
    /\ caller[p].stage = "theirs"
    /\ Len(caller[p].heard) < MaxMoves
    /\ Idle(p) /\ lib[p].connected
    /\ Reads(p, "receive")
    /\ UNCHANGED net

Call(p) == /\ \/ client_connect(p) \/ client_wait_for_opponent(p)
              \/ client_send_ships(p) \/ client_send_move(p)
              \/ client_send_move_extended(p) \/ client_receive_move(p)
           /\ ServerRests
-----------------------------------------------------------------------------
(* Returns: recv_frame delivers a frame, or fails at the end of the data.  *)

NoFrame == <<"NONE">>
recv_frame(p, m) ==
    \/ /\ net[p].down # <<>>
       /\ m = Head(net[p].down)
       /\ net' = [net EXCEPT ![p].down = Tail(@)]
    \/ /\ net[p].down = <<>> /\ net[p].eof
       /\ m = NoFrame
       /\ UNCHANGED net

Incoming(p) == {NoFrame} \cup {net[p].down[i] : i \in 1 .. Len(net[p].down)}

(* Closing takes what is in flight to the client along; what the server    *)
(* has not read yet may reach it or not.                                   *)
Hang(p) == IF net[p].eof THEN net' = [net EXCEPT ![p] = NoConnection]
           ELSE \E up \in {net[p].up, <<>>} :
                   net' = [net EXCEPT ![p].hung = TRUE, ![p].up = up, ![p].down = <<>>]

Returns(p, op) == lib[p].call = op
Done(p) == lib' = [lib EXCEPT ![p].call = "none"]
Stage(p, s) == caller' = [caller EXCEPT ![p].stage = s]

(* Any other answer than JOIN_OK closes the connection.                    *)
ConnectReturns(p) ==
    /\ Returns(p, "connect")
    /\ \/ /\ net[p].down # <<>> /\ Head(net[p].down) = <<"JOIN_OK">>
          /\ recv_frame(p, <<"JOIN_OK">>)
          /\ lib' = [lib EXCEPT ![p] = [connected |-> TRUE, call |-> "none"]]
          /\ Stage(p, "joined")
       \/ /\ IF net[p].down = <<>> THEN net[p].eof
             ELSE Head(net[p].down) # <<"JOIN_OK">>
          /\ Hang(p)
          /\ Done(p)
          /\ UNCHANGED caller

WaitUnread(p) ==                        \* fault: does not wait for READY
    /\ Returns(p, "wait")
    /\ Stage(p, "ready")
    /\ Done(p)
    /\ UNCHANGED net

WaitReturns(p) ==
    /\ Returns(p, "wait")
    /\ \E m \in Incoming(p) :
          /\ recv_frame(p, m)
          /\ Stage(p, IF m = <<"READY">> THEN "ready" ELSE "over")
    /\ Done(p)

ShipsReturn(p) ==
    /\ Returns(p, "ships")
    /\ \E m \in Incoming(p) :
          /\ recv_frame(p, m)
          /\ IF m[1] = "SHIPS_ACK"
             THEN caller' = [caller EXCEPT ![p].player = m[2],
                               ![p].stage = IF m[2] = 1 THEN "mine" ELSE "theirs"]
             ELSE Stage(p, "over")
    /\ Done(p)

(* The caller passes on a move that the library reported as made.          *)
Hear(p, player, result, next) ==
    caller' = [caller EXCEPT ![p].heard = Append(@, <<player, result>>),
                             ![p].stage = IF result = "Win" THEN "over" ELSE next,
                             ![p].retries = 0]

(* Invalid: an invalid move, or any failure.                               *)
Retry(p) == \/ Stage(p, "over")
            \/ /\ caller[p].retries < MaxRetries
               /\ caller' = [caller EXCEPT ![p].retries = @ + 1]

MoveReturns(p, op, answer) ==
    /\ Returns(p, op)
    /\ \E m \in Incoming(p) :
          /\ recv_frame(p, m)
          /\ IF m[1] = answer /\ m[2] # "Invalid"
             THEN Hear(p, caller[p].player, m[2], "theirs")
             ELSE Retry(p)
    /\ Done(p)

ReceiveReturns(p) ==
    /\ Returns(p, "receive")
    /\ \E m \in Incoming(p) :
          /\ recv_frame(p, m)
          /\ IF m[1] = "OPP_MOVE" /\ m[2] # "Invalid"
             THEN Hear(p, Opponent(caller[p].player), m[2], "mine")
             ELSE Stage(p, "over")
    /\ Done(p)

(* Writing to a connection the server has closed fails, or (above) comes   *)
(* to nothing.                                                             *)
WriteFails(p) ==
    /\ lib[p].call \in {"ships", "move", "move_ext"}
    /\ net[p].rst
    /\ IF lib[p].call = "ships" THEN Stage(p, "over") ELSE Retry(p)
    /\ Done(p)
    /\ UNCHANGED net

Return(p) == /\ \/ ConnectReturns(p) \/ WaitReturns(p) \/ ShipsReturn(p)
                \/ MoveReturns(p, "move", "MOVE_RESULT")
                \/ MoveReturns(p, "move_ext", "MOVE_EXT_RESULT")
                \/ ReceiveReturns(p) \/ WriteFails(p)
             /\ ServerRests

Forget(p) == /\ lib' = [lib EXCEPT ![p] = client_init]
             /\ caller' = [caller EXCEPT ![p] = Newcomer]
             /\ due' = [due EXCEPT ![p] = <<>>]

Gone(p) == Hang(p) /\ Forget(p) /\ sent' = Silence /\ UNCHANGED tables

MatchOver(p) == \/ caller[p].stage = "over"
                \/ Len(caller[p].heard) = MaxMoves

client_close(p) == Idle(p) /\ MatchOver(p) /\ Gone(p)

(* The calling program is killed, or leaves in the middle of a match.      *)
Crash(p) == lib[p] # client_init /\ Gone(p)

(* A reset discards what the client has not read.                          *)
Reset(p) == /\ net[p].rst /\ net[p].down # <<>>
            /\ net' = [net EXCEPT ![p].down = <<>>]
            /\ ServerRests
            /\ UNCHANGED callers
-----------------------------------------------------------------------------
(* The server hears the oldest message of p's connection, or its end.      *)

ClientOf(p) == CHOOSE ci \in ActiveClients : clients[ci].fd = net[p].fd

(* After a handler: n is net with the message taken.  A connection that is *)
(* closed from both ends is gone.                                          *)
Closed(c) == IF c.hung THEN NoConnection
             ELSE [c EXCEPT !.fd = NONE, !.eof = TRUE, !.rst = c.up # <<>>, !.up = <<>>]

Deliver(n) ==
    net' = [q \in Peers |->
              IF n[q].fd = NONE THEN n[q]
              ELSE LET c == IF n[q].hung THEN n[q]
                            ELSE [n[q] EXCEPT !.down = @ \o sent'[n[q].fd]]
                   IN  IF n[q].fd \in open' THEN c ELSE Closed(c)]

Taken(p) == [net EXCEPT ![p].up = Tail(@)]

(* What the step did to the match of client ci: the turn passed, or the    *)
(* player on turn won.                                                     *)
Made(ci) ==
    LET id == clients[ci].game_id
        mover == engine[id].turn
    IN  IF engine'[id].init /\ engine'[id].turn # mover THEN <<<<mover, "Miss">>>>
        ELSE IF Contains(sent'[clients[ci].fd], <<"GAME_OVER">>)
        THEN <<<<mover, "Win">>>> ELSE <<>>

Record == due' = [q \in Peers |-> IF net[q].fd = NONE \/ net[q].hung THEN due[q]
                                  ELSE due[q] \o Made(ClientOf(q))]

HearNewcomer(p) ==
    /\ net[p].fd = NONE /\ net[p].up # <<>>
    /\ \E fd \in Fds \ open :
          /\ server_handle_new_connection(fd, Head(net[p].up))
          /\ Deliver([Taken(p) EXCEPT ![p].fd = fd])
    /\ UNCHANGED due

NewcomerLost(p) ==
    /\ net[p].fd = NONE /\ net[p].up = <<>> /\ net[p].hung
    /\ net' = [net EXCEPT ![p] = NoConnection]
    /\ sent' = Silence
    /\ UNCHANGED <<tables, due>>

HearMessage(p) ==
    /\ net[p].fd # NONE /\ net[p].up # <<>>
    /\ server_handle_client_message(ClientOf(p), Head(net[p].up))
    /\ Deliver(Taken(p))
    /\ Record

HearEnd(p) ==
    /\ net[p].fd # NONE /\ net[p].up = <<>> /\ net[p].hung
    /\ server_on_client_disconnect(ClientOf(p))
    /\ Deliver(net)
    /\ UNCHANGED due

ServerHears(p) == /\ HearNewcomer(p) \/ NewcomerLost(p) \/ HearMessage(p) \/ HearEnd(p)
                  /\ UNCHANGED callers

SystemNext == \E p \in Peers :
                 \/ Call(p) \/ Return(p) \/ client_close(p) \/ Crash(p)
                 \/ Reset(p) \/ ServerHears(p)

SystemSpec == SystemInit /\ [][SystemNext]_system

(* The operating system runs the server, and callers that are not killed   *)
(* go on with their match; nobody has to crash or to reset.                *)
FairSystem == /\ SystemSpec
              /\ \A p \in Peers : /\ WF_system(ServerHears(p))
                                   /\ WF_system(Call(p))
                                   /\ WF_system(Return(p))
                                   /\ WF_system(client_close(p))
-----------------------------------------------------------------------------
SystemTypeOK ==
    /\ lib \in [Peers -> Lib]
    /\ caller \in [Peers -> Caller]
    /\ net \in [Peers -> Net]
    /\ due \in [Peers -> Seq(Outcome)]

Accepted(p) == net[p].fd # NONE
SeatOf(p) == clients[ClientOf(p)]
MatchOf(p) == games[SeatOf(p).game_index]

Answer == [connect |-> "JOIN_OK", wait |-> "READY", ships |-> "SHIPS_ACK",
           move |-> "MOVE_RESULT", move_ext |-> "MOVE_EXT_RESULT",
           receive |-> "OPP_MOVE"]

(* The frame an operation reads is the answer to it or a refusal: no       *)
(* operation ever takes the answer to another, or an opponent's move, for  *)
(* its own, although READY, SHIPS_ACK and OPP_MOVE come whenever the other *)
(* player makes them come.                                                 *)
AnswersFit ==
    \A p \in Peers :
        lib[p].call # "none" /\ net[p].down # <<>> =>
            Head(net[p].down)[1] \in {Answer[lib[p].call], "JOIN_FAIL", "ERROR"}

(* A request that reaches the server while the match goes on is one the    *)
(* match is ready for: ships are placed once and in PLACEMENT, a move is   *)
(* made in PLAYING by the player on turn.                                  *)
RequestsInPhase ==
    \A p \in Peers : Accepted(p) /\ net[p].up # <<>> =>
        LET request == Head(net[p].up)
        IN  /\ request = "SHIPS" => /\ MatchOf(p).phase = "PLACEMENT"
                                    /\ ~MatchOf(p).ships_received[SeatOf(p).player_num]
            /\ request \in {"MOVE", "MOVE_EXT"} =>
                  /\ MatchOf(p).phase = "PLAYING"
                  /\ CanTakeTurn(engine, SeatOf(p).game_id, SeatOf(p).player_num)

(* client_send_ships returns a player number only after both players have  *)
(* placed their ships, and it is the number of the client's seat.          *)
ShipsAckedTogether ==
    \A p \in Peers : caller[p].player # 0 /\ Accepted(p) =>
        /\ MatchOf(p).phase = "PLAYING"
        /\ SeatOf(p).player_num = caller[p].player

(* What a player was told of the match is how the match went: the moves    *)
(* the library returned, its own and the opponent's, are the first moves   *)
(* of the match, none lost, repeated, reordered or altered.                *)
ViewsAgree == \A p \in Peers : IsPrefix(caller[p].heard, due[p])

(* Two players never wait for each other: of the players of a match some-  *)
(* body has something to read or to do, unless a seat is still empty.      *)
Blocked(p) == /\ lib[p].call # "none"
              /\ net[p].up = <<>> /\ net[p].down = <<>> /\ ~net[p].eof

NobodyStuck ==
    \A p \in Peers : Accepted(p) /\ Blocked(p) =>
        \/ EmptySeats(MatchOf(p)) # {}
        \/ \E q \in Peers : /\ Accepted(q) /\ ~Blocked(q)
                             /\ SeatOf(q).game_index = SeatOf(p).game_index

(* Every operation returns.  client_wait_for_opponent may wait for an      *)
(* opponent who never comes; it returns once there is one.                 *)
CallsReturn ==
    \A p \in Peers : \A op \in Operation :
        /\ lib[p].call = op
        /\ op = "wait" => Accepted(p) /\ EmptySeats(MatchOf(p)) = {}
        ~> lib[p].call # op
=============================================================================
