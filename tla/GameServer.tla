----------------------------- MODULE GameServer -----------------------------
(***************************************************************************)
(* The server's game table (server_c/game.c): who is connected, which game *)
(* each client sits in, and what every handler does to both tables, to the *)
(* engine and to the sockets.                                              *)
(*                                                                         *)
(* The server is one thread and each handler runs to completion, so one    *)
(* action is one call of a handler: server_handle_new_connection,          *)
(* server_handle_client_message or server_on_client_disconnect.            *)
(*                                                                         *)
(* game.c indexes the seats of a game by slot = player_num - 1; here a     *)
(* seat is indexed by its player number, so client_slots[p] is the code's  *)
(* client_slots[p - 1].                                                    *)
(*                                                                         *)
(* A definition marked "fault" is no part of the specification: it is the  *)
(* definition it stands next to with a mistake in it, and PROJECT.json     *)
(* names the property that must then fail.                                 *)
(***************************************************************************)
EXTENDS Engine, Sequences, FiniteSets

CONSTANTS MAX_CLIENTS,  \* entries of ServerState.clients
          MAX_GAMES,    \* entries of ServerState.games
          Fds           \* descriptors accept() may return

NONE == -1              \* the -1 of fd, game_index and client_slots

ASSUME SizesAssumption == MAX_CLIENTS \in Nat \ {0} /\ MAX_GAMES \in Nat \ {0}
ASSUME FdsAssumption == NONE \notin Fds

Clients == 0 .. MAX_CLIENTS - 1
Games   == 0 .. MAX_GAMES - 1

VARIABLES clients,      \* ServerState.clients
          games,        \* ServerState.games
          num_clients,  \* ServerState.num_clients
          engine,       \* the engine's games (module Engine)
          open,         \* accepted descriptors that are not closed
          sent          \* the frames each descriptor was sent by the last step

vars == <<clients, games, num_clients, engine, open, sent>>
tables == <<clients, games, num_clients, engine, open>>

GamePhase   == {"WAITING", "PLACEMENT", "PLAYING"}
ClientPhase == GamePhase \cup {"DEAD"}

Client == [fd : Fds \cup {NONE}, active : BOOLEAN, game_id : GameIds \cup {0},
           player_num : Players \cup {0}, phase : ClientPhase,
           game_index : Games \cup {NONE}]

Game == [active : BOOLEAN, game_id : GameIds \cup {0}, phase : GamePhase,
         client_slots : [Players -> Clients \cup {NONE}],
         ships_received : [Players -> BOOLEAN], current_turn : Players \cup {0}]

(* An entry that is not active.  Nothing reads the other fields of such an *)
(* entry before memset clears them, so what the last user left in them is  *)
(* not kept apart; only fd = -1 is seen, by find_buf_by_fd.                *)
FreeClient == [fd |-> NONE, active |-> FALSE, game_id |-> 0, player_num |-> 0,
               phase |-> "DEAD", game_index |-> NONE]

FreeGame == [active |-> FALSE, game_id |-> 0, phase |-> "WAITING",
             client_slots |-> [p \in Players |-> NONE],
             ships_received |-> [p \in Players |-> FALSE], current_turn |-> 0]

(* A frame is <<type>> or <<type, value>>; the server's replies.           *)
Frame == {<<t>> : t \in {"JOIN_OK", "JOIN_FAIL", "READY", "SHIPS_FAIL", "ERROR",
                         "GAME_OVER"}}
         \cup ({"SHIPS_ACK"} \X Players)
         \cup ({"MOVE_RESULT", "MOVE_EXT_RESULT", "OPP_MOVE"} \X TurnResult)
-----------------------------------------------------------------------------
(* The linear searches of the tables return the first entry of a set.      *)
IsLast(i, S)  == i \in S /\ \A j \in S : j <= i      \* fault: searched from the end
IsFirst(i, S) == i \in S /\ \A j \in S : i <= j

ActiveClients == {ci \in Clients : clients[ci].active}
FreeClients   == Clients \ ActiveClients
ActiveGames   == {gi \in Games : games[gi].active}
FreeGames     == Games \ ActiveGames
GamesWithId(id) == {gi \in ActiveGames : games[gi].game_id = id}

(* The clients that get_client finds in the seats of game gi.              *)
Seated(gi) == {ci \in ActiveClients :
                  \E p \in Players : games[gi].client_slots[p] = ci}

FdsOf(S) == {clients[ci].fd : ci \in S}

(* What is sent: m to every descriptor of F; first s, then t.              *)
Tell(F, m) == [f \in Fds |-> IF f \in F THEN <<m>> ELSE <<>>]
Then(s, t) == [f \in Fds |-> s[f] \o t[f]]
Silence == [f \in Fds |-> <<>>]

Init ==
    /\ clients = [ci \in Clients |-> FreeClient]
    /\ games = [gi \in Games |-> FreeGame]
    /\ num_clients = 0
    /\ engine = engine_init
    /\ open = {}
    /\ sent = Silence
-----------------------------------------------------------------------------
(* Ending a game closes both clients and frees every entry.                *)

(* num_clients is decremented once per client, never below zero.  Fault:   *)
(* once per seat, whether or not somebody sits there.                      *)
DecrementPerSeat(n) == num_clients - 2
Decrement(n) == IF num_clients >= n THEN num_clients - n ELSE 0

(* The clients in the seats of game gi are sent the frames last, closed    *)
(* and forgotten, the engine's game is ended and the entry is freed.       *)
CloseFirstOnly(gi, replies, last) ==    \* fault: the second entry is not freed
    /\ clients' = [ci \in Clients |-> IF ci \in Seated(gi) /\ clients[ci].player_num = 1
                                      THEN FreeClient ELSE clients[ci]]
    /\ open' = open \ FdsOf(Seated(gi))
    /\ num_clients' = Decrement(Cardinality(Seated(gi)))
    /\ engine' = engine_end_game(engine, games[gi].game_id)
    /\ games' = [games EXCEPT ![gi] = FreeGame]
    /\ sent' = Then(replies, Tell(FdsOf(Seated(gi)), last))

CloseGame(gi, replies, last) ==
    /\ clients' = [ci \in Clients |-> IF ci \in Seated(gi) THEN FreeClient
                                      ELSE clients[ci]]
    /\ open' = open \ FdsOf(Seated(gi))
    /\ num_clients' = Decrement(Cardinality(Seated(gi)))
    /\ engine' = engine_end_game(engine, games[gi].game_id)
    /\ games' = [games EXCEPT ![gi] = FreeGame]
    /\ sent' = Then(replies, Tell(FdsOf(Seated(gi)), last))

(* Every caller passes notify = true.                                      *)
server_end_game(gi) == CloseGame(gi, Silence, <<"ERROR">>)

server_remove_client(ci) ==
    /\ clients' = [clients EXCEPT ![ci] = FreeClient]
    /\ open' = open \ {clients[ci].fd}
    /\ num_clients' = Decrement(1)
    /\ UNCHANGED <<games, engine>>
-----------------------------------------------------------------------------
(* Joining a game.                                                         *)

CreatedNameless(gi, id) ==              \* fault: game_id is not set
    [games EXCEPT ![gi] = [FreeGame EXCEPT !.active = TRUE, !.current_turn = 1]]

CreatedAlone(gi, id) ==                 \* fault: memset of the whole table
    [g \in Games |-> IF g = gi THEN [FreeGame EXCEPT !.active = TRUE, !.game_id = id,
                                                     !.current_turn = 1]
                     ELSE FreeGame]

Created(gi, id) ==
    [games EXCEPT ![gi] = [FreeGame EXCEPT !.active = TRUE, !.game_id = id,
                                           !.current_turn = 1]]

(* JOIN_FAIL and close; the game table and the engine keep what the call   *)
(* has done so far.                                                        *)
RefuseUnclosed(fd, gs, e) ==            \* fault: the refused descriptor leaks
    /\ games' = gs
    /\ engine' = e
    /\ open' = open \cup {fd}
    /\ sent' = Tell({fd}, <<"JOIN_FAIL">>)
    /\ UNCHANGED <<clients, num_clients>>

Refuse(fd, gs, e) ==
    /\ games' = gs
    /\ engine' = e
    /\ sent' = Tell({fd}, <<"JOIN_FAIL">>)
    /\ UNCHANGED <<clients, num_clients, open>>

EmptySeats(g) == {p \in Players : g.client_slots[p] = NONE}

(* The clients notify_ready reaches: the newcomer ci and the other seat's  *)
(* client, if there is one.  Faults: everybody; the newcomer alone.        *)
PairedAll(ci, rival)   == {ci} \cup ActiveClients
PairedAlone(ci, rival) == {ci}
Paired(ci, rival)      == {ci} \cup ({rival} \cap ActiveClients)

(* Client ci takes seat p of game gi; the second one to sit down starts    *)
(* ship placement (notify_ready).                                          *)
SitDown(fd, id, gi, gs, ci, p) ==
    LET seated == [fd |-> fd, active |-> TRUE, game_id |-> id, player_num |-> p,
                   phase |-> "WAITING", game_index |-> gi]
        g      == [gs[gi] EXCEPT !.client_slots[p] = ci]
        start  == EmptySeats(g) = {}
        ready  == Paired(ci, g.client_slots[Opponent(p)])
    IN  /\ games' = [gs EXCEPT ![gi] = IF start THEN [g EXCEPT !.phase = "PLACEMENT"]
                                                ELSE g]
        /\ clients' = [k \in Clients |->
                         LET c == IF k = ci THEN seated ELSE clients[k]
                         IN  IF start /\ k \in ready
                             THEN [c EXCEPT !.phase = "PLACEMENT"] ELSE c]
        /\ sent' = Then(Tell({fd}, <<"JOIN_OK">>),
                        Tell(IF start THEN {fd} \cup FdsOf(ready \ {ci}) ELSE {},
                             <<"READY">>))
        /\ open' = open \cup {fd}
        /\ num_clients' = num_clients + 1

(* Sending JOIN_OK fails: the seat and the client entry are given back,    *)
(* the game and the engine's game stay.                                    *)
SitDownUndone(gs) ==
    /\ games' = gs
    /\ sent' = Silence
    /\ UNCHANGED <<clients, num_clients, open>>

(* The rest of server_handle_new_connection once game gi is found or made. *)
Join(fd, id, gi, gs, e) ==
    \/ /\ EmptySeats(gs[gi]) = {} \/ FreeClients = {}
       /\ Refuse(fd, gs, e)
    \/ \E p \in Players, ci \in Clients :
          /\ IsFirst(p, EmptySeats(gs[gi]))
          /\ IsFirst(ci, FreeClients)
          /\ engine' = e
          /\ SitDown(fd, id, gi, gs, ci, p) \/ SitDownUndone(gs)

JoinExisting(fd, id) ==
    \E gi \in Games : /\ IsFirst(gi, GamesWithId(id))
                      /\ Join(fd, id, gi, games, engine)

JoinCreated(fd, id) ==
    /\ GamesWithId(id) = {}
    /\ CanInitGame(engine, id)
    /\ \E gi \in Games : /\ IsFirst(gi, FreeGames)
                         /\ Join(fd, id, gi, Created(gi, id), engine_init_game(engine, id))

(* engine_init_game fails: the new entry is given back.                    *)
EngineRefusalKept(fd, id) ==            \* fault: the new entry stays
    /\ GamesWithId(id) = {}
    /\ \E gi \in Games :
          /\ IsFirst(gi, FreeGames)
          /\ Refuse(fd, Created(gi, id), engine)

EngineRefusesGame(fd, id) ==
    /\ GamesWithId(id) = {}
    /\ \E gi \in Games :
          /\ IsFirst(gi, FreeGames)
          /\ Refuse(fd, [games EXCEPT ![gi] = FreeGame], engine)

NoFreeGame(fd, id) ==
    /\ GamesWithId(id) = {}
    /\ FreeGames = {}
    /\ Refuse(fd, games, engine)

(* The peer closes before its four bytes of game id are there.             *)
NoGameId(fd) == sent' = Silence /\ UNCHANGED tables

server_handle_new_connection(fd, id) ==
    \/ JoinExisting(fd, id)
    \/ JoinCreated(fd, id)
    \/ EngineRefusesGame(fd, id)
    \/ NoFreeGame(fd, id)
-----------------------------------------------------------------------------
(* Messages of a connected client.  Every active client has a game index,  *)
(* so the early returns for game_index < 0 are never taken; Default and    *)
(* server_on_client_disconnect keep their branch for it.                   *)

GameOf(ci) == clients[ci].game_index
InPhase(ci, phase) == games[GameOf(ci)].active /\ games[GameOf(ci)].phase = phase
OwnFd(ci) == {clients[ci].fd}           \* fault: the wrong slot
RivalFd(ci) ==
    LET k == games[GameOf(ci)].client_slots[Opponent(clients[ci].player_num)]
    IN  FdsOf({k} \cap ActiveClients)
PlayerFd(gi, p) == FdsOf({games[gi].client_slots[p]} \cap ActiveClients)

Reply(ci, m) == sent' = Tell({clients[ci].fd}, m) /\ UNCHANGED tables

OutOfPhase(ci, phase) == ~InPhase(ci, phase) /\ Reply(ci, <<"ERROR">>)

(* A SHIPS payload that does not parse, or ships the engine refuses.       *)
ShipsRejected(ci, valid) ==
    /\ InPhase(ci, "PLACEMENT")
    /\ ~(valid /\ CanPlaceShips(engine, games[GameOf(ci)].game_id))
    /\ server_end_game(GameOf(ci))

(* The engine places the ships before the server looks whose they are.     *)
PlaceShips(ci) ==
    LET id == games[GameOf(ci)].game_id
    IN  /\ InPhase(ci, "PLACEMENT")
        /\ CanPlaceShips(engine, id)
        /\ engine' = engine_place_ships(engine, id, clients[ci].player_num)
        /\ UNCHANGED <<num_clients, open>>

ShipsRepeated(ci) ==
    /\ PlaceShips(ci)
    /\ games[GameOf(ci)].ships_received[clients[ci].player_num]
    /\ sent' = Tell({clients[ci].fd}, <<"SHIPS_FAIL">>)
    /\ UNCHANGED <<clients, games>>

(* send_ships_ack tells each player its number.  Faults: the numbers are   *)
(* those of the slots, or of the other player.                             *)
AckSlots(gi)   == Then(Tell(PlayerFd(gi, 1), <<"SHIPS_ACK", 0>>),
                       Tell(PlayerFd(gi, 2), <<"SHIPS_ACK", 1>>))
AckSwapped(gi) == Then(Tell(PlayerFd(gi, 1), <<"SHIPS_ACK", 2>>),
                       Tell(PlayerFd(gi, 2), <<"SHIPS_ACK", 1>>))
send_ships_ack(gi) == Then(Tell(PlayerFd(gi, 1), <<"SHIPS_ACK", 1>>),
                           Tell(PlayerFd(gi, 2), <<"SHIPS_ACK", 2>>))

ShipsAcceptedAgain(ci) ==               \* fault: a second fleet counts as the rival's
    LET gi == GameOf(ci)
        p  == clients[ci].player_num
        q  == IF games[gi].ships_received[p] THEN Opponent(p) ELSE p
        g  == [games[gi] EXCEPT !.ships_received[q] = TRUE]
        both == \A r \in Players : g.ships_received[r]
    IN  /\ PlaceShips(ci)
        /\ games' = [games EXCEPT ![gi] =
                       IF both THEN [g EXCEPT !.phase = "PLAYING", !.current_turn = 1]
                               ELSE g]
        /\ clients' = [k \in Clients |-> IF both /\ k \in Seated(gi)
                                         THEN [clients[k] EXCEPT !.phase = "PLAYING"]
                                         ELSE clients[k]]
        /\ sent' = IF both THEN send_ships_ack(gi) ELSE Silence

(* The match begins when the other player's ships are in.                  *)
ShipsAccepted(ci) ==
    LET gi == GameOf(ci)
        p  == clients[ci].player_num
        g  == [games[gi] EXCEPT !.ships_received[p] = TRUE]
        both == \A q \in Players : g.ships_received[q]
    IN  /\ PlaceShips(ci)
        /\ ~games[gi].ships_received[p]
        /\ games' = [games EXCEPT ![gi] =
                       IF both THEN [g EXCEPT !.phase = "PLAYING", !.current_turn = 1]
                               ELSE g]
        /\ clients' = [k \in Clients |-> IF both /\ k \in Seated(gi)
                                         THEN [clients[k] EXCEPT !.phase = "PLAYING"]
                                         ELSE clients[k]]
        /\ sent' = IF both THEN send_ships_ack(gi) ELSE Silence

handle_ships(ci) ==
    \/ OutOfPhase(ci, "PLACEMENT")
    \/ \E valid \in BOOLEAN : ShipsRejected(ci, valid)
    \/ ShipsRepeated(ci)
    \/ ShipsAccepted(ci)

(* A MOVE payload that is not a coordinate.                                *)
MoveMalformed(ci) == InPhase(ci, "PLAYING") /\ server_end_game(GameOf(ci))

MoveInvalid(ci, reply) == InPhase(ci, "PLAYING") /\ Reply(ci, <<reply, "Invalid">>)

EngineTurn(ci) ==
    /\ InPhase(ci, "PLAYING")
    /\ CanTakeTurn(engine, games[GameOf(ci)].game_id, clients[ci].player_num)

(* The engine has taken the turn, but its result cannot be sent.           *)
MoveUnanswered(ci) == EngineTurn(ci) /\ server_end_game(GameOf(ci))

MoveReplies(ci, reply, result) ==
    Then(Tell({clients[ci].fd}, <<reply, result>>),
         Tell(RivalFd(ci), <<"OPP_MOVE", result>>))

MovePlayed(ci, reply) ==
    /\ EngineTurn(ci)
    /\ engine' = engine_take_turn(engine, games[GameOf(ci)].game_id)
    /\ games' = [games EXCEPT ![GameOf(ci)].current_turn = IF @ = 1 THEN 2 ELSE 1]
    /\ sent' = MoveReplies(ci, reply, "Miss")
    /\ UNCHANGED <<clients, num_clients, open>>

MoveWins(ci, reply) ==
    /\ EngineTurn(ci)
    /\ CloseGame(GameOf(ci), MoveReplies(ci, reply, "Win"), <<"GAME_OVER">>)

(* reply is MOVE_RESULT for MOVE and MOVE_EXT_RESULT for MOVE_EXT.         *)
handle_move(ci, reply) ==
    \/ OutOfPhase(ci, "PLAYING")
    \/ MoveMalformed(ci)
    \/ MoveInvalid(ci, reply)
    \/ MoveUnanswered(ci)
    \/ MovePlayed(ci, reply)
    \/ MoveWins(ci, reply)

(* Any other message type, and the loss of the connection.                 *)
Default(ci) ==
    IF GameOf(ci) # NONE THEN server_end_game(GameOf(ci))
    ELSE server_remove_client(ci) /\ sent' = Tell({clients[ci].fd}, <<"ERROR">>)

DisconnectAlone(ci) ==                  \* fault: the game goes on without ci
    server_remove_client(ci) /\ sent' = Silence

server_on_client_disconnect(ci) ==
    IF GameOf(ci) # NONE THEN server_end_game(GameOf(ci))
    ELSE server_remove_client(ci) /\ sent' = Silence

server_handle_client_message(ci, type) ==
    \/ type = "SHIPS" /\ handle_ships(ci)
    \/ type = "MOVE" /\ handle_move(ci, "MOVE_RESULT")
    \/ type = "MOVE_EXT" /\ handle_move(ci, "MOVE_EXT_RESULT")
    \/ type = "OTHER" /\ Default(ci)

MsgType == {"SHIPS", "MOVE", "MOVE_EXT", "OTHER"}

Next ==
    \/ \E fd \in Fds \ open :
          \/ NoGameId(fd)
          \/ \E id \in GameIds : server_handle_new_connection(fd, id)
    \/ \E ci \in ActiveClients :
          \/ \E type \in MsgType : server_handle_client_message(ci, type)
          \/ server_on_client_disconnect(ci)

Spec == Init /\ [][Next]_vars
-----------------------------------------------------------------------------
(* Every variable has its type.                                            *)
TypeOK ==
    /\ clients \in [Clients -> Client]
    /\ games \in [Games -> Game]
    /\ num_clients \in Nat
    /\ engine \in [GameIds -> EngineGame]
    /\ open \subseteq Fds
    /\ sent \in [Fds -> Seq(Frame)]

(* A connected client and the seat it was given point at each other, and   *)
(* no seat of a running game points anywhere else: a seat that outlives    *)
(* its client would let a stranger's entry be told about, or be closed     *)
(* with, a game it never joined.                                           *)
SeatsConsistent ==
    /\ \A ci \in ActiveClients :
          LET c == clients[ci]
          IN  /\ c.game_index \in ActiveGames
              /\ c.player_num \in Players
              /\ c.game_id = games[c.game_index].game_id
              /\ games[c.game_index].client_slots[c.player_num] = ci
    /\ \A gi \in ActiveGames, p \in Players :
          LET ci == games[gi].client_slots[p]
          IN  ci # NONE => /\ ci \in ActiveClients
                           /\ clients[ci].game_index = gi
                           /\ clients[ci].player_num = p

(* A running game has an id, and two never share one, so the lookup by id  *)
(* finds the only game there is.                                           *)
OneGamePerId ==
    /\ \A gi \in ActiveGames : games[gi].game_id \in GameIds
    /\ \A gi, gj \in ActiveGames : games[gi].game_id = games[gj].game_id => gi = gj

(* The engine holds exactly the games of the server's table, over every    *)
(* way a game can begin (and fail to) and end; the first mismatch would    *)
(* make engine_init_game refuse that id for good.                          *)
EngineMirrorsTable ==
    \A id \in GameIds : engine[id].init <=> GamesWithId(id) # {}

(* A game leaves WAITING exactly when both seats are taken, and the phase  *)
(* of a client is that of its game.                                        *)
PhasesAgree ==
    \A gi \in ActiveGames :
        /\ games[gi].phase = "WAITING" <=> EmptySeats(games[gi]) # {}
        /\ \A ci \in Seated(gi) : clients[ci].phase = games[gi].phase

(* The engine is in step with the server: the players with a board of      *)
(* their own making in the engine are exactly the acknowledged ones, so    *)
(* that a match is never PLAYING on two boards of one player, whoever      *)
(* placed first and however often; and current_turn, which the server      *)
(* keeps but never reads, is the engine's turn.                            *)
EngineInStep ==
    \A gi \in ActiveGames :
        LET g == games[gi]
            e == engine[g.game_id]
        IN  /\ \A p \in Players : g.ships_received[p] <=> \E q \in Players : e.fleet[q] = p
            /\ g.phase = "PLAYING" <=> \A p \in Players : g.ships_received[p]
            /\ e.turn = g.current_turn

(* No descriptor is lost, closed while in use or shared by two clients.    *)
DescriptorsExact ==
    /\ open = FdsOf(ActiveClients)
    /\ \A ci, cj \in ActiveClients : clients[ci].fd = clients[cj].fd => ci = cj

(* num_clients is the number of connected clients.                         *)
ClientsCounted == num_clients = Cardinality(ActiveClients)

(* With two client entries per game entry (64 and 32 in game.h) whoever    *)
(* finds a seat also finds a client entry, so "no free client" never costs *)
(* a created game.                                                         *)
SeatImpliesClientEntry ==
    /\ MAX_CLIENTS >= 2 * MAX_GAMES
    /\ FreeGames # {} \/ \E gi \in ActiveGames : EmptySeats(games[gi]) # {}
    => FreeClients # {}

(* A handler touches one game: the entries, clients and engine state of    *)
(* every other game stay as they are.                                      *)
UntouchedGame(gi) ==
    /\ games'[gi] = games[gi]
    /\ games[gi].active =>
          /\ \A ci \in Seated(gi) : clients'[ci] = clients[ci]
          /\ engine'[games[gi].game_id] = engine[games[gi].game_id]

GamesIsolated ==
    [][\E gi \in Games : \A gj \in Games \ {gi} : UntouchedGame(gj)]_vars

(* While a client stays connected its descriptor and its seat do not       *)
(* change, and its phase never goes back.                                  *)
Rank == [WAITING |-> 1, PLACEMENT |-> 2, PLAYING |-> 3, DEAD |-> 4]

SessionsStable ==
    [][\A ci \in ActiveClients :
          clients'[ci].active =>
             /\ \A f \in {"fd", "game_id", "player_num", "game_index"} :
                   clients'[ci][f] = clients[ci][f]
             /\ Rank[clients[ci].phase] <= Rank[clients'[ci].phase]]_vars

(* Nobody is hung up on in silence: when a game ends both of its clients   *)
(* are closed in the same step and the last frame each was sent is ERROR   *)
(* for both or GAME_OVER for both.                                         *)
EndIsTold ==
    [][\A gi \in ActiveGames :
          (\E ci \in Seated(gi) : ~clients'[ci].active) =>
             \E m \in {"ERROR", "GAME_OVER"} : \A ci \in Seated(gi) :
                LET s == sent'[clients[ci].fd]
                IN  ~clients'[ci].active /\ s # <<>> /\ s[Len(s)] = <<m>>]_vars

(* Whenever the engine's turn passes, the player who was on turn was sent  *)
(* the result and its opponent the same result as OPP_MOVE, and no one     *)
(* else heard of it.                                                       *)
TurnIsBroadcast ==
    [][\A gi \in ActiveGames :
          LET id == games[gi].game_id
              mover == engine[id].turn
          IN  engine'[id].init /\ engine'[id].turn # mover =>
                \E r \in TurnResult \ {"Invalid"} :
                  \E t \in {"MOVE_RESULT", "MOVE_EXT_RESULT"} :
                    sent' = Then(Tell(PlayerFd(gi, mover), <<t, r>>),
                                 Tell(PlayerFd(gi, Opponent(mover)),
                                      <<"OPP_MOVE", r>>))]_vars
-----------------------------------------------------------------------------
(* Statements of the documents that the code does not keep.                *)

(* engine.h:74 gives the first engine_place_ships call to player 1 and    *)
(* the second to player 2, and TASKS_DELIVERY.md:113 promises that order:  *)
(* the board of a player holds that player's ships.                        *)
BoardsMatchPlayers ==
    \A id \in GameIds, p \in Players : engine[id].fleet[p] \in {NoFleet, p}

(* TASKS_DELIVERY.md:227: "up to 32 games".  A full table is a table of    *)
(* games that somebody plays or waits in.                                  *)
FullTableIsUsed == FreeGames = {} => \A gi \in Games : Seated(gi) # {}
=============================================================================
