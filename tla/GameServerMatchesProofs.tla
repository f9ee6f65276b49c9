---------------------- MODULE GameServerMatchesProofs ----------------------
(***************************************************************************)
(* The game table implements Matches, for tables, ids and descriptors of   *)
(* any size.  Besides the consistency of the tables this needs two facts   *)
(* that no invariant of GameServer states: the first seat of a game is     *)
(* never the only empty one, so that players are numbered as they come;    *)
(* and an id that is not in use leaves nothing of its last match behind in *)
(* the engine, so that player 1 begins.                                    *)
(***************************************************************************)
EXTENDS GameServerMatches, GameServerProofs

(* The mapping, of any tables.                                             *)
Holders(gs, id) == {gi \in {k \in Games : gs[k].active} : gs[gi].game_id = id}
StageIn(gs) == [id \in GameIds |-> IF Holders(gs, id) = {} THEN "NONE"
                                   ELSE gs[CHOOSE gi \in Holders(gs, id) : TRUE].phase]
SeatedIn(cs) == {<<cs[ci].game_id, cs[ci].player_num, cs[ci].fd>> :
                    ci \in {k \in Clients : cs[k].active}}
TurnIn(e) == [id \in GameIds |-> e[id].turn]

SeatedInOrder(gs) == \A gi \in Games : gs[gi].active /\ gs[gi].client_slots[1] = NONE
                                          => gs[gi].client_slots[2] = NONE
NothingLeft(e) == \A id \in GameIds : ~e[id].init => e[id].turn = 1

MInv == IInv /\ SeatedInOrder(games) /\ NothingLeft(engine)

LEMMA MappingIs ==
  /\ stageOf = StageIn(games) /\ stageOf' = StageIn(games')
  /\ seatedOf = SeatedIn(clients) /\ seatedOf' = SeatedIn(clients')
  /\ turnOf = TurnIn(engine) /\ turnOf' = TurnIn(engine')
  BY DEF stageOf, StageIn, seatedOf, SeatedIn, turnOf, TurnIn, Holders, GamesWithId,
         ActiveGames, ActiveClients
-----------------------------------------------------------------------------
(* The match of an id is that of its game.                                 *)
LEMMA StageOfGame ==
  ASSUME NEW cs, NEW gs, NEW e, NEW F, TablesOK(cs, gs, e, F)
  PROVE  /\ \A gi \in Games : gs[gi].active => gs[gi].game_id \in GameIds
                                 /\ StageIn(gs)[gs[gi].game_id] = gs[gi].phase
         /\ \A id \in GameIds : (\A gi \in Games : gs[gi].active => gs[gi].game_id # id)
                                   => StageIn(gs)[id] = "NONE"
<1>1. ASSUME NEW gi \in Games, gs[gi].active
      PROVE  gs[gi].game_id \in GameIds /\ StageIn(gs)[gs[gi].game_id] = gs[gi].phase
  <2>1. gs[gi].game_id \in GameIds
    BY <1>1 DEF TablesOK, GameOK
  <2>2. Holders(gs, gs[gi].game_id) = {gi}
    BY <1>1 DEF TablesOK, Holders
  <2> QED BY <2>1, <2>2 DEF StageIn
<1>2. ASSUME NEW id \in GameIds, \A gi \in Games : gs[gi].active => gs[gi].game_id # id
      PROVE  StageIn(gs)[id] = "NONE"
  <2>1. Holders(gs, id) = {}
    BY <1>2 DEF Holders
  <2> QED BY <2>1 DEF StageIn
<1> QED BY <1>1, <1>2

(* What happens to the game of one id changes the match of that id only.   *)
OnlyOf(id, gs, g2) == \A k \in Games : \/ g2[k] = gs[k]
                                      \/ /\ gs[k].active => gs[k].game_id = id
                                         /\ g2[k].active => g2[k].game_id = id

LEMMA StageElsewhere ==
  ASSUME NEW gs, NEW g2, NEW id \in GameIds, OnlyOf(id, gs, g2)
  PROVE  StageIn(g2) = [StageIn(gs) EXCEPT ![id] = StageIn(g2)[id]]
<1>1. ASSUME NEW j \in GameIds, j # id PROVE StageIn(g2)[j] = StageIn(gs)[j]
  <2>1. Holders(g2, j) = Holders(gs, j)
    BY <1>1 DEF Holders, OnlyOf
  <2>2. \A k \in Holders(gs, j) : g2[k] = gs[k]
    BY <1>1 DEF Holders, OnlyOf
  <2>3. CASE Holders(gs, j) = {}
    BY <2>1, <2>3 DEF StageIn
  <2>4. CASE Holders(gs, j) # {}
    <3>1. (CHOOSE k \in Holders(gs, j) : TRUE) \in Holders(gs, j)
      BY <2>4
    <3> QED BY <2>1, <2>2, <2>4, <3>1 DEF StageIn
  <2> QED BY <2>3, <2>4
<1>2. \A g : StageIn(g) = [j \in GameIds |-> StageIn(g)[j]]
  BY DEF StageIn
<1> QED BY <1>1, <1>2

(* Turns of other ids.                                                     *)
LEMMA TurnElsewhere ==
  ASSUME NEW e, NEW e2, NEW id \in GameIds, \A j \in GameIds : j # id => e2[j] = e[j]
  PROVE  TurnIn(e2) = [TurnIn(e) EXCEPT ![id] = e2[id].turn]
  BY DEF TurnIn

LEMMA TurnSame ==
  ASSUME NEW e, NEW e2, \A j \in GameIds : e2[j].turn = e[j].turn
  PROVE  TurnIn(e2) = TurnIn(e)
  BY DEF TurnIn

LEMMA SeatedSame ==
  ASSUME NEW cs, NEW c2,
         \A k \in Clients : c2[k].active = cs[k].active /\ c2[k].fd = cs[k].fd
             /\ c2[k].game_id = cs[k].game_id /\ c2[k].player_num = cs[k].player_num
  PROVE  SeatedIn(c2) = SeatedIn(cs)
  BY DEF SeatedIn
-----------------------------------------------------------------------------
(* The end of a game is the end of its match.                              *)
LEMMA CloseImplements ==
  ASSUME MInv, NEW gi \in Games, Ending(gi)
  PROVE  Match!End(games[gi].game_id) /\ SeatedInOrder(games') /\ NothingLeft(engine')
<1> DEFINE id == games[gi].game_id
<1>1. PICK r, m : CloseGame(gi, r, m)
  BY DEF Ending
<1>2. /\ games[gi].active /\ TablesOK(clients, games, engine, open) /\ id \in GameIds
      /\ games[gi].phase \in GamePhase
  BY DEF Ending, MInv, IInv, TablesOK, GameOK, Game
<1>3. /\ games' = [games EXCEPT ![gi] = FreeGame]
      /\ clients' = [ci \in Clients |-> IF ci \in Seated(gi) THEN FreeClient ELSE clients[ci]]
      /\ engine' = engine_end_game(engine, id)
  BY <1>1 DEF CloseGame
<1>4. /\ \A k \in Games : k # gi => games'[k] = games[k]
      /\ ~games'[gi].active /\ games \in [Games -> Game]
  BY <1>2, <1>3 DEF TablesOK, FreeGame
<1>5. /\ \A j \in GameIds : j # id => engine'[j] = engine[j]
      /\ ~engine'[id].init /\ engine'[id].turn = 1
  BY <1>2, <1>3 DEF TablesOK, engine_end_game, NoEngineGame
<1> HIDE DEF id
<1>6. stageOf[id] # "NONE"
  BY <1>2, StageOfGame, MappingIs DEF GamePhase, id
<1>7. stageOf' = [stageOf EXCEPT ![id] = "NONE"]
  <2>1. StageIn(games') = [StageIn(games) EXCEPT ![id] = StageIn(games')[id]]
    <3>1. OnlyOf(id, games, games')
      BY <1>4 DEF OnlyOf, id
    <3> QED BY <3>1, <1>2, StageElsewhere
  <2>2. Holders(games', id) = {}
    BY <1>2, <1>4 DEF TablesOK, Holders, id
  <2>3. StageIn(games')[id] = "NONE"
    BY <2>2, <1>2 DEF StageIn
  <2> QED BY <2>1, <2>3, MappingIs
<1>8. seatedOf' = {s \in seatedOf : s[1] # id}
  <2>1. ASSUME NEW ci \in Clients
        PROVE  /\ clients'[ci].active <=> clients[ci].active /\ clients[ci].game_id # id
               /\ clients'[ci].active => clients'[ci] = clients[ci]
    <3>1. clients[ci].active => (ci \in Seated(gi) <=> clients[ci].game_index = gi)
      BY <1>2, SeatedExactly DEF MInv
    <3>2. clients[ci].active => (clients[ci].game_index = gi <=> clients[ci].game_id = id)
      BY <1>2 DEF TablesOK, ClientOK, id
    <3>3. ci \in Seated(gi) => clients[ci].active
      BY DEF Seated, ActiveClients
    <3> QED BY <1>3, <3>1, <3>2, <3>3 DEF FreeClient
  <2> QED BY <2>1, MappingIs DEF SeatedIn
<1>9. turnOf' = [turnOf EXCEPT ![id] = 1]
  BY <1>2, <1>5, TurnElsewhere, MappingIs
<1>10. Match!End(id)
  BY <1>6, <1>7, <1>8, <1>9 DEF Match!End
<1>11. SeatedInOrder(games')
  BY <1>4 DEF SeatedInOrder, MInv
<1>12. NothingLeft(engine')
  BY <1>5 DEF NothingLeft, MInv
<1> QED BY <1>10, <1>11, <1>12 DEF id

(* Joining: gs and e are the tables after the game was found or made, and  *)
(* before is the stage of its match until then.                            *)
Found(id, gi, gs, e) ==
    /\ TablesOK(clients, gs, e, open) /\ SeatedInOrder(gs)
    /\ gs[gi].active /\ gs[gi].game_id = id
    /\ OnlyOf(id, games, gs)
    /\ \A j \in GameIds : e[j].turn = engine[j].turn
    /\ NothingLeft(e)
    /\ \/ stageOf[id] = gs[gi].phase
       \/ /\ stageOf[id] = "NONE" /\ gs[gi].phase = "WAITING"
          /\ \A p \in Players : gs[gi].client_slots[p] = NONE

(* The game is there and the newcomer is not let in.                       *)
LEMMA RefusalImplements ==
  ASSUME MInv, NEW id \in GameIds, NEW gi \in Games, NEW gs, NEW e,
         Found(id, gi, gs, e),
         clients' = clients, games' = gs, engine' = e
  PROVE  [Match!Next]_Match!vars
<1>1. /\ StageIn(gs)[id] = gs[gi].phase
      /\ StageIn(gs) = [StageIn(games) EXCEPT ![id] = StageIn(gs)[id]]
  BY StageOfGame, StageElsewhere DEF Found
<1>2. seatedOf' = seatedOf /\ turnOf' = turnOf
  BY MappingIs, TurnSame DEF Found
<1>3. stageOf' = [stageOf EXCEPT ![id] = gs[gi].phase]
  BY <1>1, MappingIs
<1>4. CASE stageOf[id] = gs[gi].phase
  <2>1. stageOf' = stageOf
    BY <1>3, <1>4 DEF stageOf
  <2> QED BY <2>1, <1>2 DEF Match!vars
<1>5. CASE stageOf[id] = "NONE" /\ gs[gi].phase = "WAITING"
  <2>1. Match!Announce(id)
    BY <1>2, <1>3, <1>5 DEF Match!Announce
  <2> QED BY <2>1 DEF Match!Next
<1> QED BY <1>4, <1>5 DEF Found

(* The newcomer sits down: as player 1 in a match that nobody is in, or as *)
(* player 2 beside the one who waits.                                      *)
LEMMA SitDownImplements ==
  ASSUME MInv, NEW id \in GameIds, NEW gi \in Games, NEW gs, NEW e,
         Found(id, gi, gs, e), NEW fd \in Fds \ open,
         NEW p \in Players, NEW ci \in Clients,
         IsFirst(p, EmptySeats(gs[gi])), IsFirst(ci, FreeClients),
         engine' = e, SitDown(fd, id, gi, gs, ci, p), IInv'
  PROVE  Match!EnterFirst(id, fd) \/ Match!EnterSecond(id, fd)
<1> DEFINE q == Opponent(p)
           g == [gs[gi] EXCEPT !.client_slots[p] = ci]
           start == EmptySeats(g) = {}
           ready == Paired(ci, g.client_slots[q])
<1>1. /\ ~clients[ci].active /\ gs[gi].client_slots[p] = NONE
      /\ fd \in Fds /\ fd \notin open
      /\ \A s \in Players : gs[gi].client_slots[s] = NONE => p <= s
  BY DEF IsFirst, FreeClients, ActiveClients, EmptySeats
<1>2. /\ gs \in [Games -> Game] /\ gs[gi] \in Game /\ GameOK(clients, gs, e, gi)
      /\ clients \in [Clients -> Client]
      /\ \A k \in Clients : clients[k].active => clients[k].fd \in open
  BY DEF Found, TablesOK, ClientOK
<1>3. gs[gi].phase = "WAITING"
  BY <1>1, <1>2 DEF GameOK
<1>4. q \in Players /\ q # p /\ Players = {p, q} /\ Players = {1, 2}
  BY Opponents DEF Players
<1>5. start <=> gs[gi].client_slots[q] # NONE
  BY <1>2, <1>4, Nones DEF EmptySeats, Game
<1> HIDE DEF ready
<1>6. /\ games' = [gs EXCEPT ![gi] = IF start THEN [g EXCEPT !.phase = "PLACEMENT"] ELSE g]
      /\ clients' = [k \in Clients |->
           LET c == IF k = ci THEN [fd |-> fd, active |-> TRUE, game_id |-> id,
                                    player_num |-> p, phase |-> "WAITING",
                                    game_index |-> gi]
                    ELSE clients[k]
           IN  IF start /\ k \in ready THEN [c EXCEPT !.phase = "PLACEMENT"] ELSE c]
  BY DEF SitDown, ready
<1> HIDE DEF start, q
<1>7. stageOf' = [stageOf EXCEPT ![id] = IF start THEN "PLACEMENT" ELSE "WAITING"]
  <2>1. /\ \A k \in Games : k # gi => games'[k] = gs[k]
        /\ games'[gi].active /\ games'[gi].game_id = id
        /\ games'[gi].phase = IF start THEN "PLACEMENT" ELSE "WAITING"
    BY <1>2, <1>3, <1>6 DEF Game, Found
  <2>2. OnlyOf(id, games, games')
    BY <2>1 DEF OnlyOf, Found
  <2>3. StageIn(games') = [StageIn(games) EXCEPT ![id] = StageIn(games')[id]]
    BY <2>2, StageElsewhere
  <2>4. TablesOK(clients', games', engine', open')
    BY DEF IInv
  <2>5. StageIn(games')[games'[gi].game_id] = games'[gi].phase
    BY <2>1, <2>4, StageOfGame
  <2> QED BY <2>1, <2>3, <2>5, MappingIs
<1>8. seatedOf' = seatedOf \cup {<<id, p, fd>>}
  <2>1. /\ clients'[ci].active /\ clients'[ci].game_id = id /\ clients'[ci].player_num = p
        /\ clients'[ci].fd = fd
    BY <1>6
  <2>2. \A k \in Clients : k # ci =>
           /\ clients'[k].active = clients[k].active
           /\ clients'[k].fd = clients[k].fd
           /\ clients'[k].game_id = clients[k].game_id
           /\ clients'[k].player_num = clients[k].player_num
    BY <1>2, <1>6 DEF Client
  <2>3. SeatedIn(clients') = SeatedIn(clients) \cup {<<id, p, fd>>}
    BY <2>1, <2>2, <1>1 DEF SeatedIn
  <2> QED BY <2>3, MappingIs
<1>9. turnOf' = turnOf
  BY MappingIs, TurnSame DEF Found
<1>10. ~Match!Busy(fd)
  BY <1>1, <1>2 DEF Match!Busy, seatedOf, ActiveClients
<1>11. ~Match!Taken(id, p)
  <2>1. ASSUME NEW k \in Clients, clients[k].active, clients[k].game_id = id,
               clients[k].player_num = p
        PROVE  FALSE
    <3>1. ClientOK(clients, gs, open, k) /\ clients[k].game_index = gi
      BY <2>1 DEF Found, TablesOK, ClientOK
    <3> QED BY <3>1, <2>1, <1>1, Nones DEF ClientOK
  <2> QED BY <2>1 DEF Match!Taken, seatedOf, ActiveClients
<1>12. CASE p = 1
  <2>1. ~start
    BY <1>1, <1>4, <1>5, <1>12 DEF Found, SeatedInOrder
  <2>2. stageOf[id] \in {"NONE", "WAITING"}
    BY <1>3 DEF Found
  <2>3. Match!EnterFirst(id, fd)
    BY <2>1, <2>2, <1>7, <1>8, <1>9, <1>10, <1>11, <1>12 DEF Match!EnterFirst
  <2> QED BY <2>3
<1>13. CASE p = 2
  <2>1. gs[gi].client_slots[1] # NONE
    BY <1>1, <1>4, <1>13
  <2>2. start
    BY <2>1, <1>4, <1>5, <1>13
  <2>3. stageOf[id] = "WAITING"
    BY <2>1, <1>3, <1>4 DEF Found
  <2>4. Match!Taken(id, 1)
    <3> DEFINE k == gs[gi].client_slots[1]
    <3>1. /\ k \in Clients /\ clients[k].active /\ clients[k].game_index = gi
          /\ clients[k].player_num = 1
      BY <2>1, <1>2, <1>4 DEF GameOK, SeatOK
    <3>2. clients[k].game_id = id /\ clients[k].fd \in Fds
      BY <3>1 DEF Found, TablesOK, ClientOK
    <3> HIDE DEF k
    <3>3. <<id, 1, clients[k].fd>> \in seatedOf
      BY <3>1, <3>2 DEF seatedOf, ActiveClients
    <3> QED BY <3>2, <3>3 DEF Match!Taken
  <2>5. Match!EnterSecond(id, fd)
    BY <2>2, <2>3, <2>4, <1>7, <1>8, <1>9, <1>10, <1>11, <1>13 DEF Match!EnterSecond
  <2> QED BY <2>5
<1> QED BY <1>12, <1>13, <1>4

(* A newcomer that sits down takes the first empty seat.                   *)
LEMMA SitDownInOrder ==
  ASSUME NEW id \in GameIds, NEW gi \in Games, NEW gs, NEW e,
         Found(id, gi, gs, e), NEW fd,
         NEW p \in Players, NEW ci \in Clients,
         IsFirst(p, EmptySeats(gs[gi])), SitDown(fd, id, gi, gs, ci, p)
  PROVE  SeatedInOrder(games')
<1> DEFINE g == [gs[gi] EXCEPT !.client_slots[p] = ci]
           start == EmptySeats(g) = {}
<1>1. games' = [gs EXCEPT ![gi] = IF start THEN [g EXCEPT !.phase = "PLACEMENT"] ELSE g]
  BY DEF SitDown
<1>2. /\ gs \in [Games -> Game] /\ gs[gi] \in Game /\ SeatedInOrder(gs) /\ gs[gi].active
      /\ gs[gi].client_slots[1] = NONE => p = 1
  BY DEF Found, TablesOK, IsFirst, EmptySeats, Players
<1> HIDE DEF start
<1>3. /\ \A k \in Games : k # gi => games'[k] = gs[k]
      /\ games'[gi].client_slots[p] = ci
  BY <1>1, <1>2 DEF Game
<1>4. ci # NONE
  BY Nones
<1>5. games'[gi].client_slots[1] = NONE => games'[gi].client_slots[2] = NONE
  BY <1>1, <1>2, <1>3, <1>4 DEF Game, Players
<1> QED BY <1>2, <1>3, <1>5 DEF SeatedInOrder
-----------------------------------------------------------------------------
(* What every step is shown to do.                                         *)
Implemented == /\ [Match!Next]_Match!vars
               /\ SeatedInOrder(games') /\ NothingLeft(engine')

(* Every outcome of a connection once its game is found or made.           *)
LEMMA JoinImplements ==
  ASSUME MInv, NEW id \in GameIds, NEW gi \in Games, NEW gs, NEW e,
         Found(id, gi, gs, e), NEW fd \in Fds \ open, Join(fd, id, gi, gs, e)
  PROVE  Implemented
<1>1. /\ SeatedInOrder(gs) /\ NothingLeft(e) /\ TablesOK(clients, gs, e, open)
      /\ gs[gi].active /\ gs[gi].game_id = id
  BY DEF Found
<1>2. CASE Refuse(fd, gs, e)
  <2>1. clients' = clients /\ games' = gs /\ engine' = e
    BY <1>2 DEF Refuse
  <2> QED BY <2>1, <1>1, RefusalImplements DEF Implemented
<1>3. ASSUME NEW p \in Players, NEW ci \in Clients,
             IsFirst(p, EmptySeats(gs[gi])), IsFirst(ci, FreeClients),
             engine' = e, SitDown(fd, id, gi, gs, ci, p)
      PROVE  Implemented
  <2>1. IInv'
    BY <1>1, JoinInv DEF MInv
  <2>2. Match!EnterFirst(id, fd) \/ Match!EnterSecond(id, fd)
    BY <1>3, <2>1, SitDownImplements
  <2>3. Match!Next
    BY <2>2 DEF Match!Next
  <2>4. SeatedInOrder(games')
    BY <1>3, SitDownInOrder
  <2> QED BY <2>3, <2>4, <1>1, <1>3 DEF Implemented
<1>4. ASSUME engine' = e, SitDownUndone(gs) PROVE Implemented
  <2>1. clients' = clients /\ games' = gs /\ engine' = e
    BY <1>4 DEF SitDownUndone
  <2> QED BY <2>1, <1>1, RefusalImplements DEF Implemented
<1> QED BY <1>2, <1>3, <1>4 DEF Join

(* A game that is there is found.                                          *)
LEMMA ExistingFound ==
  ASSUME MInv, NEW gi \in Games, games[gi].active
  PROVE  Found(games[gi].game_id, gi, games, engine)
<1>1. TablesOK(clients, games, engine, open)
  BY DEF MInv, IInv
<1>2. stageOf[games[gi].game_id] = games[gi].phase
  BY <1>1, StageOfGame, MappingIs
<1> QED BY <1>1, <1>2 DEF Found, MInv, OnlyOf

(* A game that is made begins a match of an id nobody uses.                *)
LEMMA CreatedFound ==
  ASSUME MInv, NEW gi \in Games, ~games[gi].active, NEW id \in GameIds, ~engine[id].init
  PROVE  Found(id, gi, Created(gi, id), engine_init_game(engine, id))
<1> DEFINE gs == Created(gi, id)
           e == engine_init_game(engine, id)
<1>1. TablesOK(clients, games, engine, open) /\ engine[id].turn = 1
  BY DEF MInv, IInv, NothingLeft
<1>2. TablesOK(clients, gs, e, open)
  BY <1>1, CreateOK DEF Created
<1>3. /\ gs[gi].active /\ gs[gi].game_id = id /\ gs[gi].phase = "WAITING"
      /\ \A p \in Players : gs[gi].client_slots[p] = NONE
      /\ \A k \in Games : k # gi => gs[k] = games[k]
  BY <1>1 DEF Created, TablesOK, FreeGame
<1>4. /\ \A j \in GameIds : e[j].turn = engine[j].turn
      /\ e[id].init /\ \A j \in GameIds : j # id => e[j] = engine[j]
  BY <1>1 DEF engine_init_game, TablesOK, NoEngineGame
<1>5. \A k \in Games : games[k].active => games[k].game_id # id
  BY <1>1 DEF TablesOK, GameOK, BoardsOK
<1>6. stageOf[id] = "NONE"
  BY <1>1, <1>5, StageOfGame, MappingIs
<1> HIDE DEF gs, e
<1>7. SeatedInOrder(gs)
  BY <1>3 DEF SeatedInOrder, MInv, Players
<1>8. NothingLeft(e)
  BY <1>4 DEF NothingLeft, MInv
<1>9. OnlyOf(id, games, gs)
  BY <1>3 DEF OnlyOf
<1>10. Found(id, gi, gs, e)
  BY <1>2, <1>3, <1>4, <1>6, <1>7, <1>8, <1>9 DEF Found
<1> QED BY <1>10 DEF gs, e

(* A step that leaves the seats, the phases, the turns and the ids in use  *)
(* alone changes nothing a player was promised.                            *)
LEMMA StutterImplements ==
  ASSUME MInv, clients' = clients, NEW gi \in Games,
         games' = games \/ (~games[gi].active /\ games' = [games EXCEPT ![gi] = FreeGame]),
         \A j \in GameIds : engine'[j].turn = engine[j].turn
                            /\ engine'[j].init = engine[j].init
  PROVE  Implemented
<1>1. games \in [Games -> Game]
  BY DEF MInv, IInv, TablesOK
<1>2. \A k \in Games : /\ games'[k].active = games[k].active
                       /\ games[k].active => games'[k] = games[k]
  <2>1. CASE games' = games
    BY <2>1
  <2>2. CASE ~games[gi].active /\ games' = [games EXCEPT ![gi] = FreeGame]
    <3>1. /\ games'[gi] = FreeGame /\ ~FreeGame.active
          /\ \A k \in Games : k # gi => games'[k] = games[k]
      BY <1>1, <2>2 DEF FreeGame
    <3>2. games[gi].active \in BOOLEAN
      BY <1>1 DEF Game
    <3>3. FreeGame.active = FALSE /\ games[gi].active = FALSE
      BY <3>2, <2>2 DEF FreeGame
    <3> QED BY <3>1, <3>2, <3>3, <2>2
  <2> QED BY <2>1, <2>2
<1>3. \A id \in GameIds : Holders(games', id) = Holders(games, id)
  BY <1>2 DEF Holders
<1>4. StageIn(games') = StageIn(games)
  <2> SUFFICES ASSUME NEW id \in GameIds PROVE StageIn(games')[id] = StageIn(games)[id]
    BY DEF StageIn
  <2>1. CASE Holders(games, id) = {}
    BY <2>1, <1>3 DEF StageIn
  <2>2. CASE Holders(games, id) # {}
    <3>1. (CHOOSE k \in Holders(games, id) : TRUE) \in Holders(games, id)
      BY <2>2
    <3>2. \A k \in Holders(games, id) : games'[k].phase = games[k].phase
      BY <1>2 DEF Holders
    <3> DEFINE H == Holders(games, id)
    <3>3. Holders(games', id) = H /\ H # {} /\ (CHOOSE k \in H : TRUE) \in H
      BY <1>3, <2>2, <3>1
    <3> HIDE DEF H
    <3>4. /\ StageIn(games)[id] = games[CHOOSE k \in H : TRUE].phase
          /\ StageIn(games')[id] = games'[CHOOSE k \in H : TRUE].phase
      <4>1. StageIn(games)[id] = IF Holders(games, id) = {} THEN "NONE"
                     ELSE games[CHOOSE k \in Holders(games, id) : TRUE].phase
        BY DEF StageIn
      <4>2. StageIn(games')[id] = IF Holders(games', id) = {} THEN "NONE"
                     ELSE games'[CHOOSE k \in Holders(games', id) : TRUE].phase
        BY DEF StageIn
      <4> QED BY <4>1, <4>2, <3>3 DEF H
    <3> QED BY <3>2, <3>3, <3>4 DEF H
  <2> QED BY <2>1, <2>2
<1>5. TurnIn(engine') = TurnIn(engine)
  BY TurnSame
<1>6. UNCHANGED Match!vars
  BY <1>4, <1>5, MappingIs DEF Match!vars
<1>7. SeatedInOrder(games') /\ NothingLeft(engine')
  BY <1>2 DEF SeatedInOrder, NothingLeft, MInv
<1> QED BY <1>6, <1>7 DEF Implemented

(* Every answer to a new connection.                                       *)
LEMMA NewConnectionImplements ==
  ASSUME MInv, NEW fd \in Fds \ open, NEW id \in GameIds,
         server_handle_new_connection(fd, id)
  PROVE  Implemented
<1>1. CASE JoinExisting(fd, id)
  <2>1. PICK gi \in Games : IsFirst(gi, GamesWithId(id)) /\ Join(fd, id, gi, games, engine)
    BY <1>1 DEF JoinExisting
  <2>2. games[gi].active /\ games[gi].game_id = id
    BY <2>1 DEF IsFirst, GamesWithId, ActiveGames
  <2>3. Found(id, gi, games, engine)
    BY <2>2, ExistingFound
  <2> QED BY <2>1, <2>3, JoinImplements
<1>2. CASE JoinCreated(fd, id)
  <2>1. PICK gi \in Games :
           /\ IsFirst(gi, FreeGames)
           /\ Join(fd, id, gi, Created(gi, id), engine_init_game(engine, id))
    BY <1>2 DEF JoinCreated
  <2>2. ~games[gi].active /\ ~engine[id].init
    BY <1>2, <2>1 DEF IsFirst, FreeGames, ActiveGames, JoinCreated, CanInitGame
  <2>3. Found(id, gi, Created(gi, id), engine_init_game(engine, id))
    BY <2>2, CreatedFound
  <2> QED BY <2>1, <2>3, JoinImplements
<1>3. CASE EngineRefusesGame(fd, id)
  <2>1. PICK gi \in Games : /\ IsFirst(gi, FreeGames)
                            /\ Refuse(fd, [games EXCEPT ![gi] = FreeGame], engine)
    BY <1>3 DEF EngineRefusesGame
  <2>2. /\ ~games[gi].active /\ clients' = clients /\ engine' = engine
        /\ games' = [games EXCEPT ![gi] = FreeGame]
    BY <2>1 DEF IsFirst, FreeGames, ActiveGames, Refuse
  <2> QED BY <2>2, StutterImplements
<1>4. CASE NoFreeGame(fd, id)
  <2>1. 0 \in Games
    BY SizesAssumption DEF Games
  <2> QED BY <2>1, <1>4, StutterImplements DEF NoFreeGame, Refuse
<1> QED BY <1>1, <1>2, <1>3, <1>4 DEF server_handle_new_connection
-----------------------------------------------------------------------------
(* Ships: the match begins with the second player's.                       *)
LEMMA ShipsImplement ==
  ASSUME MInv, NEW ci \in ActiveClients, ShipsRepeated(ci) \/ ShipsAccepted(ci)
  PROVE  Implemented
<1> DEFINE gi == GameOf(ci)
           id == games[gi].game_id
           p == clients[ci].player_num
           g == [games[gi] EXCEPT !.ships_received[p] = TRUE]
           both == \A q \in Players : g.ships_received[q]
<1>1. /\ gi \in Games /\ games[gi].active /\ id \in GameIds /\ p \in Players
      /\ TablesOK(clients, games, engine, open) /\ PlaceShips(ci)
  BY ActiveClient DEF MInv, IInv, ShipsRepeated, ShipsAccepted
<1>2. /\ games \in [Games -> Game] /\ engine \in [GameIds -> EngineGame]
      /\ clients \in [Clients -> Client] /\ games[gi].phase = "PLACEMENT"
      /\ engine' = engine_place_ships(engine, id, p)
  BY <1>1 DEF TablesOK, PlaceShips, InPhase
<1>3. \A j \in GameIds : engine'[j].turn = engine[j].turn /\ engine'[j].init = engine[j].init
  BY <1>1, <1>2 DEF engine_place_ships, EngineGame
<1>4. IInv'
  BY <1>1, ShipsInv DEF MInv
<1> HIDE DEF gi, id, p
<1>5. CASE ShipsRepeated(ci)
  <2>1. clients' = clients /\ games' = games
    BY <1>5 DEF ShipsRepeated
  <2> QED BY <2>1, <1>1, <1>3, StutterImplements
<1>6. CASE ShipsAccepted(ci)
  <2>1. /\ games' = [games EXCEPT ![gi] =
                       IF both THEN [g EXCEPT !.phase = "PLAYING", !.current_turn = 1] ELSE g]
        /\ clients' = [k \in Clients |-> IF both /\ k \in Seated(gi)
                                         THEN [clients[k] EXCEPT !.phase = "PLAYING"]
                                         ELSE clients[k]]
    BY <1>6 DEF ShipsAccepted, gi, p
  <2> HIDE DEF both
  <2>2. /\ \A k \in Games : k # gi => games'[k] = games[k]
        /\ games'[gi].active /\ games'[gi].game_id = id
        /\ games'[gi].active = games[gi].active
        /\ games'[gi].client_slots = games[gi].client_slots
        /\ games'[gi].phase = IF both THEN "PLAYING" ELSE "PLACEMENT"
    BY <2>1, <1>1, <1>2 DEF Game, id
  <2>3. /\ StageIn(games') = [StageIn(games) EXCEPT ![id] = StageIn(games')[id]]
        /\ StageIn(games)[id] = "PLACEMENT"
        /\ StageIn(games')[id] = IF both THEN "PLAYING" ELSE "PLACEMENT"
    <3>1. OnlyOf(id, games, games')
      BY <2>2 DEF OnlyOf, id
    <3>2. StageIn(games)[id] = "PLACEMENT"
      BY <1>1, <1>2, StageOfGame DEF id
    <3>3. TablesOK(clients', games', engine', open')
      BY <1>4 DEF IInv
    <3>4. StageIn(games')[games'[gi].game_id] = games'[gi].phase
      BY <3>3, <2>2, <1>1, StageOfGame
    <3> QED BY <3>1, <3>2, <3>4, <2>2, <1>1, StageElsewhere
  <2>4. seatedOf' = seatedOf
    <3>1. \A k \in Clients :
             /\ clients'[k].active = clients[k].active /\ clients'[k].fd = clients[k].fd
             /\ clients'[k].game_id = clients[k].game_id
             /\ clients'[k].player_num = clients[k].player_num
      BY <2>1, <1>2 DEF Client
    <3> QED BY <3>1, SeatedSame, MappingIs
  <2>5. turnOf' = turnOf
    BY <1>3, TurnSame, MappingIs
  <2>6. SeatedInOrder(games') /\ NothingLeft(engine')
    <3>1. SeatedInOrder(games) /\ NothingLeft(engine)
      BY DEF MInv
    <3>2. \A k \in Games : games'[k].client_slots = games[k].client_slots
                           /\ games'[k].active = games[k].active
      BY <2>2, <1>1
    <3>3. SeatedInOrder(games')
      BY <3>1, <3>2 DEF SeatedInOrder
    <3>4. NothingLeft(engine')
      BY <3>1, <1>3 DEF NothingLeft
    <3> QED BY <3>3, <3>4
  <2>7. CASE both
    <3>1. Match!Start(id)
      BY <2>3, <2>4, <2>5, <2>7, MappingIs DEF Match!Start
    <3> QED BY <3>1, <2>6, <1>1 DEF Match!Next, Implemented
  <2>8. CASE ~both
    <3>1. stageOf' = stageOf
      BY <2>3, <2>8, MappingIs DEF StageIn
    <3> QED BY <3>1, <2>4, <2>5, <2>6 DEF Match!vars, Implemented
  <2> QED BY <2>7, <2>8
<1> QED BY <1>5, <1>6

(* A move that is taken passes the turn of its match.                      *)
LEMMA MoveImplements ==
  ASSUME MInv, NEW ci \in ActiveClients, NEW reply \in {"MOVE_RESULT", "MOVE_EXT_RESULT"},
         MovePlayed(ci, reply)
  PROVE  Implemented
<1> DEFINE gi == GameOf(ci)
           id == games[gi].game_id
<1>1. /\ gi \in Games /\ games[gi].active /\ id \in GameIds
      /\ TablesOK(clients, games, engine, open)
  BY ActiveClient DEF MInv, IInv
<1>2. /\ games \in [Games -> Game] /\ engine \in [GameIds -> EngineGame]
      /\ games[gi].phase = "PLAYING" /\ clients' = clients
      /\ engine' = engine_take_turn(engine, id)
      /\ games' = [games EXCEPT ![gi].current_turn = IF @ = 1 THEN 2 ELSE 1]
  BY <1>1 DEF TablesOK, MovePlayed, EngineTurn, InPhase
<1>3. /\ \A j \in GameIds : j # id => engine'[j] = engine[j]
      /\ engine'[id].turn = 3 - engine[id].turn /\ engine'[id].init = engine[id].init
  BY <1>1, <1>2 DEF engine_take_turn, EngineGame, Opponent
<1>4. IInv'
  BY MovePlayedInv DEF MInv
<1> HIDE DEF gi, id
<1>5. /\ \A k \in Games : k # gi => games'[k] = games[k]
      /\ games'[gi].active /\ games'[gi].game_id = id /\ games'[gi].phase = "PLAYING"
      /\ games'[gi].active = games[gi].active
      /\ games'[gi].client_slots = games[gi].client_slots
  BY <1>1, <1>2 DEF Game, id
<1>6. stageOf' = stageOf /\ stageOf[id] = "PLAYING"
  <2>1. OnlyOf(id, games, games')
    BY <1>5 DEF OnlyOf, id
  <2>2. StageIn(games)[id] = "PLAYING"
    BY <1>1, <1>2, StageOfGame DEF id
  <2>3. TablesOK(clients', games', engine', open')
    BY <1>4 DEF IInv
  <2>4. StageIn(games')[games'[gi].game_id] = games'[gi].phase
    BY <2>3, <1>5, <1>1, StageOfGame
  <2>5. StageIn(games') = [StageIn(games) EXCEPT ![id] = StageIn(games')[id]]
    BY <2>1, <1>1, StageElsewhere
  <2>6. StageIn(games') = StageIn(games)
    <3>1. StageIn(games')[id] = StageIn(games)[id]
      BY <2>2, <2>4, <1>5
    <3> QED BY <2>5, <3>1 DEF StageIn
  <2> QED BY <2>2, <2>6, MappingIs
<1>7. seatedOf' = seatedOf
  BY <1>2, MappingIs
<1>8. turnOf' = [turnOf EXCEPT ![id] = 3 - @]
  <2>1. TurnIn(engine') = [TurnIn(engine) EXCEPT ![id] = engine'[id].turn]
    BY <1>1, <1>3, TurnElsewhere
  <2>2. TurnIn(engine)[id] = engine[id].turn
    BY <1>1 DEF TurnIn
  <2> QED BY <2>1, <2>2, <1>3, MappingIs
<1>9. Match!Move(id)
  BY <1>6, <1>7, <1>8 DEF Match!Move
<1>10. SeatedInOrder(games') /\ NothingLeft(engine')
  <2>1. SeatedInOrder(games) /\ NothingLeft(engine)
    BY DEF MInv
  <2>2. \A k \in Games : games'[k].client_slots = games[k].client_slots
                         /\ games'[k].active = games[k].active
    BY <1>1, <1>5
  <2>3. SeatedInOrder(games')
    BY <2>1, <2>2 DEF SeatedInOrder
  <2>4. engine[id].init
    BY <1>1 DEF TablesOK, GameOK, BoardsOK, id, gi
  <2>5. NothingLeft(engine')
    BY <2>1, <2>4, <1>3 DEF NothingLeft
  <2> QED BY <2>3, <2>5
<1> QED BY <1>9, <1>10, <1>1 DEF Match!Next, Implemented

(* Every message and the loss of a connection.                             *)
LEMMA MessageImplements ==
  ASSUME MInv, NEW ci \in ActiveClients, NEW type,
         server_handle_client_message(ci, type) \/ server_on_client_disconnect(ci)
  PROVE  Implemented
<1> DEFINE gi == GameOf(ci)
<1>1. gi \in Games /\ gi # NONE /\ games[gi].active /\ games[gi].game_id \in GameIds
  BY ActiveClient DEF MInv
<1> HIDE DEF gi
<1>2. Ending(gi) => Implemented
  BY <1>1, CloseImplements DEF Implemented, Match!Next
<1>3. server_end_game(gi) => Implemented
  BY <1>1, <1>2, SilenceType DEF server_end_game, Ending
<1>4. \A m : Reply(ci, m) => Implemented
  BY <1>1, StutterImplements DEF Reply, tables
<1>5. handle_ships(ci) => Implemented
  BY <1>3, <1>4, ShipsImplement DEF handle_ships, OutOfPhase, ShipsRejected, gi
<1>6. \A reply \in {"MOVE_RESULT", "MOVE_EXT_RESULT"} : handle_move(ci, reply) => Implemented
  <2>1. ASSUME NEW reply \in {"MOVE_RESULT", "MOVE_EXT_RESULT"}, MoveWins(ci, reply)
        PROVE  Ending(gi)
    <3>1. MoveReplies(ci, reply, "Win") \in [Fds -> Seq(Frame)]
      BY TellType, ThenType, FrameTypes DEF MoveReplies, TurnResult
    <3> QED BY <3>1, <2>1, <1>1 DEF MoveWins, Ending, gi
  <2> QED BY <2>1, <1>2, <1>3, <1>4, MoveImplements
      DEF handle_move, OutOfPhase, MoveMalformed, MoveInvalid, MoveUnanswered, gi
<1>7. Default(ci) => Implemented
  BY <1>1, <1>3 DEF Default, gi
<1>8. server_on_client_disconnect(ci) => Implemented
  BY <1>1, <1>3 DEF server_on_client_disconnect, gi
<1> QED BY <1>5, <1>6, <1>7, <1>8 DEF server_handle_client_message
-----------------------------------------------------------------------------
(* The tables of a server that starts hold no match.                       *)
LEMMA InitImplements == Init => MInv /\ Match!Init
<1> SUFFICES ASSUME Init PROVE MInv /\ Match!Init
  OBVIOUS
<1>1. IInv
  BY InitInv
<1>2. SeatedInOrder(games) /\ NothingLeft(engine)
  BY DEF Init, SeatedInOrder, NothingLeft, FreeGame, engine_init, NoEngineGame
<1>3. stageOf = [id \in GameIds |-> "NONE"]
  BY DEF Init, stageOf, GamesWithId, ActiveGames, FreeGame
<1>4. seatedOf = {}
  BY DEF Init, seatedOf, ActiveClients, FreeClient
<1>5. turnOf = [id \in GameIds |-> 1]
  BY DEF Init, turnOf, engine_init, NoEngineGame
<1> QED BY <1>1, <1>2, <1>3, <1>4, <1>5 DEF MInv, Match!Init

(* Every step of the server, and every step of something around it that    *)
(* leaves its tables alone.                                                *)
LEMMA TablesImplement ==
  MInv /\ [Next]_tables /\ IInv' => MInv' /\ [Match!Next]_Match!vars
<1> SUFFICES ASSUME MInv, [Next]_tables, IInv' PROVE MInv' /\ [Match!Next]_Match!vars
  OBVIOUS
<1>1. ASSUME UNCHANGED tables PROVE Implemented
  <2>1. 0 \in Games
    BY SizesAssumption DEF Games
  <2> QED BY <2>1, <1>1, StutterImplements DEF tables
<1>2. Implemented
  BY <1>1, NewConnectionImplements, MessageImplements DEF Next, NoGameId, tables
<1>3. MInv'
  BY <1>2 DEF MInv, Implemented
<1> QED BY <1>2, <1>3 DEF Implemented

LEMMA NextImplements == MInv /\ [Next]_vars => MInv' /\ [Match!Next]_Match!vars
<1>1. MInv /\ [Next]_vars => IInv'
  BY NextInv DEF MInv
<1>2. [Next]_vars => [Next]_tables
  BY DEF vars, tables
<1> QED BY <1>1, <1>2, TablesImplement

(* The invariant the refinement rests on.                                  *)
THEOREM TableInvariance == Spec => []MInv
  BY InitImplements, NextImplements, PTL DEF Spec

(* The two tables, the engine and the descriptors together behave as one   *)
(* table of matches (game.c): the first to come is player 1 and the second *)
(* player 2, moves alternate beginning with player 1, and a match ends for *)
(* both at once.                                                           *)
THEOREM TableImplementsMatches == Spec => ImplementsMatches
  BY InitImplements, NextImplements, PTL DEF Spec, ImplementsMatches, Match!Spec
=============================================================================
