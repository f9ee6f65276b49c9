-------------------------- MODULE GameServerProofs --------------------------
(***************************************************************************)
(* The invariants of GameServer hold for every number of clients, games,   *)
(* ids and descriptors.                                                    *)
(*                                                                         *)
(* The invariants only hold together: that a move acts on a game at all    *)
(* rests on the seats, the seats on the lookup by id, the lookup on the    *)
(* engine refusing a second game of that id.  TablesOK is their            *)
(* conjunction, stated of any tables cs, gs, e and descriptors F, so that  *)
(* a lemma can say what one edit of the tables does to it; a handler makes *)
(* one or two of these edits.                                              *)
(***************************************************************************)
EXTENDS GameServer, FiniteSetTheorems, SequenceTheorems, TLAPS

ClientOK(cs, gs, F, ci) ==
    /\ cs[ci].fd \in F
    /\ cs[ci].game_index \in Games
    /\ cs[ci].player_num \in Players
    /\ gs[cs[ci].game_index].active
    /\ cs[ci].game_id = gs[cs[ci].game_index].game_id
    /\ gs[cs[ci].game_index].client_slots[cs[ci].player_num] = ci
    /\ cs[ci].phase = gs[cs[ci].game_index].phase

SeatOK(cs, gs, gi, p) ==
    gs[gi].client_slots[p] # NONE =>
        /\ gs[gi].client_slots[p] \in Clients
        /\ cs[gs[gi].client_slots[p]].active
        /\ cs[gs[gi].client_slots[p]].game_index = gi
        /\ cs[gs[gi].client_slots[p]].player_num = p

BoardsOK(g, e) ==
    /\ e.init
    /\ e.fleet[1] = NoFleet => /\ e.fleet[2] = NoFleet
                               /\ \A p \in Players : ~g.ships_received[p]
    /\ e.fleet[2] = NoFleet => \E p \in Players : ~g.ships_received[p]
    /\ \A p \in Players : g.ships_received[p] <=> \E q \in Players : e.fleet[q] = p
    /\ g.phase = "PLAYING" <=> \A p \in Players : g.ships_received[p]
    /\ e.turn = g.current_turn
    /\ g.phase # "PLAYING" => g.current_turn = 1

GameOK(cs, gs, e, gi) ==
    /\ gs[gi].game_id \in GameIds
    /\ \A p \in Players : SeatOK(cs, gs, gi, p)
    /\ gs[gi].phase = "WAITING" <=> \E p \in Players : gs[gi].client_slots[p] = NONE
    /\ BoardsOK(gs[gi], e[gs[gi].game_id])

TablesOK(cs, gs, e, F) ==
    /\ cs \in [Clients -> Client] /\ gs \in [Games -> Game]
    /\ e \in [GameIds -> EngineGame] /\ F \subseteq Fds
    /\ \A ci \in Clients : cs[ci].active => ClientOK(cs, gs, F, ci)
    /\ \A gi \in Games : gs[gi].active => GameOK(cs, gs, e, gi)
    /\ \A gi, gj \in Games : gs[gi].active /\ gs[gj].active
                             /\ gs[gi].game_id = gs[gj].game_id => gi = gj
    /\ \A id \in GameIds : e[id].init =>
            \E gi \in Games : gs[gi].active /\ gs[gi].game_id = id
    /\ \A f \in F : \E ci \in Clients : cs[ci].active /\ cs[ci].fd = f
    /\ \A ci, cj \in Clients : cs[ci].active /\ cs[cj].active
                               /\ cs[ci].fd = cs[cj].fd => ci = cj

(* The inductive invariant of the server.                                  *)
IInv == /\ TablesOK(clients, games, engine, open)
        /\ num_clients \in Nat
        /\ sent \in [Fds -> Seq(Frame)]
-----------------------------------------------------------------------------
(* The sentinel is no index of a table.                                    *)
LEMMA Nones == NONE \notin Clients /\ NONE \notin Games /\ NONE \notin Fds
  BY FdsAssumption DEF NONE, Clients, Games

(* Every value of the free entries has its type.                           *)
LEMMA FreeTypes == FreeClient \in Client /\ FreeGame \in Game
  BY Nones DEF FreeClient, FreeGame, Client, Game, ClientPhase, GamePhase, Players

(* Everybody has an opponent, and is the opponent of its opponent.         *)
LEMMA Opponents == \A p \in Players : /\ Opponent(p) \in Players
                                      /\ Opponent(p) # p
                                      /\ Players = {p, Opponent(p)}
  BY DEF Players, Opponent
-----------------------------------------------------------------------------
(* Creating a game in a free entry under an id that neither the table nor  *)
(* the engine knows keeps the tables consistent.                           *)
LEMMA CreateOK ==
  ASSUME NEW cs, NEW gs, NEW e, NEW F, TablesOK(cs, gs, e, F),
         NEW gi \in Games, ~gs[gi].active,
         NEW id \in GameIds, ~e[id].init,
         NEW g2, g2 = [gs EXCEPT ![gi] = [FreeGame EXCEPT !.active = TRUE, !.game_id = id,
                                                          !.current_turn = 1]]
  PROVE  TablesOK(cs, g2, engine_init_game(e, id), F)
<1> DEFINE new == [FreeGame EXCEPT !.active = TRUE, !.game_id = id, !.current_turn = 1]
           e2 == engine_init_game(e, id)
<1>1. /\ new \in Game /\ new.active /\ new.game_id = id /\ new.phase = "WAITING"
      /\ new.current_turn = 1
      /\ \A p \in Players : new.client_slots[p] = NONE /\ ~new.ships_received[p]
  BY Nones DEF FreeGame, Game, GamePhase, Players
<1>2. /\ e2 \in [GameIds -> EngineGame]
      /\ e2[id].init /\ e2[id].turn = 1 /\ \A p \in Players : e2[id].fleet[p] = NoFleet
      /\ \A j \in GameIds : j # id => e2[j] = e[j]
  BY DEF TablesOK, EngineGame, engine_init_game, NoEngineGame, NoFleet, Players
<1> HIDE DEF e2
<1>3. /\ g2 \in [Games -> Game] /\ g2[gi] = new
      /\ \A k \in Games : k # gi => g2[k] = gs[k]
  BY <1>1 DEF TablesOK
<1> HIDE DEF new
<1>4. \A k \in Games : gs[k].active => gs[k].game_id # id
  BY DEF TablesOK, GameOK, BoardsOK
<1>5. \A ci \in Clients : cs[ci].active => ClientOK(cs, g2, F, ci)
  BY <1>3 DEF TablesOK, ClientOK
<1>6. ASSUME NEW k \in Games, g2[k].active PROVE GameOK(cs, g2, e2, k)
  <2>1. CASE k = gi
    <3>1. \A p \in Players : NoFleet # p
      BY DEF Players, NoFleet
    <3>2. \A p \in Players : new.ships_received[p] <=> \E q \in Players : e2[id].fleet[q] = p
      BY <3>1, <1>1, <1>2
    <3>3. new.phase # "PLAYING" /\ 1 \in Players
      BY <1>1 DEF Players
    <3>4. BoardsOK(new, e2[id])
      BY <3>2, <3>3, <1>1, <1>2 DEF BoardsOK, Players
    <3>5. \A p \in Players : SeatOK(cs, g2, k, p)
      BY <2>1, <1>1, <1>3 DEF SeatOK
    <3>6. \E p \in Players : g2[k].client_slots[p] = NONE
      BY <3>3, <2>1, <1>1, <1>3
    <3> QED BY <3>4, <3>5, <3>6, <2>1, <1>1, <1>3 DEF GameOK
  <2>2. CASE k # gi
    BY <2>2, <1>6, <1>2, <1>3, <1>4 DEF TablesOK, GameOK, SeatOK, BoardsOK
  <2> QED BY <2>1, <2>2
<1>7. ASSUME NEW j \in GameIds, e2[j].init
      PROVE  \E k \in Games : g2[k].active /\ g2[k].game_id = j
  BY <1>7, <1>1, <1>2, <1>3 DEF TablesOK
<1>8. \A j, k \in Games : g2[j].active /\ g2[k].active
                          /\ g2[j].game_id = g2[k].game_id => j = k
  BY <1>1, <1>3, <1>4 DEF TablesOK
<1>9. TablesOK(cs, g2, e2, F)
  BY <1>2, <1>3, <1>5, <1>6, <1>7, <1>8 DEF TablesOK
<1> QED
  BY <1>9 DEF e2

(* Writing to a free entry of the game table changes nothing that counts.  *)
LEMMA ForgetOK ==
  ASSUME NEW cs, NEW gs, NEW e, NEW F, TablesOK(cs, gs, e, F),
         NEW gi \in Games, ~gs[gi].active
  PROVE  TablesOK(cs, [gs EXCEPT ![gi] = FreeGame], e, F)
<1> DEFINE g2 == [gs EXCEPT ![gi] = FreeGame]
<1>1. /\ g2 \in [Games -> Game] /\ ~g2[gi].active
      /\ \A k \in Games : k # gi => g2[k] = gs[k]
  BY FreeTypes DEF TablesOK, FreeGame
<1> HIDE DEF g2
<1>2. \A ci \in Clients : cs[ci].active => ClientOK(cs, g2, F, ci)
  BY <1>1 DEF TablesOK, ClientOK
<1>3. \A k \in Games : g2[k].active => GameOK(cs, g2, e, k)
  BY <1>1 DEF TablesOK, GameOK, SeatOK
<1> QED
  BY <1>1, <1>2, <1>3 DEF TablesOK, g2

(* Ending a game frees its entry and those of the clients in its seats.    *)
LEMMA CloseOK ==
  ASSUME NEW cs, NEW gs, NEW e, NEW F, TablesOK(cs, gs, e, F),
         NEW gi \in Games, gs[gi].active,
         NEW S, S = {ci \in Clients : cs[ci].active
                        /\ \E p \in Players : gs[gi].client_slots[p] = ci},
         NEW c2, c2 = [ci \in Clients |-> IF ci \in S THEN FreeClient ELSE cs[ci]]
  PROVE  /\ \A ci \in Clients : cs[ci].active => (ci \in S <=> cs[ci].game_index = gi)
         /\ TablesOK(c2, [gs EXCEPT ![gi] = FreeGame],
                     engine_end_game(e, gs[gi].game_id),
                     F \ {cs[ci].fd : ci \in S})
<1> DEFINE g2 == [gs EXCEPT ![gi] = FreeGame]
           e2 == engine_end_game(e, gs[gi].game_id)
           F2 == F \ {cs[ci].fd : ci \in S}
           id == gs[gi].game_id
<1>1. /\ g2 \in [Games -> Game] /\ ~g2[gi].active
      /\ \A k \in Games : k # gi => g2[k] = gs[k]
  BY FreeTypes DEF TablesOK, FreeGame
<1>2. id \in GameIds
  BY DEF TablesOK, GameOK
<1>3. /\ e2 \in [GameIds -> EngineGame] /\ ~e2[id].init
      /\ \A j \in GameIds : j # id => e2[j] = e[j]
  BY <1>2 DEF TablesOK, EngineGame, engine_end_game, NoEngineGame, NoFleet, Players
<1>4. /\ c2 \in [Clients -> Client]
      /\ \A ci \in Clients : c2[ci].active <=> cs[ci].active /\ ci \notin S
      /\ \A ci \in Clients : c2[ci].active => c2[ci] = cs[ci]
  BY FreeTypes DEF TablesOK, FreeClient
<1>5. \A ci \in Clients : cs[ci].active => (ci \in S <=> cs[ci].game_index = gi)
  <2> SUFFICES ASSUME NEW ci \in Clients, cs[ci].active
               PROVE  ci \in S <=> cs[ci].game_index = gi
    OBVIOUS
  <2>1. cs[ci].game_index = gi => ci \in S
    BY DEF TablesOK, ClientOK
  <2>2. ci \in S => cs[ci].game_index = gi
    BY Nones DEF TablesOK, GameOK, SeatOK
  <2> QED BY <2>1, <2>2
<1>6. F2 \subseteq Fds /\ \A ci \in Clients : c2[ci].active => c2[ci].fd \in F2
  BY <1>4 DEF TablesOK, ClientOK
<1>10. \A f \in F2 : \E ci \in Clients : c2[ci].active /\ c2[ci].fd = f
  BY <1>4 DEF TablesOK
<1> HIDE DEF g2, e2, F2
<1>7. ASSUME NEW ci \in Clients, c2[ci].active PROVE ClientOK(c2, g2, F2, ci)
  <2>1. ClientOK(cs, gs, F, ci) /\ cs[ci].game_index # gi
    BY <1>4, <1>5, <1>7 DEF TablesOK
  <2> QED BY <2>1, <1>1, <1>4, <1>6, <1>7 DEF ClientOK
<1>8. ASSUME NEW k \in Games, g2[k].active PROVE GameOK(c2, g2, e2, k)
  <2>1. k # gi /\ g2[k] = gs[k] /\ GameOK(cs, gs, e, k)
    BY <1>8, <1>1 DEF TablesOK
  <2>2. gs[k].game_id # id /\ e2[gs[k].game_id] = e[gs[k].game_id]
    BY <2>1, <1>8, <1>1, <1>3 DEF TablesOK, GameOK
  <2>3. ASSUME NEW p \in Players PROVE SeatOK(c2, g2, k, p)
    <3> SUFFICES ASSUME gs[k].client_slots[p] # NONE PROVE SeatOK(c2, g2, k, p)
      BY <2>1 DEF SeatOK
    <3>1. SeatOK(cs, gs, k, p)
      BY <2>1 DEF GameOK
    <3>2. gs[k].client_slots[p] \notin S
      BY <3>1, <2>1, <1>5 DEF SeatOK
    <3> QED BY <3>1, <3>2, <2>1, <1>4 DEF SeatOK
  <2> QED BY <2>1, <2>2, <2>3 DEF GameOK
<1>9. \A j \in GameIds : e2[j].init => \E k \in Games : g2[k].active /\ g2[k].game_id = j
  BY <1>1, <1>3 DEF TablesOK
<1>11. \A ci, cj \in Clients : c2[ci].active /\ c2[cj].active
                               /\ c2[ci].fd = c2[cj].fd => ci = cj
  BY <1>4 DEF TablesOK
<1>12. \A j, k \in Games : g2[j].active /\ g2[k].active
                           /\ g2[j].game_id = g2[k].game_id => j = k
  BY <1>1 DEF TablesOK
<1>13. TablesOK(c2, g2, e2, F2)
  BY <1>1, <1>3, <1>4, <1>6, <1>7, <1>8, <1>9, <1>10, <1>11, <1>12 DEF TablesOK
<1> QED
  BY <1>5, <1>13 DEF g2, e2, F2

(* A client that takes the first empty seat of a running game, with a new  *)
(* descriptor and a free entry; the seat's phase is the game's from then   *)
(* on, and the game leaves WAITING when no seat is left.                   *)
LEMMA SitDownOK ==
  ASSUME NEW cs, NEW gs, NEW e, NEW F, TablesOK(cs, gs, e, F),
         NEW gi \in Games, gs[gi].active, gs[gi].phase = "WAITING",
         NEW ci \in Clients, ~cs[ci].active,
         NEW p \in Players, gs[gi].client_slots[p] = NONE,
         NEW fd \in Fds, fd \notin F,
         NEW g2 \in [Games -> Game], NEW c2 \in [Clients -> Client], NEW start \in BOOLEAN,
         start <=> gs[gi].client_slots[Opponent(p)] # NONE,
         \A k \in Games : k # gi => g2[k] = gs[k],
         g2[gi].active, g2[gi].game_id = gs[gi].game_id,
         g2[gi].phase = IF start THEN "PLACEMENT" ELSE "WAITING",
         g2[gi].client_slots[p] = ci,
         g2[gi].client_slots[Opponent(p)] = gs[gi].client_slots[Opponent(p)],
         g2[gi].ships_received = gs[gi].ships_received,
         g2[gi].current_turn = gs[gi].current_turn,
         c2[ci].fd = fd, c2[ci].active, c2[ci].game_id = gs[gi].game_id,
         c2[ci].player_num = p, c2[ci].phase = g2[gi].phase, c2[ci].game_index = gi,
         \A k \in Clients : k # ci =>
             /\ c2[k].active = cs[k].active
             /\ c2[k].fd = cs[k].fd
             /\ c2[k].game_id = cs[k].game_id
             /\ c2[k].game_index = cs[k].game_index
             /\ c2[k].player_num = cs[k].player_num
             /\ c2[k].phase = IF cs[k].active /\ start /\ k = gs[gi].client_slots[Opponent(p)]
                              THEN "PLACEMENT" ELSE cs[k].phase
  PROVE  TablesOK(c2, g2, e, F \cup {fd})
<1> DEFINE q == Opponent(p)
           F2 == F \cup {fd}
<1>1. q \in Players /\ q # p /\ Players = {p, q}
  BY Opponents
<1>2. gs[gi].game_id \in GameIds
  BY DEF TablesOK, GameOK
<1> HIDE DEF q
<1>4. ASSUME NEW k \in Clients, c2[k].active PROVE ClientOK(c2, g2, F2, k)
  <2>1. CASE k = ci
    BY <2>1 DEF ClientOK
  <2>2. CASE k # ci
    <3>1. ClientOK(cs, gs, F, k)
      BY <2>2, <1>4 DEF TablesOK
    <3>2. CASE cs[k].game_index # gi
      <4>1. gs[gi].client_slots[q] # k
        BY <3>2, <1>1, <1>4, <2>2, Nones DEF TablesOK, GameOK, SeatOK
      <4> QED BY <4>1, <3>1, <3>2, <2>2 DEF ClientOK, q
    <3>3. CASE cs[k].game_index = gi
      <4>1. cs[k].player_num = q /\ gs[gi].client_slots[q] = k
        BY <3>1, <3>3, <1>1, Nones DEF ClientOK
      <4>2. start
        BY <4>1, Nones DEF q
      <4>3. c2[k].phase = "PLACEMENT"
        BY <4>1, <4>2, <2>2, <1>4 DEF q
      <4>4. g2[gi].client_slots[q] = k /\ g2[gi].phase = "PLACEMENT"
        BY <4>1, <4>2 DEF q
      <4> QED BY <4>1, <4>3, <4>4, <3>1, <3>3, <2>2 DEF ClientOK
    <3> QED BY <3>2, <3>3
  <2> QED BY <2>1, <2>2
<1>5. ASSUME NEW k \in Games, g2[k].active PROVE GameOK(c2, g2, e, k)
  <2>1. CASE k = gi
    <3>1. GameOK(cs, gs, e, gi)
      BY DEF TablesOK
    <3>2. ASSUME NEW s \in Players PROVE SeatOK(c2, g2, gi, s)
      <4>1. CASE s = p
        BY <4>1 DEF SeatOK
      <4>2. CASE s = q
        <5>1. SeatOK(cs, gs, gi, q)
          BY <3>1, <1>1 DEF GameOK
        <5> QED BY <5>1, <4>2 DEF SeatOK, q
      <4> QED BY <4>1, <4>2, <1>1
    <3>3. g2[gi].phase = "WAITING" <=> \E s \in Players : g2[gi].client_slots[s] = NONE
      BY <1>1, Nones DEF q
    <3>4. BoardsOK(g2[gi], e[g2[gi].game_id])
      BY <3>1 DEF GameOK, BoardsOK
    <3> QED BY <3>2, <3>3, <3>4, <2>1, <1>2 DEF GameOK
  <2>2. CASE k # gi
    <3>1. GameOK(cs, gs, e, k) /\ g2[k] = gs[k]
      BY <2>2, <1>5 DEF TablesOK
    <3>2. ASSUME NEW s \in Players PROVE SeatOK(c2, g2, k, s)
      BY <3>1 DEF GameOK, SeatOK
    <3> QED BY <3>1, <3>2 DEF GameOK
  <2> QED BY <2>1, <2>2
<1>6. \A f \in F2 : \E k \in Clients : c2[k].active /\ c2[k].fd = f
  BY DEF TablesOK
<1>7. \A j, k \in Clients : c2[j].active /\ c2[k].active /\ c2[j].fd = c2[k].fd => j = k
  BY DEF TablesOK, ClientOK
<1>8. \A j, k \in Games : g2[j].active /\ g2[k].active
                          /\ g2[j].game_id = g2[k].game_id => j = k
  BY DEF TablesOK
<1>9. \A j \in GameIds : e[j].init => \E k \in Games : g2[k].active /\ g2[k].game_id = j
  BY DEF TablesOK
<1> QED
  BY <1>4, <1>5, <1>6, <1>7, <1>8, <1>9 DEF TablesOK

(* Ships or a move: one running game changes, and its phase with that of   *)
(* its clients, but nobody comes or goes.                                  *)
LEMMA RoundOK ==
  ASSUME NEW cs, NEW gs, NEW e, NEW F, TablesOK(cs, gs, e, F),
         NEW gi \in Games, gs[gi].active, gs[gi].phase # "WAITING",
         NEW g2 \in [Games -> Game], NEW c2 \in [Clients -> Client],
         NEW e2 \in [GameIds -> EngineGame],
         \A k \in Games : k # gi => g2[k] = gs[k],
         g2[gi].active, g2[gi].game_id = gs[gi].game_id,
         g2[gi].client_slots = gs[gi].client_slots, g2[gi].phase # "WAITING",
         \A j \in GameIds : j # gs[gi].game_id => e2[j] = e[j],
         BoardsOK(gs[gi], e[gs[gi].game_id]) => BoardsOK(g2[gi], e2[gs[gi].game_id]),
         \A k \in Clients :
             /\ c2[k].active = cs[k].active
             /\ c2[k].fd = cs[k].fd
             /\ c2[k].game_id = cs[k].game_id
             /\ c2[k].game_index = cs[k].game_index
             /\ c2[k].player_num = cs[k].player_num
             /\ cs[k].active =>
                   c2[k].phase = IF cs[k].game_index = gi THEN g2[gi].phase ELSE cs[k].phase
  PROVE  TablesOK(c2, g2, e2, F)
<1> DEFINE id == gs[gi].game_id
<1>1. GameOK(cs, gs, e, gi)
  BY DEF TablesOK
<1>2. id \in GameIds /\ BoardsOK(gs[gi], e[id]) /\ BoardsOK(g2[gi], e2[id])
  BY <1>1 DEF GameOK
<1>3. ASSUME NEW k \in Clients, c2[k].active PROVE ClientOK(c2, g2, F, k)
  <2>1. ClientOK(cs, gs, F, k) /\ cs[k].active
    BY <1>3 DEF TablesOK
  <2> QED BY <2>1 DEF ClientOK
<1>4. ASSUME NEW k \in Games, g2[k].active PROVE GameOK(c2, g2, e2, k)
  <2>1. GameOK(cs, gs, e, k) /\ gs[k].active /\ g2[k].game_id = gs[k].game_id
        /\ g2[k].client_slots = gs[k].client_slots
    BY <1>4 DEF TablesOK
  <2>2. \A p \in Players : SeatOK(c2, g2, k, p)
    BY <2>1 DEF GameOK, SeatOK
  <2>3. CASE k = gi
    BY <2>1, <2>2, <2>3, <1>1, <1>2 DEF GameOK
  <2>4. CASE k # gi
    <3>1. gs[k].game_id # id
      BY <2>1, <2>4 DEF TablesOK
    <3> QED BY <3>1, <2>1, <2>2, <2>4 DEF GameOK
  <2> QED BY <2>3, <2>4
<1>5. \A j \in GameIds : e2[j].init => \E k \in Games : g2[k].active /\ g2[k].game_id = j
  BY DEF TablesOK
<1>6. \A j, k \in Games : g2[j].active /\ g2[k].active
                          /\ g2[j].game_id = g2[k].game_id => j = k
  BY DEF TablesOK
<1>7. /\ \A f \in F : \E k \in Clients : c2[k].active /\ c2[k].fd = f
      /\ \A j, k \in Clients : c2[j].active /\ c2[k].active /\ c2[j].fd = c2[k].fd => j = k
  BY DEF TablesOK
<1> QED
  BY <1>3, <1>4, <1>5, <1>6, <1>7 DEF TablesOK
-----------------------------------------------------------------------------
(* What is sent consists of frames.                                        *)
LEMMA TellType ==
  ASSUME NEW F, NEW m \in Frame
  PROVE  Tell(F, m) \in [Fds -> Seq(Frame)]
  BY DEF Tell

(* Frames after frames are frames.                                         *)
LEMMA ThenType ==
  ASSUME NEW s \in [Fds -> Seq(Frame)], NEW t \in [Fds -> Seq(Frame)]
  PROVE  Then(s, t) \in [Fds -> Seq(Frame)]
<1> SUFFICES ASSUME NEW f \in Fds PROVE s[f] \o t[f] \in Seq(Frame)
  BY DEF Then
<1> QED BY ConcatProperties

(* Sending nothing is well typed.                                          *)
LEMMA SilenceType == Silence \in [Fds -> Seq(Frame)]
  BY DEF Silence

(* The replies of the handlers are frames.                                 *)
LEMMA FrameTypes ==
  /\ \A t \in {"JOIN_OK", "JOIN_FAIL", "READY", "SHIPS_FAIL", "ERROR", "GAME_OVER"} :
        <<t>> \in Frame
  /\ \A p \in Players : <<"SHIPS_ACK", p>> \in Frame
  /\ \A t \in {"MOVE_RESULT", "MOVE_EXT_RESULT", "OPP_MOVE"}, r \in TurnResult :
        <<t, r>> \in Frame
  BY DEF Frame

(* The count of clients can be taken.                                      *)
LEMMA ClientsFinite ==
  /\ IsFiniteSet(Clients) /\ Cardinality(Clients) = MAX_CLIENTS
  /\ \A S \in SUBSET Clients : IsFiniteSet(S) /\ Cardinality(S) \in Nat
<1>1. IsFiniteSet(Clients) /\ Cardinality(Clients) = MAX_CLIENTS
  BY SizesAssumption, FS_Interval DEF Clients
<1>2. \A S \in SUBSET Clients : IsFiniteSet(S)
  BY <1>1, FS_Subset
<1> QED BY <1>1, <1>2, FS_CardinalityType
-----------------------------------------------------------------------------
(* What the invariant says of a client that has sent a message.            *)
LEMMA ActiveClient ==
  ASSUME IInv, NEW ci \in ActiveClients
  PROVE  /\ ci \in Clients /\ clients[ci].active
         /\ GameOf(ci) \in Games /\ GameOf(ci) # NONE
         /\ games[GameOf(ci)].active
         /\ clients[ci].player_num \in Players
         /\ games[GameOf(ci)].game_id \in GameIds
         /\ ClientOK(clients, games, open, ci)
         /\ GameOK(clients, games, engine, GameOf(ci))
  BY Nones DEF IInv, TablesOK, ClientOK, GameOK, ActiveClients, GameOf

(* The clients in the seats of a game are those who say they play in it.   *)
LEMMA SeatedExactly ==
  ASSUME IInv, NEW gi \in Games, games[gi].active, NEW ci \in Clients, clients[ci].active
  PROVE  ci \in Seated(gi) <=> clients[ci].game_index = gi
<1>1. clients[ci].game_index = gi => ci \in Seated(gi)
  BY DEF IInv, TablesOK, ClientOK, Seated, ActiveClients
<1>2. ci \in Seated(gi) => clients[ci].game_index = gi
  BY Nones DEF IInv, TablesOK, GameOK, SeatOK, Seated
<1> QED BY <1>1, <1>2

(* Ending the game of a client.                                            *)
LEMMA CloseGameInv ==
  ASSUME IInv, NEW gi \in Games, games[gi].active,
         NEW r \in [Fds -> Seq(Frame)], NEW m \in {<<"ERROR">>, <<"GAME_OVER">>},
         CloseGame(gi, r, m)
  PROVE  IInv'
<1>1. Seated(gi) = {ci \in Clients : clients[ci].active
                        /\ \E p \in Players : games[gi].client_slots[p] = ci}
  BY DEF Seated, ActiveClients
<1>2. FdsOf(Seated(gi)) = {clients[ci].fd : ci \in Seated(gi)}
  BY DEF FdsOf
<1>3. TablesOK(clients', games', engine', open')
  <2>1. /\ clients' = [ci \in Clients |-> IF ci \in Seated(gi) THEN FreeClient ELSE clients[ci]]
        /\ games' = [games EXCEPT ![gi] = FreeGame]
        /\ engine' = engine_end_game(engine, games[gi].game_id)
        /\ open' = open \ {clients[ci].fd : ci \in Seated(gi)}
    BY <1>2 DEF CloseGame
  <2>2. TablesOK(clients, games, engine, open)
    BY DEF IInv
  <2> HIDE DEF Clients
  <2>3. TablesOK(clients', [games EXCEPT ![gi] = FreeGame],
                 engine_end_game(engine, games[gi].game_id),
                 open \ {clients[ci].fd : ci \in Seated(gi)})
    BY <1>1, <2>1, <2>2, CloseOK
  <2> QED BY <2>1, <2>3
<1>4. Cardinality(Seated(gi)) \in Nat
  BY <1>1, ClientsFinite
<1>5. num_clients' \in Nat
  BY <1>4 DEF CloseGame, Decrement, IInv
<1>6. sent' \in [Fds -> Seq(Frame)]
  BY TellType, ThenType, FrameTypes DEF CloseGame
<1> QED BY <1>3, <1>5, <1>6 DEF IInv

(* Joining: gs and e are the tables after the game was found or made.      *)
LEMMA JoinInv ==
  ASSUME IInv, NEW fd \in Fds \ open, NEW id \in GameIds, NEW gi \in Games,
         NEW gs, NEW e, TablesOK(clients, gs, e, open),
         gs[gi].active, gs[gi].game_id = id,
         Join(fd, id, gi, gs, e)
  PROVE  IInv'
<1>1. CASE Refuse(fd, gs, e)
  BY <1>1, TellType, FrameTypes DEF Refuse, IInv
<1>2. ASSUME NEW p \in Players, NEW ci \in Clients,
             IsFirst(p, EmptySeats(gs[gi])), IsFirst(ci, FreeClients),
             engine' = e, SitDown(fd, id, gi, gs, ci, p)
      PROVE  IInv'
  <2> DEFINE q == Opponent(p)
             start == gs[gi].client_slots[q] # NONE
             g == [gs[gi] EXCEPT !.client_slots[p] = ci]
             ready == Paired(ci, g.client_slots[q])
  <2>1. /\ ~clients[ci].active /\ gs[gi].client_slots[p] = NONE
        /\ fd \in Fds /\ fd \notin open
    BY <1>2 DEF IsFirst, FreeClients, ActiveClients, EmptySeats
  <2>2. /\ gs \in [Games -> Game] /\ gs[gi] \in Game /\ GameOK(clients, gs, e, gi)
        /\ clients \in [Clients -> Client]
    BY DEF TablesOK
  <2>3. gs[gi].phase = "WAITING"
    BY <2>1, <2>2 DEF GameOK
  <2>4. q \in Players /\ q # p /\ Players = {p, q}
    BY Opponents
  <2>5. /\ g \in Game /\ g.active /\ g.game_id = gs[gi].game_id /\ g.phase = "WAITING"
        /\ g.client_slots[p] = ci /\ g.client_slots[q] = gs[gi].client_slots[q]
        /\ g.ships_received = gs[gi].ships_received
        /\ g.current_turn = gs[gi].current_turn
    BY <2>2, <2>3, <2>4 DEF Game
  <2>6. EmptySeats(g) = {} <=> start
    BY <2>4, <2>5, Nones DEF EmptySeats
  <2>7. ready \in SUBSET Clients /\ \A k \in Clients : k \in ready <=>
            k = ci \/ (clients[k].active /\ k = gs[gi].client_slots[q])
    BY <2>5 DEF Paired, ActiveClients
  <2> HIDE DEF q, g, ready
  <2>8. /\ games' = [gs EXCEPT ![gi] = IF start THEN [g EXCEPT !.phase = "PLACEMENT"] ELSE g]
        /\ clients' = [k \in Clients |->
             LET c == IF k = ci THEN [fd |-> fd, active |-> TRUE, game_id |-> id,
                                      player_num |-> p, phase |-> "WAITING",
                                      game_index |-> gi]
                      ELSE clients[k]
             IN  IF start /\ k \in ready THEN [c EXCEPT !.phase = "PLACEMENT"] ELSE c]
        /\ open' = open \cup {fd}
        /\ num_clients' = num_clients + 1
    BY <1>2, <2>6 DEF SitDown, g, ready, q
  <2>9. /\ games' \in [Games -> Game] /\ \A k \in Games : k # gi => games'[k] = gs[k]
        /\ games'[gi].active /\ games'[gi].game_id = id
        /\ games'[gi].phase = (IF start THEN "PLACEMENT" ELSE "WAITING")
        /\ games'[gi].client_slots = g.client_slots
        /\ games'[gi].ships_received = gs[gi].ships_received
        /\ games'[gi].current_turn = gs[gi].current_turn
    BY <2>2, <2>5, <2>8 DEF Game, GamePhase
  <2> DEFINE new == [fd |-> fd, active |-> TRUE, game_id |-> id, player_num |-> p,
                     phase |-> IF start THEN "PLACEMENT" ELSE "WAITING", game_index |-> gi]
  <2>10a. new \in Client
    BY <2>1 DEF Client, ClientPhase, GamePhase
  <2>10b. clients'[ci] = new
    BY <2>7, <2>8
  <2>10c. \A k \in Clients : k # ci => clients'[k] \in Client
    BY <2>2, <2>8 DEF Client, ClientPhase, GamePhase
  <2>10. /\ clients' \in [Clients -> Client]
         /\ clients'[ci].fd = fd /\ clients'[ci].active /\ clients'[ci].game_id = id
         /\ clients'[ci].player_num = p /\ clients'[ci].game_index = gi
         /\ clients'[ci].phase = games'[gi].phase
    <3>1. \A k \in Clients : clients'[k] \in Client
      BY <2>10a, <2>10b, <2>10c
    <3>2. clients' \in [Clients -> Client]
      BY <3>1, <2>8
    <3> QED BY <3>2, <2>10b, <2>9
  <2>11. \A k \in Clients : k # ci =>
             /\ clients'[k].active = clients[k].active
             /\ clients'[k].fd = clients[k].fd
             /\ clients'[k].game_id = clients[k].game_id
             /\ clients'[k].game_index = clients[k].game_index
             /\ clients'[k].player_num = clients[k].player_num
             /\ clients'[k].phase = IF clients[k].active /\ start
                                       /\ k = gs[gi].client_slots[q]
                                    THEN "PLACEMENT" ELSE clients[k].phase
    BY <2>2, <2>7, <2>8 DEF Client
  <2>12. TablesOK(clients', games', engine', open')
    <3>1. start \in BOOLEAN /\ (start <=> gs[gi].client_slots[Opponent(p)] # NONE)
      BY DEF q
    <3>2. /\ games'[gi].client_slots[p] = ci
          /\ games'[gi].client_slots[Opponent(p)] = gs[gi].client_slots[Opponent(p)]
      BY <2>5, <2>9 DEF q
    <3>3. TablesOK(clients', games', e, open \cup {fd})
      <4> HIDE DEF start, new
      <4> QED BY <2>1, <2>3, <2>9, <2>10, <2>11, <3>1, <3>2, SitDownOK DEF q
    <3> QED BY <3>3, <1>2, <2>8
  <2>13. num_clients' \in Nat
    BY <2>8 DEF IInv
  <2>14. sent' \in [Fds -> Seq(Frame)]
    BY <1>2, TellType, ThenType, FrameTypes DEF SitDown
  <2> QED BY <2>12, <2>13, <2>14 DEF IInv
<1>3. ASSUME engine' = e, SitDownUndone(gs) PROVE IInv'
  BY <1>3, SilenceType DEF SitDownUndone, IInv
<1> QED BY <1>1, <1>2, <1>3 DEF Join

(* Every way to answer a new connection.                                   *)
LEMMA NewConnectionInv ==
  ASSUME IInv, NEW fd \in Fds \ open, NEW id \in GameIds,
         server_handle_new_connection(fd, id)
  PROVE  IInv'
<1>0. TablesOK(clients, games, engine, open)
  BY DEF IInv
<1>1. CASE JoinExisting(fd, id)
  <2>1. PICK gi \in Games : IsFirst(gi, GamesWithId(id)) /\ Join(fd, id, gi, games, engine)
    BY <1>1 DEF JoinExisting
  <2>2. games[gi].active /\ games[gi].game_id = id
    BY <2>1 DEF IsFirst, GamesWithId, ActiveGames
  <2> QED BY <1>0, <2>1, <2>2, JoinInv
<1>2. CASE JoinCreated(fd, id)
  <2>1. PICK gi \in Games :
           /\ IsFirst(gi, FreeGames)
           /\ Join(fd, id, gi, Created(gi, id), engine_init_game(engine, id))
    BY <1>2 DEF JoinCreated
  <2>2. ~games[gi].active /\ ~engine[id].init
    BY <1>2, <2>1 DEF IsFirst, FreeGames, ActiveGames, JoinCreated, CanInitGame
  <2>3. TablesOK(clients, Created(gi, id), engine_init_game(engine, id), open)
    BY <1>0, <2>2, CreateOK DEF Created
  <2>4. Created(gi, id)[gi].active /\ Created(gi, id)[gi].game_id = id
    BY <1>0 DEF Created, TablesOK, FreeGame
  <2> QED BY <2>1, <2>3, <2>4, JoinInv
<1>3. CASE EngineRefusesGame(fd, id)
  <2>1. PICK gi \in Games : /\ IsFirst(gi, FreeGames)
                            /\ Refuse(fd, [games EXCEPT ![gi] = FreeGame], engine)
    BY <1>3 DEF EngineRefusesGame
  <2>2. ~games[gi].active
    BY <2>1 DEF IsFirst, FreeGames, ActiveGames
  <2>3. TablesOK(clients, [games EXCEPT ![gi] = FreeGame], engine, open)
    BY <1>0, <2>2, ForgetOK
  <2> QED BY <2>1, <2>3, TellType, FrameTypes DEF Refuse, IInv
<1>4. CASE NoFreeGame(fd, id)
  BY <1>4, TellType, FrameTypes DEF NoFreeGame, Refuse, IInv
<1> QED BY <1>1, <1>2, <1>3, <1>4 DEF server_handle_new_connection
-----------------------------------------------------------------------------
(* A reply that changes no table.                                          *)
LEMMA ReplyInv ==
  ASSUME IInv, NEW ci, NEW m \in Frame, Reply(ci, m)
  PROVE  IInv'
  BY TellType DEF Reply, tables, IInv

(* server_end_game keeps the invariant, whoever sits in the game.          *)
LEMMA EndGameInv ==
  ASSUME IInv, NEW gi \in Games, games[gi].active, server_end_game(gi)
  PROVE  IInv'
  BY SilenceType, CloseGameInv DEF server_end_game

(* Placing ships: the engine's next board is free, and it is the second    *)
(* one when somebody's ships are in.                                       *)
LEMMA ShipsInv ==
  ASSUME IInv, NEW ci \in ActiveClients, PlaceShips(ci),
         ShipsRepeated(ci) \/ ShipsAccepted(ci)
  PROVE  IInv'
<1> DEFINE gi == GameOf(ci)
           p == clients[ci].player_num
           id == games[gi].game_id
           b == NextBoard(engine, id)
           g == [games[gi] EXCEPT !.ships_received[p] = TRUE]
           both == \A q \in Players : g.ships_received[q]
<1>1. /\ ci \in Clients /\ gi \in Games /\ games[gi].active /\ p \in Players
      /\ id \in GameIds /\ GameOK(clients, games, engine, gi)
      /\ clients[ci].game_index = gi
  BY ActiveClient DEF GameOf
<1>2. /\ clients \in [Clients -> Client] /\ games \in [Games -> Game] /\ games[gi] \in Game
      /\ engine \in [GameIds -> EngineGame] /\ engine[id] \in EngineGame
      /\ TablesOK(clients, games, engine, open)
  BY <1>1 DEF IInv, TablesOK
<1>3. games[gi].phase = "PLACEMENT" /\ engine[id].init /\ engine[id].fleet[b] = NoFleet
  BY DEF PlaceShips, InPhase, CanPlaceShips
<1>4. b = (IF engine[id].fleet[1] = NoFleet THEN 1 ELSE 2)
  BY DEF NextBoard
<1>5. /\ engine' = engine_place_ships(engine, id, p)
      /\ UNCHANGED <<num_clients, open>>
  BY DEF PlaceShips
<1>6. /\ engine' \in [GameIds -> EngineGame]
      /\ \A j \in GameIds : j # id => engine'[j] = engine[j]
      /\ engine'[id].init /\ engine'[id].turn = engine[id].turn
      /\ engine'[id].fleet[1] = (IF b = 1 THEN p ELSE engine[id].fleet[1])
      /\ engine'[id].fleet[2] = (IF b = 2 THEN p ELSE engine[id].fleet[2])
  BY <1>1, <1>2, <1>3, <1>4, <1>5 DEF engine_place_ships, EngineGame, Players
<1>7. p # NoFleet
  BY <1>1 DEF Players, NoFleet
<1>10. \A r \in Players : (\E q \in Players : engine'[id].fleet[q] = r)
                           <=> r = p \/ \E q \in Players : engine[id].fleet[q] = r
  <2>1. \A r \in Players : r # NoFleet
    BY DEF Players, NoFleet
  <2>2. CASE b = 1
    BY <2>1, <2>2, <1>3, <1>6 DEF Players
  <2>3. CASE b = 2
    BY <2>1, <2>3, <1>3, <1>6 DEF Players
  <2> QED BY <2>2, <2>3, <1>4
<1> HIDE DEF gi, p, id, b
<1>8. CASE ShipsRepeated(ci)
  <2>1. games[gi].ships_received[p] /\ UNCHANGED <<clients, games>>
        /\ sent' = Tell({clients[ci].fd}, <<"SHIPS_FAIL">>)
    BY <1>8 DEF ShipsRepeated, gi, p
  <2>2. BoardsOK(games[gi], engine[id]) => BoardsOK(games[gi], engine'[id])
    <3> SUFFICES ASSUME BoardsOK(games[gi], engine[id])
                 PROVE  BoardsOK(games[gi], engine'[id])
      OBVIOUS
    <3>1. \A r \in Players : games[gi].ships_received[r]
                             <=> \E q \in Players : engine'[id].fleet[q] = r
      BY <2>1, <1>10 DEF BoardsOK
    <3>2. engine'[id].fleet[1] # NoFleet
      BY <1>4, <1>6, <1>7
    <3>3. engine'[id].fleet[2] = NoFleet => \E q \in Players : ~games[gi].ships_received[q]
      BY <2>1, <1>1, <1>4, <1>6, <1>7 DEF BoardsOK
    <3> QED BY <3>1, <3>2, <3>3, <1>6 DEF BoardsOK
  <2>3. \A k \in Clients : clients[k].active /\ clients[k].game_index = gi =>
                              clients[k].phase = games[gi].phase
    BY <1>2 DEF TablesOK, ClientOK
  <2>4. TablesOK(clients, games, engine', open)
    BY <2>2, <2>3, <1>1, <1>2, <1>3, <1>6, RoundOK DEF id
  <2> QED BY <2>1, <2>4, <1>5, TellType, FrameTypes DEF IInv
<1>9. CASE ShipsAccepted(ci)
  <2>1. /\ ~games[gi].ships_received[p]
        /\ games' = [games EXCEPT ![gi] =
                       IF both THEN [g EXCEPT !.phase = "PLAYING", !.current_turn = 1] ELSE g]
        /\ clients' = [k \in Clients |-> IF both /\ k \in Seated(gi)
                                         THEN [clients[k] EXCEPT !.phase = "PLAYING"]
                                         ELSE clients[k]]
    BY <1>9 DEF ShipsAccepted, gi, p
  <2>2. /\ g \in Game /\ g.active /\ g.game_id = id /\ g.phase = "PLACEMENT"
        /\ g.client_slots = games[gi].client_slots
        /\ g.current_turn = games[gi].current_turn
        /\ \A q \in Players : g.ships_received[q] <=> q = p \/ games[gi].ships_received[q]
    BY <1>1, <1>2, <1>3 DEF Game, id
  <2> HIDE DEF g
  <2>3. /\ games' \in [Games -> Game] /\ \A k \in Games : k # gi => games'[k] = games[k]
        /\ games'[gi].active /\ games'[gi].game_id = id
        /\ games'[gi].phase = (IF both THEN "PLAYING" ELSE "PLACEMENT")
        /\ games'[gi].client_slots = games[gi].client_slots
        /\ games'[gi].ships_received = g.ships_received
        /\ games'[gi].current_turn = (IF both THEN 1 ELSE games[gi].current_turn)
    BY <1>1, <1>2, <2>1, <2>2 DEF Game, GamePhase, Players
  <2>4. BoardsOK(games[gi], engine[id]) => BoardsOK(games'[gi], engine'[id])
    <3> SUFFICES ASSUME BoardsOK(games[gi], engine[id])
                 PROVE  BoardsOK(games'[gi], engine'[id])
      OBVIOUS
    <3>1. engine[id].turn = 1 /\ games[gi].current_turn = 1
      BY <1>3 DEF BoardsOK
    <3>2. engine[id].fleet[1] = NoFleet => \A q \in Players : ~games[gi].ships_received[q]
      BY DEF BoardsOK
    <3>3. engine'[id].fleet[1] # NoFleet
      BY <1>4, <1>6, <1>7
    <3>4. engine'[id].fleet[2] = NoFleet => \E q \in Players : ~g.ships_received[q]
      <4> SUFFICES ASSUME engine'[id].fleet[2] = NoFleet
                   PROVE  \E q \in Players : ~g.ships_received[q]
        OBVIOUS
      <4>1. \A q \in Players : ~games[gi].ships_received[q]
        BY <1>4, <1>6, <1>7, <3>2
      <4> QED BY <4>1, <2>2, <1>1, Opponents
    <3>5. \A r \in Players : games'[gi].ships_received[r]
                             <=> \E q \in Players : engine'[id].fleet[q] = r
      BY <1>10, <2>2, <2>3 DEF BoardsOK
    <3>6. games'[gi].phase = "PLAYING" <=> \A q \in Players : games'[gi].ships_received[q]
      BY <2>3
    <3>7. engine'[id].turn = games'[gi].current_turn /\ games'[gi].current_turn = 1
      BY <3>1, <1>6, <2>3
    <3> QED BY <3>3, <3>4, <3>5, <3>6, <3>7, <1>6, <2>3 DEF BoardsOK
  <2>5. \A k \in Clients : clients[k].active => (k \in Seated(gi) <=> clients[k].game_index = gi)
    BY <1>1, SeatedExactly
  <2>6. clients' \in [Clients -> Client]
    BY <1>2, <2>1 DEF Client, ClientPhase, GamePhase
  <2>7. \A k \in Clients :
           /\ clients'[k].active = clients[k].active
           /\ clients'[k].fd = clients[k].fd
           /\ clients'[k].game_id = clients[k].game_id
           /\ clients'[k].game_index = clients[k].game_index
           /\ clients'[k].player_num = clients[k].player_num
           /\ clients'[k].phase = IF both /\ k \in Seated(gi) THEN "PLAYING"
                                  ELSE clients[k].phase
    BY <1>2, <2>1 DEF Client
  <2>8. \A k \in Clients : clients[k].active =>
           clients'[k].phase = IF clients[k].game_index = gi THEN games'[gi].phase
                               ELSE clients[k].phase
    BY <2>3, <2>5, <2>7, <1>2, <1>3 DEF TablesOK, ClientOK
  <2>9. TablesOK(clients', games', engine', open)
    BY <1>1, <1>2, <1>3, <1>6, <2>3, <2>4, <2>6, <2>7, <2>8, RoundOK DEF id
  <2>10. sent' \in [Fds -> Seq(Frame)]
    BY <1>9, TellType, ThenType, SilenceType, FrameTypes DEF ShipsAccepted, send_ships_ack, Players
  <2> QED BY <2>9, <2>10, <1>5 DEF IInv
<1> QED BY <1>8, <1>9

(* A move that the engine takes and that does not win.                     *)
LEMMA MovePlayedInv ==
  ASSUME IInv, NEW ci \in ActiveClients, NEW reply \in {"MOVE_RESULT", "MOVE_EXT_RESULT"},
         MovePlayed(ci, reply)
  PROVE  IInv'
<1> DEFINE gi == GameOf(ci)
           id == games[gi].game_id
<1>1. /\ ci \in Clients /\ gi \in Games /\ games[gi].active
      /\ id \in GameIds /\ GameOK(clients, games, engine, gi)
  BY ActiveClient
<1>2. /\ games \in [Games -> Game] /\ games[gi] \in Game
      /\ clients \in [Clients -> Client]
      /\ engine \in [GameIds -> EngineGame] /\ engine[id] \in EngineGame
      /\ TablesOK(clients, games, engine, open)
  BY <1>1 DEF IInv, TablesOK
<1>3. games[gi].phase = "PLAYING"
  BY DEF MovePlayed, EngineTurn, InPhase
<1>4. /\ engine' = engine_take_turn(engine, id)
      /\ games' = [games EXCEPT ![gi].current_turn = IF @ = 1 THEN 2 ELSE 1]
      /\ UNCHANGED <<clients, num_clients, open>>
  BY DEF MovePlayed
<1>5. /\ engine' \in [GameIds -> EngineGame]
      /\ \A j \in GameIds : j # id => engine'[j] = engine[j]
      /\ engine'[id].init = engine[id].init
      /\ engine'[id].fleet = engine[id].fleet
      /\ engine'[id].turn = 3 - engine[id].turn
  BY <1>1, <1>2, <1>4 DEF engine_take_turn, EngineGame, Opponent, Players
<1>6. /\ games' \in [Games -> Game] /\ \A k \in Games : k # gi => games'[k] = games[k]
      /\ games'[gi].active /\ games'[gi].game_id = id /\ games'[gi].phase = "PLAYING"
      /\ games'[gi].client_slots = games[gi].client_slots
      /\ games'[gi].ships_received = games[gi].ships_received
      /\ games'[gi].current_turn = (IF games[gi].current_turn = 1 THEN 2 ELSE 1)
  BY <1>1, <1>2, <1>3, <1>4 DEF Game, GamePhase, Players
<1>7. engine[id].turn \in {1, 2}
  BY <1>2 DEF EngineGame, Players
<1> HIDE DEF gi, id
<1>8. BoardsOK(games[gi], engine[id]) => BoardsOK(games'[gi], engine'[id])
  BY <1>3, <1>5, <1>6, <1>7 DEF BoardsOK
<1>9. \A k \in Clients : clients[k].active /\ clients[k].game_index = gi =>
                            clients[k].phase = games[gi].phase
  BY <1>2 DEF TablesOK, ClientOK
<1>10. TablesOK(clients, games', engine', open)
  BY <1>1, <1>2, <1>3, <1>5, <1>6, <1>8, <1>9, RoundOK DEF id
<1>11. sent' \in [Fds -> Seq(Frame)]
  BY TellType, ThenType, FrameTypes DEF MovePlayed, MoveReplies, TurnResult
<1> QED BY <1>4, <1>10, <1>11 DEF IInv

(* Every message of a connected client.                                    *)
LEMMA ClientMessageInv ==
  ASSUME IInv, NEW ci \in ActiveClients, NEW type, server_handle_client_message(ci, type)
  PROVE  IInv'
<1>1. GameOf(ci) \in Games /\ GameOf(ci) # NONE /\ games[GameOf(ci)].active
  BY ActiveClient
<1>2. CASE handle_ships(ci)
  <2>1. CASE OutOfPhase(ci, "PLACEMENT")
    BY <2>1, ReplyInv, FrameTypes DEF OutOfPhase
  <2>2. CASE \E valid \in BOOLEAN : ShipsRejected(ci, valid)
    BY <2>2, <1>1, EndGameInv DEF ShipsRejected
  <2>3. CASE ShipsRepeated(ci)
    BY <2>3, ShipsInv DEF ShipsRepeated
  <2>4. CASE ShipsAccepted(ci)
    BY <2>4, ShipsInv DEF ShipsAccepted
  <2> QED BY <1>2, <2>1, <2>2, <2>3, <2>4 DEF handle_ships
<1>3. ASSUME NEW reply \in {"MOVE_RESULT", "MOVE_EXT_RESULT"}, handle_move(ci, reply)
      PROVE  IInv'
  <2>1. CASE OutOfPhase(ci, "PLAYING")
    BY <2>1, ReplyInv, FrameTypes DEF OutOfPhase
  <2>2. CASE MoveMalformed(ci)
    BY <2>2, <1>1, EndGameInv DEF MoveMalformed
  <2>3. CASE MoveInvalid(ci, reply)
    BY <2>3, ReplyInv, FrameTypes DEF MoveInvalid, TurnResult
  <2>4. CASE MoveUnanswered(ci)
    BY <2>4, <1>1, EndGameInv DEF MoveUnanswered
  <2>5. CASE MovePlayed(ci, reply)
    BY <2>5, MovePlayedInv
  <2>6. CASE MoveWins(ci, reply)
    <3>1. MoveReplies(ci, reply, "Win") \in [Fds -> Seq(Frame)]
      BY TellType, ThenType, FrameTypes DEF MoveReplies, TurnResult
    <3> QED BY <3>1, <2>6, <1>1, CloseGameInv DEF MoveWins
  <2> QED BY <1>3, <2>1, <2>2, <2>3, <2>4, <2>5, <2>6 DEF handle_move
<1>4. CASE Default(ci)
  BY <1>1, <1>4, EndGameInv DEF Default
<1> QED BY <1>2, <1>3, <1>4 DEF server_handle_client_message

(* The tables are consistent when the server starts.                       *)
LEMMA InitInv == Init => IInv
<1> SUFFICES ASSUME Init PROVE IInv
  OBVIOUS
<1>1. TablesOK(clients, games, engine, open)
  BY FreeTypes DEF Init, TablesOK, FreeClient, FreeGame, engine_init, NoEngineGame,
                   EngineGame, NoFleet, Players
<1> QED BY <1>1, SilenceType DEF Init, IInv

(* No step of the server breaks the invariant.                             *)
LEMMA NextInv == IInv /\ [Next]_vars => IInv'
<1> SUFFICES ASSUME IInv, [Next]_vars PROVE IInv'
  OBVIOUS
<1>1. ASSUME NEW fd \in Fds \ open, NoGameId(fd) PROVE IInv'
  BY <1>1, SilenceType DEF NoGameId, tables, IInv
<1>2. ASSUME NEW fd \in Fds \ open, NEW id \in GameIds, server_handle_new_connection(fd, id)
      PROVE  IInv'
  BY <1>2, NewConnectionInv
<1>3. ASSUME NEW ci \in ActiveClients, NEW type \in MsgType,
             server_handle_client_message(ci, type)
      PROVE  IInv'
  BY <1>3, ClientMessageInv
<1>4. ASSUME NEW ci \in ActiveClients, server_on_client_disconnect(ci) PROVE IInv'
  BY <1>4, ActiveClient, EndGameInv DEF server_on_client_disconnect
<1>5. CASE UNCHANGED vars
  BY <1>5 DEF vars, IInv
<1> QED BY <1>1, <1>2, <1>3, <1>4, <1>5 DEF Next

(* The inductive invariant holds in every state the server reaches.        *)
THEOREM Invariance == Spec => []IInv
  BY InitInv, NextInv, PTL DEF Spec
-----------------------------------------------------------------------------
(* The invariants the runs check follow from it.                           *)

(* Every table entry, the engine's state and all that is sent keep their   *)
(* types in every state of the server.                                     *)
THEOREM TypeCorrect == Spec => []TypeOK
<1>1. IInv => TypeOK
  BY DEF IInv, TablesOK, TypeOK
<1> QED BY <1>1, Invariance, PTL

(* A client and its seat point at each other (game.c:458, 461, 138).       *)
THEOREM SeatsAreConsistent == Spec => []SeatsConsistent
<1>1. IInv => SeatsConsistent
  <2> SUFFICES ASSUME IInv PROVE SeatsConsistent
    OBVIOUS
  <2>1. ASSUME NEW ci \in ActiveClients
        PROVE  /\ clients[ci].game_index \in ActiveGames
               /\ clients[ci].player_num \in Players
               /\ clients[ci].game_id = games[clients[ci].game_index].game_id
               /\ games[clients[ci].game_index].client_slots[clients[ci].player_num] = ci
    BY ActiveClient DEF GameOf, ActiveGames, ClientOK
  <2>2. ASSUME NEW gi \in ActiveGames, NEW p \in Players, games[gi].client_slots[p] # NONE
        PROVE  /\ games[gi].client_slots[p] \in ActiveClients
               /\ clients[games[gi].client_slots[p]].game_index = gi
               /\ clients[games[gi].client_slots[p]].player_num = p
    BY <2>2 DEF IInv, TablesOK, GameOK, SeatOK, ActiveGames, ActiveClients
  <2> QED BY <2>1, <2>2 DEF SeatsConsistent
<1> QED BY <1>1, Invariance, PTL

(* The lookup by game id finds the only running game of that id (game.c:69 *)
(* and the engine's refusal at 419).                                       *)
THEOREM GameIdsAreUnique == Spec => []OneGamePerId
<1>1. IInv => OneGamePerId
  BY DEF IInv, TablesOK, GameOK, OneGamePerId, ActiveGames
<1> QED BY <1>1, Invariance, PTL

(* The engine's games are those of the table (game.c:143, 306, 352, 419).  *)
THEOREM EngineIsMirrored == Spec => []EngineMirrorsTable
<1>1. IInv => EngineMirrorsTable
  <2> SUFFICES ASSUME IInv, NEW id \in GameIds
               PROVE  engine[id].init <=> \E gi \in Games : games[gi].active
                                                           /\ games[gi].game_id = id
    BY DEF EngineMirrorsTable, GamesWithId, ActiveGames
  <2> QED BY DEF IInv, TablesOK, GameOK, BoardsOK
<1> QED BY <1>1, Invariance, PTL

(* The phases of a game, of its seats and of its clients agree (game.c:157,*)
(* 173, 176, 467).                                                         *)
THEOREM PhasesDoAgree == Spec => []PhasesAgree
<1>1. IInv => PhasesAgree
  <2> SUFFICES ASSUME IInv, NEW gi \in ActiveGames
               PROVE  /\ games[gi].phase = "WAITING" <=> EmptySeats(games[gi]) # {}
                      /\ \A ci \in Seated(gi) : clients[ci].phase = games[gi].phase
    BY DEF PhasesAgree
  <2>1. games[gi].phase = "WAITING" <=> EmptySeats(games[gi]) # {}
    BY DEF IInv, TablesOK, GameOK, EmptySeats, ActiveGames
  <2>2. ASSUME NEW ci \in Seated(gi) PROVE clients[ci].phase = games[gi].phase
    <3>1. ci \in Clients /\ clients[ci].active /\ clients[ci].game_index = gi
      BY SeatedExactly DEF Seated, ActiveClients, ActiveGames
    <3> QED BY <3>1 DEF IInv, TablesOK, ClientOK
  <2> QED BY <2>1, <2>2
<1> QED BY <1>1, Invariance, PTL

(* The engine and the server agree about boards and turns (game.c:200,     *)
(* 214-217, 326, 372).                                                     *)
THEOREM EngineStaysInStep == Spec => []EngineInStep
<1>1. IInv => EngineInStep
  BY DEF IInv, TablesOK, GameOK, BoardsOK, EngineInStep, ActiveGames
<1> QED BY <1>1, Invariance, PTL

(* The open descriptors are those of the connected clients, one each       *)
(* (game.c:100, 131, 315, 359, 451).                                       *)
THEOREM DescriptorsAreExact == Spec => []DescriptorsExact
<1>1. IInv => DescriptorsExact
  BY DEF IInv, TablesOK, ClientOK, DescriptorsExact, FdsOf, ActiveClients
<1> QED BY <1>1, Invariance, PTL
-----------------------------------------------------------------------------
(* What a step does to the clients, for the count and the action           *)
(* properties: of the games, it touches gi alone.                          *)

(* Nothing but game gi, the engine's game of that id and the phase of its  *)
(* clients changes, and that phase only goes forward.                      *)
Promoted(c, d) == /\ d.phase # c.phase =>
                         <<c.phase, d.phase>> \in {<<"WAITING", "PLACEMENT">>,
                                                  <<"PLACEMENT", "PLAYING">>}
                  /\ \A f \in {"fd", "active", "game_id", "player_num", "game_index"} :
                         d[f] = c[f]

OnlyGame(gi, id) ==
    /\ \A k \in Games : k # gi => games'[k] = games[k]
    /\ \A j \in GameIds : j # id => engine'[j] = engine[j]
    /\ \A k \in Games : k # gi /\ games[k].active => games[k].game_id # id

OnlyClients(gi, S) ==
    \A k \in Clients : k \notin S =>
        /\ Promoted(clients[k], clients'[k])
        /\ clients'[k] # clients[k] => clients[k].active /\ clients[k].game_index = gi

Round(gi, id) == OnlyGame(gi, id) /\ OnlyClients(gi, {}) /\ num_clients' = num_clients

Arrival(gi, id, ci) ==
    /\ OnlyGame(gi, id) /\ OnlyClients(gi, {ci})
    /\ ~clients[ci].active /\ clients'[ci].active
    /\ num_clients' = num_clients + 1

(* A client entry that stays as it is has not been moved.                  *)
LEMMA Unpromoted == \A c : Promoted(c, c)
  BY DEF Promoted

(* What a new connection does: one game gets a client, or is made, or      *)
(* given back, and the others stay as they are.                            *)
LEMMA JoinCases ==
  ASSUME IInv, NEW fd \in Fds \ open, NEW id \in GameIds,
         server_handle_new_connection(fd, id)
  PROVE  \E gi \in Games : \/ Round(gi, id)
                           \/ \E ci \in Clients : Arrival(gi, id, ci)
<1>0. TablesOK(clients, games, engine, open)
  BY DEF IInv
<1>1. ASSUME NEW gi \in Games, NEW gs, NEW e, gs \in [Games -> Game], gs[gi] \in Game,
             clients \in [Clients -> Client],
             SeatOK(clients, gs, gi, 1), SeatOK(clients, gs, gi, 2),
             \A k \in Games : k # gi => gs[k] = games[k],
             \A j \in GameIds : j # id => e[j] = engine[j],
             \A k \in Games : k # gi /\ games[k].active => games[k].game_id # id,
             gs[gi].phase = "WAITING" \/ EmptySeats(gs[gi]) = {},
             \A k \in Clients : clients[k].active /\ clients[k].game_index = gi =>
                                clients[k].phase = gs[gi].phase,
             Join(fd, id, gi, gs, e)
      PROVE  Round(gi, id) \/ \E ci \in Clients : Arrival(gi, id, ci)
  <2>1. CASE Refuse(fd, gs, e)
    BY <2>1, <1>1, Unpromoted DEF Refuse, Round, OnlyGame, OnlyClients
  <2>2. ASSUME NEW p \in Players, NEW ci \in Clients, IsFirst(p, EmptySeats(gs[gi])),
               IsFirst(ci, FreeClients), engine' = e, SitDown(fd, id, gi, gs, ci, p)
        PROVE  Arrival(gi, id, ci)
    <3> DEFINE q == Opponent(p)
               g == [gs[gi] EXCEPT !.client_slots[p] = ci]
               start == EmptySeats(g) = {}
               ready == Paired(ci, g.client_slots[q])
    <3>1. ~clients[ci].active /\ gs[gi].phase = "WAITING" /\ gs[gi].client_slots[p] = NONE
      BY <2>2, <1>1 DEF IsFirst, FreeClients, ActiveClients, EmptySeats
    <3>2. q \in Players /\ q # p /\ SeatOK(clients, gs, gi, q)
      BY <1>1, Opponents DEF Players
    <3>3. g.client_slots[q] = gs[gi].client_slots[q]
      BY <1>1, <3>2 DEF Game
    <3>4. \A k \in Clients : k \in ready /\ k # ci =>
             clients[k].active /\ clients[k].game_index = gi /\ clients[k].phase = "WAITING"
      <4>1. \A k \in Clients : k \in ready /\ k # ci =>
               clients[k].active /\ k = gs[gi].client_slots[q]
        BY <3>3 DEF Paired, ActiveClients
      <4> QED BY <4>1, <3>1, <3>2, <1>1, Nones DEF SeatOK
    <3> HIDE DEF q, g, ready
    <3>5. /\ games' = [gs EXCEPT ![gi] = IF start THEN [g EXCEPT !.phase = "PLACEMENT"] ELSE g]
          /\ clients' = [k \in Clients |->
               LET c == IF k = ci THEN [fd |-> fd, active |-> TRUE, game_id |-> id,
                                        player_num |-> p, phase |-> "WAITING",
                                        game_index |-> gi]
                        ELSE clients[k]
               IN  IF start /\ k \in ready THEN [c EXCEPT !.phase = "PLACEMENT"] ELSE c]
          /\ num_clients' = num_clients + 1
      BY <2>2 DEF SitDown, g, ready, q
    <3> HIDE DEF start
    <3>6. clients'[ci].active
      BY <3>5
    <3>7. ASSUME NEW k \in Clients, k # ci
          PROVE  /\ Promoted(clients[k], clients'[k])
                 /\ clients'[k] # clients[k] => clients[k].active /\ clients[k].game_index = gi
      <4>1. CASE start /\ k \in ready
        <5>1. clients'[k] = [clients[k] EXCEPT !.phase = "PLACEMENT"]
          BY <4>1, <3>5, <3>7
        <5> QED BY <5>1, <3>4, <3>7, <4>1, <1>1 DEF Promoted, Client
      <4>2. CASE ~(start /\ k \in ready)
        <5>1. clients'[k] = clients[k]
          BY <4>2, <3>5, <3>7
        <5> QED BY <5>1, Unpromoted
      <4> QED BY <4>1, <4>2
    <3>8. OnlyGame(gi, id)
      BY <3>5, <2>2, <1>1 DEF OnlyGame
    <3> QED BY <3>1, <3>5, <3>6, <3>7, <3>8 DEF Arrival, OnlyClients
  <2>3. ASSUME engine' = e, SitDownUndone(gs) PROVE Round(gi, id)
    BY <2>3, <1>1, Unpromoted DEF SitDownUndone, Round, OnlyGame, OnlyClients
  <2> QED BY <1>1, <2>1, <2>2, <2>3 DEF Join
<1>2. CASE JoinExisting(fd, id)
  <2>1. PICK gi \in Games : IsFirst(gi, GamesWithId(id)) /\ Join(fd, id, gi, games, engine)
    BY <1>2 DEF JoinExisting
  <2>2. games[gi].active /\ games[gi].game_id = id
    BY <2>1 DEF IsFirst, GamesWithId, ActiveGames
  <2>3. /\ games \in [Games -> Game] /\ games[gi] \in Game /\ clients \in [Clients -> Client]
        /\ \A k \in Games : k # gi /\ games[k].active => games[k].game_id # id
        /\ GameOK(clients, games, engine, gi)
    BY <1>0, <2>2 DEF TablesOK
  <2>4. \A k \in Clients : clients[k].active /\ clients[k].game_index = gi =>
                            clients[k].phase = games[gi].phase
    BY <1>0 DEF TablesOK, ClientOK
  <2>5. /\ games[gi].phase = "WAITING" \/ EmptySeats(games[gi]) = {}
        /\ SeatOK(clients, games, gi, 1) /\ SeatOK(clients, games, gi, 2)
    BY <2>3 DEF GameOK, EmptySeats, Players
  <2> QED BY <1>1, <2>1, <2>3, <2>4, <2>5
<1>3. CASE JoinCreated(fd, id)
  <2>1. PICK gi \in Games :
           /\ IsFirst(gi, FreeGames)
           /\ Join(fd, id, gi, Created(gi, id), engine_init_game(engine, id))
    BY <1>3 DEF JoinCreated
  <2>2. ~games[gi].active /\ ~engine[id].init
    BY <1>3, <2>1 DEF IsFirst, FreeGames, ActiveGames, JoinCreated, CanInitGame
  <2>3. TablesOK(clients, Created(gi, id), engine_init_game(engine, id), open)
    BY <1>0, <2>2, CreateOK DEF Created
  <2>4. /\ Created(gi, id)[gi].active /\ Created(gi, id)[gi].game_id = id
        /\ Created(gi, id)[gi].phase = "WAITING"
        /\ \A p \in Players : Created(gi, id)[gi].client_slots[p] = NONE
        /\ \A k \in Games : k # gi => Created(gi, id)[k] = games[k]
    BY <1>0 DEF Created, TablesOK, FreeGame
  <2>5. \A j \in GameIds : j # id => engine_init_game(engine, id)[j] = engine[j]
    BY <1>0 DEF engine_init_game, TablesOK
  <2>6. \A k \in Games : games[k].active => games[k].game_id # id
    BY <1>0, <2>2 DEF TablesOK, GameOK, BoardsOK
  <2>7. \A k \in Clients : clients[k].active => clients[k].game_index # gi
    BY <1>0, <2>2 DEF TablesOK, ClientOK
  <2>8. SeatOK(clients, Created(gi, id), gi, 1) /\ SeatOK(clients, Created(gi, id), gi, 2)
    BY <2>4 DEF SeatOK, Players
  <2>9. Created(gi, id) \in [Games -> Game] /\ Created(gi, id)[gi] \in Game
        /\ clients \in [Clients -> Client]
    BY <2>3 DEF TablesOK
  <2> QED BY <1>1, <2>1, <2>4, <2>5, <2>6, <2>7, <2>8, <2>9
<1>4. CASE EngineRefusesGame(fd, id)
  <2>1. PICK gi \in Games : /\ IsFirst(gi, FreeGames)
                            /\ Refuse(fd, [games EXCEPT ![gi] = FreeGame], engine)
    BY <1>4 DEF EngineRefusesGame
  <2>2. \A k \in Games : games[k].active => games[k].game_id # id
    BY <1>4 DEF EngineRefusesGame, GamesWithId, ActiveGames
  <2>3. Round(gi, id)
    BY <1>0, <2>1, <2>2, Unpromoted DEF Refuse, Round, OnlyGame, OnlyClients, TablesOK
  <2> QED BY <2>3
<1>5. CASE NoFreeGame(fd, id)
  <2>1. \A k \in Games : games[k].active => games[k].game_id # id
    BY <1>5 DEF NoFreeGame, GamesWithId, ActiveGames
  <2>2. 0 \in Games
    BY SizesAssumption DEF Games
  <2>3. Round(0, id)
    BY <1>5, <2>1, Unpromoted DEF NoFreeGame, Refuse, Round, OnlyGame, OnlyClients
  <2> QED BY <2>2, <2>3
<1> QED BY <1>2, <1>3, <1>4, <1>5 DEF server_handle_new_connection

(* A client's message or loss ends its game or changes only that.          *)
Ending(gi) == /\ games[gi].active
              /\ \E r \in [Fds -> Seq(Frame)], m \in {"ERROR", "GAME_OVER"} :
                    CloseGame(gi, r, <<m>>)

(* What a message does: it ends the game of its sender, or it changes      *)
(* that game and its clients only.                                         *)
LEMMA MessageCases ==
  ASSUME IInv, NEW ci \in ActiveClients, NEW type,
         server_handle_client_message(ci, type) \/ server_on_client_disconnect(ci)
  PROVE  Ending(GameOf(ci)) \/ Round(GameOf(ci), games[GameOf(ci)].game_id)
<1> DEFINE gi == GameOf(ci)
           id == games[gi].game_id
<1>1. /\ ci \in Clients /\ gi \in Games /\ gi # NONE /\ games[gi].active /\ id \in GameIds
      /\ TablesOK(clients, games, engine, open)
  BY ActiveClient DEF IInv
<1>2. /\ \A k \in Games : k # gi /\ games[k].active => games[k].game_id # id
      /\ games \in [Games -> Game] /\ engine \in [GameIds -> EngineGame]
      /\ clients \in [Clients -> Client]
  BY <1>1 DEF TablesOK
<1> HIDE DEF gi, id
<1>3. server_end_game(gi) => Ending(gi)
  BY <1>1, SilenceType DEF server_end_game, Ending
<1>4. \A m : Reply(ci, m) => Round(gi, id)
  BY <1>2, Unpromoted DEF Reply, tables, Round, OnlyGame, OnlyClients
<1>5. ASSUME ShipsRepeated(ci) PROVE Round(gi, id)
  <2>1. /\ engine' = engine_place_ships(engine, id, clients[ci].player_num)
        /\ UNCHANGED <<clients, games, num_clients>>
    BY <1>5 DEF ShipsRepeated, PlaceShips, id, gi
  <2>2. \A j \in GameIds : j # id => engine'[j] = engine[j]
    BY <2>1, <1>1, <1>2 DEF engine_place_ships
  <2> QED BY <2>1, <2>2, <1>2, Unpromoted DEF Round, OnlyGame, OnlyClients
<1>6. ASSUME ShipsAccepted(ci) PROVE Round(gi, id)
  <2> DEFINE both == \A q \in Players :
                       [games[gi] EXCEPT !.ships_received[clients[ci].player_num]
                                           = TRUE].ships_received[q]
  <2>1. /\ engine' = engine_place_ships(engine, id, clients[ci].player_num)
        /\ num_clients' = num_clients /\ games[gi].phase = "PLACEMENT"
        /\ \A k \in Games : k # gi => games'[k] = games[k]
        /\ clients' = [k \in Clients |-> IF both /\ k \in Seated(gi)
                                         THEN [clients[k] EXCEPT !.phase = "PLAYING"]
                                         ELSE clients[k]]
    BY <1>6, <1>1, <1>2 DEF ShipsAccepted, PlaceShips, InPhase, gi, id
  <2> HIDE DEF both
  <2>2. \A j \in GameIds : j # id => engine'[j] = engine[j]
    BY <2>1, <1>1, <1>2 DEF engine_place_ships
  <2>3. ASSUME NEW k \in Clients
        PROVE  /\ Promoted(clients[k], clients'[k])
               /\ clients'[k] # clients[k] => clients[k].active /\ clients[k].game_index = gi
    <3>1. CASE both /\ k \in Seated(gi)
      <4>1. clients'[k] = [clients[k] EXCEPT !.phase = "PLAYING"]
        BY <2>1, <3>1
      <4>2. clients[k].active /\ clients[k].game_index = gi
        BY <3>1, <1>1, SeatedExactly DEF Seated, ActiveClients
      <4>3. clients[k].phase = "PLACEMENT"
        BY <4>2, <2>1, <1>1 DEF TablesOK, ClientOK
      <4> QED BY <4>1, <4>2, <4>3, <1>2 DEF Promoted, Client
    <3>2. CASE ~(both /\ k \in Seated(gi))
      <4>1. clients'[k] = clients[k]
        BY <2>1, <3>2
      <4> QED BY <4>1, Unpromoted
    <3> QED BY <3>1, <3>2
  <2> QED BY <2>1, <2>2, <2>3, <1>2 DEF Round, OnlyGame, OnlyClients
<1>7. ASSUME NEW reply, MovePlayed(ci, reply) PROVE Round(gi, id)
  <2>1. /\ engine' = engine_take_turn(engine, id)
        /\ \A k \in Games : k # gi => games'[k] = games[k]
        /\ UNCHANGED <<clients, num_clients>>
    BY <1>7, <1>1, <1>2 DEF MovePlayed, gi, id
  <2>2. \A j \in GameIds : j # id => engine'[j] = engine[j]
    BY <2>1, <1>1, <1>2 DEF engine_take_turn
  <2> QED BY <2>1, <2>2, <1>2, Unpromoted DEF Round, OnlyGame, OnlyClients
<1>8. handle_ships(ci) => Ending(gi) \/ Round(gi, id)
  BY <1>3, <1>4, <1>5, <1>6 DEF handle_ships, OutOfPhase, ShipsRejected, gi
<1>9. \A reply \in {"MOVE_RESULT", "MOVE_EXT_RESULT"} :
         handle_move(ci, reply) => Ending(gi) \/ Round(gi, id)
  <2>1. ASSUME NEW reply \in {"MOVE_RESULT", "MOVE_EXT_RESULT"}, MoveWins(ci, reply)
        PROVE  Ending(gi)
    <3>1. MoveReplies(ci, reply, "Win") \in [Fds -> Seq(Frame)]
      BY TellType, ThenType, FrameTypes DEF MoveReplies, TurnResult
    <3> QED BY <3>1, <2>1, <1>1 DEF MoveWins, Ending, gi
  <2> QED BY <2>1, <1>3, <1>4, <1>7
      DEF handle_move, OutOfPhase, MoveMalformed, MoveInvalid, MoveUnanswered, gi
<1>10. Default(ci) => Ending(gi)
  BY <1>1, <1>3 DEF Default, gi
<1>11. server_on_client_disconnect(ci) => Ending(gi)
  BY <1>1, <1>3 DEF server_on_client_disconnect, gi
<1> QED BY <1>8, <1>9, <1>10, <1>11 DEF server_handle_client_message, gi, id

(* Every step is one of the three.                                         *)
LEMMA StepCases ==
  ASSUME IInv, [Next]_vars
  PROVE  \/ UNCHANGED tables
         \/ \E gi \in Games : \/ Ending(gi)
                            \/ \E id \in GameIds :
                                  \/ Round(gi, id)
                                  \/ \E ci \in Clients : Arrival(gi, id, ci)
<1>1. ASSUME NEW ci \in ActiveClients, NEW type,
             server_handle_client_message(ci, type) \/ server_on_client_disconnect(ci)
      PROVE  \E gi \in Games : \/ Ending(gi)
                              \/ \E id \in GameIds : Round(gi, id)
  BY <1>1, MessageCases, ActiveClient
<1> QED BY <1>1, JoinCases DEF Next, NoGameId, vars, tables
-----------------------------------------------------------------------------
(* A handler touches the entries, the clients and the engine's state of    *)
(* one game only (game.c: every access goes through c->game_index or the   *)
(* game the connection asked for).                                         *)
THEOREM GamesAreIsolated == Spec => GamesIsolated
<1> DEFINE A == \E gi \in Games : \A gj \in Games \ {gi} : UntouchedGame(gj)
<1>1. IInv /\ [Next]_vars => [A]_vars
  <2> SUFFICES ASSUME IInv, [Next]_vars PROVE A
    OBVIOUS
  <2>1. CASE UNCHANGED tables
    <3>1. 0 \in Games
      BY SizesAssumption DEF Games
    <3> QED BY <3>1, <2>1 DEF UntouchedGame, tables
  <2>2. ASSUME NEW gi \in Games, NEW gj \in Games \ {gi}, Ending(gi) PROVE UntouchedGame(gj)
    <3>1. PICK r, m : CloseGame(gi, r, m)
      BY <2>2 DEF Ending
    <3>2. /\ games[gi].active /\ games \in [Games -> Game]
          /\ engine \in [GameIds -> EngineGame]
          /\ games[gj].active => /\ games[gj].game_id \in GameIds
                                 /\ games[gj].game_id # games[gi].game_id
      BY <2>2 DEF Ending, IInv, TablesOK, GameOK
    <3>3. games'[gj] = games[gj]
      BY <3>1, <3>2 DEF CloseGame
    <3>4. games[gj].active => engine'[games[gj].game_id] = engine[games[gj].game_id]
      BY <3>1, <3>2 DEF CloseGame, engine_end_game
    <3>5. ASSUME games[gj].active, NEW ci \in Seated(gj) PROVE clients'[ci] = clients[ci]
      <4>1. ci \in Clients /\ clients[ci].active
        BY DEF Seated, ActiveClients
      <4>2. ci \notin Seated(gi)
        BY <4>1, <3>2, <3>5, SeatedExactly
      <4> QED BY <4>1, <4>2, <3>1 DEF CloseGame
    <3> QED BY <3>3, <3>4, <3>5 DEF UntouchedGame
  <2>3. ASSUME NEW gi \in Games, NEW gj \in Games \ {gi}, NEW id \in GameIds, NEW S,
               OnlyGame(gi, id), OnlyClients(gi, S), \A ci \in S : ~clients[ci].active
        PROVE  UntouchedGame(gj)
    <3>1. games'[gj] = games[gj]
      BY <2>3 DEF OnlyGame
    <3>2. games[gj].active => engine'[games[gj].game_id] = engine[games[gj].game_id]
      BY <2>3 DEF OnlyGame, IInv, TablesOK, GameOK
    <3>3. ASSUME games[gj].active, NEW ci \in Seated(gj) PROVE clients'[ci] = clients[ci]
      <4>1. ci \in Clients /\ clients[ci].active
        BY DEF Seated, ActiveClients
      <4>2. clients[ci].game_index = gj
        BY <4>1, <3>3, SeatedExactly
      <4> QED BY <4>1, <4>2, <2>3 DEF OnlyClients
    <3> QED BY <3>1, <3>2, <3>3 DEF UntouchedGame
  <2>4. ASSUME NEW gi \in Games, NEW id \in GameIds, Round(gi, id)
        PROVE  \A gj \in Games \ {gi} : UntouchedGame(gj)
    BY <2>3, <2>4 DEF Round
  <2>5. ASSUME NEW gi \in Games, NEW id \in GameIds, NEW ci \in Clients, Arrival(gi, id, ci)
        PROVE  \A gj \in Games \ {gi} : UntouchedGame(gj)
    <3>1. OnlyGame(gi, id) /\ OnlyClients(gi, {ci}) /\ \A k \in {ci} : ~clients[k].active
      BY <2>5 DEF Arrival
    <3> QED BY <3>1, <2>3
  <2> QED BY <2>1, <2>2, <2>4, <2>5, StepCases
<1> QED BY <1>1, Invariance, PTL DEF Spec, GamesIsolated

(* While a client stays connected its descriptor and seat do not change    *)
(* and its phase never goes back (game.c:157, 173, 454).                   *)
THEOREM SessionsAreStable == Spec => SessionsStable
<1> DEFINE A == \A ci \in ActiveClients :
                  clients'[ci].active =>
                     /\ \A f \in {"fd", "game_id", "player_num", "game_index"} :
                           clients'[ci][f] = clients[ci][f]
                     /\ Rank[clients[ci].phase] <= Rank[clients'[ci].phase]
<1>1. IInv /\ [Next]_vars => [A]_vars
  <2> SUFFICES ASSUME IInv, [Next]_vars, NEW ci \in Clients, clients[ci].active,
                      clients'[ci].active
               PROVE  Promoted(clients[ci], clients'[ci])
    <3>1. IInv => \A ci \in Clients : clients[ci].phase \in ClientPhase
      BY DEF IInv, TablesOK, Client
    <3>2. ASSUME NEW c, NEW d, c.phase \in ClientPhase, Promoted(c, d)
          PROVE  /\ \A f \in {"fd", "game_id", "player_num", "game_index"} : d[f] = c[f]
                 /\ Rank[c.phase] <= Rank[d.phase]
      BY <3>2 DEF Promoted, Rank, ClientPhase, GamePhase
    <3> QED BY <3>1, <3>2 DEF ActiveClients
  <2>1. CASE UNCHANGED tables
    BY <2>1, Unpromoted DEF tables
  <2>2. ASSUME NEW gi \in Games, Ending(gi) PROVE Promoted(clients[ci], clients'[ci])
    <3>1. clients'[ci] = clients[ci]
      BY <2>2 DEF Ending, CloseGame, FreeClient
    <3> QED BY <3>1, Unpromoted
  <2> QED BY <2>1, <2>2, StepCases DEF Round, Arrival, OnlyClients
<1> QED BY <1>1, Invariance, PTL DEF Spec, SessionsStable
-----------------------------------------------------------------------------
(* When a game ends both of its clients are closed in the same step, and   *)
(* the last frame each was sent is ERROR for both or GAME_OVER for both,   *)
(* behind whatever replies came before it (game.c:104-135, 309-318, 355-   *)
(* 364).                                                                   *)
THEOREM EndsAreTold == Spec => EndIsTold
<1> DEFINE Told(gi, m) == \A ci \in Seated(gi) :
                             LET s == sent'[clients[ci].fd]
                             IN  ~clients'[ci].active /\ s # <<>> /\ s[Len(s)] = <<m>>
           A == \A gi \in ActiveGames :
                   (\E ci \in Seated(gi) : ~clients'[ci].active) =>
                      \E m \in {"ERROR", "GAME_OVER"} : Told(gi, m)
<1>1. IInv /\ [Next]_vars => [A]_vars
  <2> SUFFICES ASSUME IInv, [Next]_vars, NEW gi \in Games, games[gi].active,
                      NEW ci \in Seated(gi), ~clients'[ci].active
               PROVE  \E m \in {"ERROR", "GAME_OVER"} : Told(gi, m)
    BY DEF ActiveGames
  <2>1. ci \in Clients /\ clients[ci].active
    BY DEF Seated, ActiveClients
  <2>2. ~UNCHANGED tables
    BY <2>1 DEF tables
  <2>3. ASSUME NEW gk \in Games, Ending(gk) PROVE \E m \in {"ERROR", "GAME_OVER"} : Told(gi, m)
    <3>1. PICK r \in [Fds -> Seq(Frame)], m \in {"ERROR", "GAME_OVER"} : CloseGame(gk, r, <<m>>)
      BY <2>3 DEF Ending
    <3>2. games[gk].active
      BY <2>3 DEF Ending
    <3>3. ci \in Seated(gk)
      BY <3>1, <2>1 DEF CloseGame
    <3>4. gk = gi
      BY <3>2, <3>3, <2>1, SeatedExactly
    <3>5. ASSUME NEW k \in Seated(gi)
          PROVE  LET s == sent'[clients[k].fd]
                 IN  ~clients'[k].active /\ s # <<>> /\ s[Len(s)] = <<m>>
      <4>1. k \in Clients /\ clients[k].active
        BY DEF Seated, ActiveClients
      <4>2. clients[k].fd \in Fds /\ clients[k].fd \in FdsOf(Seated(gi))
        BY <4>1 DEF IInv, TablesOK, ClientOK, FdsOf
      <4>3. ~clients'[k].active
        BY <4>1, <3>1, <3>4 DEF CloseGame, FreeClient
      <4>4. sent'[clients[k].fd] = r[clients[k].fd] \o <<<<m>>>>
        BY <4>2, <3>1, <3>4 DEF CloseGame, Then, Tell
      <4>5. r[clients[k].fd] \in Seq(Frame) /\ <<m>> \in Frame
        BY <4>2, FrameTypes
      <4> DEFINE q == r[clients[k].fd]
      <4>6. /\ q \in Seq(Frame) /\ Len(q) \in Nat
            /\ Len(q \o <<<<m>>>>) = Len(q) + 1 /\ (q \o <<<<m>>>>)[Len(q) + 1] = <<m>>
        BY <4>5
      <4>7. q \o <<<<m>>>> # <<>>
        BY <4>6
      <4> QED BY <4>3, <4>4, <4>6, <4>7
    <3> QED BY <3>5
  <2>4. ASSUME NEW gk \in Games, NEW id \in GameIds, Round(gk, id) PROVE FALSE
    BY <2>4, <2>1 DEF Round, OnlyClients, Promoted
  <2>5. ASSUME NEW gk \in Games, NEW id \in GameIds, NEW k \in Clients, Arrival(gk, id, k)
        PROVE  FALSE
    BY <2>5, <2>1 DEF Arrival, OnlyClients, Promoted
  <2> HIDE DEF Told
  <2> QED BY <2>2, <2>3, <2>4, <2>5, StepCases
<1> QED BY <1>1, Invariance, PTL DEF Spec, EndIsTold

(* Only a move that is taken and does not win passes the turn of a game    *)
(* that goes on.                                                           *)
LEMMA TurnCases ==
  ASSUME IInv, [Next]_vars, NEW gi \in Games, games[gi].active,
         engine'[games[gi].game_id].init,
         engine'[games[gi].game_id].turn # engine[games[gi].game_id].turn
  PROVE  \E ci \in ActiveClients, t \in {"MOVE_RESULT", "MOVE_EXT_RESULT"} :
            MovePlayed(ci, t) /\ GameOf(ci) = gi
<1> DEFINE id == games[gi].game_id
<1>1. /\ id \in GameIds /\ engine[id].init /\ engine \in [GameIds -> EngineGame]
      /\ games \in [Games -> Game]
  BY DEF IInv, TablesOK, GameOK, BoardsOK
<1> HIDE DEF id
<1>2. engine' # engine
  BY DEF id
<1>3. ASSUME NEW gk \in Games, CloseGame(gk, Silence, <<"ERROR">>) PROVE FALSE
  <2>1. engine' = engine_end_game(engine, games[gk].game_id)
    BY <1>3 DEF CloseGame
  <2> QED BY <2>1, <1>1 DEF engine_end_game, NoEngineGame, id
<1>4. ASSUME NEW fd, NEW j \in GameIds, server_handle_new_connection(fd, j) PROVE FALSE
  <2>1. JoinCreated(fd, j)
    <3>1. \A gk, gs, f : Join(f, j, gk, gs, engine) => engine' = engine
      BY DEF Join, Refuse
    <3> QED BY <3>1, <1>4, <1>2 DEF server_handle_new_connection, JoinExisting,
                                     EngineRefusesGame, NoFreeGame, Refuse
  <2>2. ~engine[j].init /\ engine' = engine_init_game(engine, j)
    BY <2>1 DEF JoinCreated, CanInitGame, Join, Refuse
  <2> QED BY <2>2, <1>1 DEF engine_init_game, id
<1>5. ASSUME NEW ci \in ActiveClients, handle_ships(ci) PROVE FALSE
  <2>1. GameOf(ci) \in Games /\ games[GameOf(ci)].game_id \in GameIds
    BY ActiveClient
  <2>2. engine' = engine_place_ships(engine, games[GameOf(ci)].game_id, clients[ci].player_num)
    BY <1>5, <1>2, <1>3, <2>1 DEF handle_ships, OutOfPhase, Reply, tables, ShipsRejected,
       server_end_game, ShipsRepeated, ShipsAccepted, PlaceShips
  <2> QED BY <2>1, <2>2, <1>1 DEF engine_place_ships, EngineGame, id
<1>6. ASSUME NEW ci \in ActiveClients, NEW t \in {"MOVE_RESULT", "MOVE_EXT_RESULT"},
             handle_move(ci, t)
      PROVE  MovePlayed(ci, t) /\ GameOf(ci) = gi
  <2>1. GameOf(ci) \in Games /\ games[GameOf(ci)].game_id \in GameIds
        /\ games[GameOf(ci)].active
    BY ActiveClient
  <2>2. ~MoveWins(ci, t)
    <3> SUFFICES ASSUME MoveWins(ci, t) PROVE FALSE
      OBVIOUS
    <3>1. engine' = engine_end_game(engine, games[GameOf(ci)].game_id)
      BY DEF MoveWins, CloseGame
    <3> QED BY <3>1, <1>1 DEF engine_end_game, NoEngineGame, id
  <2>3. MovePlayed(ci, t)
    BY <1>6, <1>2, <1>3, <2>1, <2>2 DEF handle_move, OutOfPhase, Reply, tables, MoveMalformed,
       server_end_game, MoveInvalid, MoveUnanswered
  <2>4. engine' = engine_take_turn(engine, games[GameOf(ci)].game_id)
    BY <2>3 DEF MovePlayed
  <2>5. games[GameOf(ci)].game_id = id
    BY <2>1, <2>4, <1>1 DEF engine_take_turn, id
  <2> QED BY <2>1, <2>3, <2>5 DEF IInv, TablesOK, id
<1>7. ASSUME NEW ci \in ActiveClients, Default(ci) \/ server_on_client_disconnect(ci) PROVE FALSE
  BY <1>7, <1>3, ActiveClient DEF Default, server_on_client_disconnect, server_end_game
<1>8. \A fd : ~NoGameId(fd) /\ ~UNCHANGED vars
  BY <1>2 DEF NoGameId, tables, vars
<1> QED BY <1>4, <1>5, <1>6, <1>7, <1>8 DEF Next, server_handle_client_message

(* Whenever the engine's turn passes, the player who was on turn gets the  *)
(* result and its opponent the same result as OPP_MOVE, and nobody else    *)
(* hears of it (game.c:321-327, 367-373).                                  *)
THEOREM TurnsAreBroadcast == Spec => TurnIsBroadcast
<1> DEFINE Heard(gi, mover) ==
             \E r \in TurnResult \ {"Invalid"} :
               \E t \in {"MOVE_RESULT", "MOVE_EXT_RESULT"} :
                 sent' = Then(Tell(PlayerFd(gi, mover), <<t, r>>),
                              Tell(PlayerFd(gi, Opponent(mover)), <<"OPP_MOVE", r>>))
           A == \A gi \in ActiveGames :
                   LET id == games[gi].game_id
                       mover == engine[id].turn
                   IN  engine'[id].init /\ engine'[id].turn # mover => Heard(gi, mover)
<1>1. IInv /\ [Next]_vars => [A]_vars
  <2> SUFFICES ASSUME IInv, [Next]_vars, NEW gi \in Games, games[gi].active,
                      engine'[games[gi].game_id].init,
                      engine'[games[gi].game_id].turn # engine[games[gi].game_id].turn
               PROVE  Heard(gi, engine[games[gi].game_id].turn)
    BY DEF ActiveGames
  <2>1. PICK ci \in ActiveClients, t \in {"MOVE_RESULT", "MOVE_EXT_RESULT"} :
           MovePlayed(ci, t) /\ GameOf(ci) = gi
    BY TurnCases
  <2>2. clients[ci].player_num = engine[games[gi].game_id].turn
    BY <2>1 DEF MovePlayed, EngineTurn, CanTakeTurn
  <2>3. games[gi].client_slots[clients[ci].player_num] = ci
    BY <2>1, ActiveClient DEF ClientOK, GameOf
  <2>4. PlayerFd(gi, clients[ci].player_num) = {clients[ci].fd}
    BY <2>3 DEF PlayerFd, FdsOf
  <2>5. RivalFd(ci) = PlayerFd(gi, Opponent(clients[ci].player_num))
    BY <2>1 DEF RivalFd, PlayerFd
  <2>6. sent' = Then(Tell({clients[ci].fd}, <<t, "Miss">>),
                     Tell(RivalFd(ci), <<"OPP_MOVE", "Miss">>))
    BY <2>1 DEF MovePlayed, MoveReplies
  <2> QED BY <2>2, <2>4, <2>5, <2>6 DEF TurnResult
<1> QED BY <1>1, Invariance, PTL DEF Spec, TurnIsBroadcast
-----------------------------------------------------------------------------
(* num_clients counts the connected clients; the guard that keeps it from  *)
(* going below zero (game.c:104, 134, 317, 363) never matters.             *)
LEMMA CountStep == IInv /\ ClientsCounted /\ [Next]_vars => ClientsCounted'
<1> SUFFICES ASSUME IInv, ClientsCounted, [Next]_vars PROVE ClientsCounted'
  OBVIOUS
<1>0. ActiveClients \in SUBSET Clients /\ IsFiniteSet(ActiveClients)
      /\ Cardinality(ActiveClients) \in Nat /\ num_clients = Cardinality(ActiveClients)
  BY ClientsFinite DEF ActiveClients, ClientsCounted
<1>1. CASE UNCHANGED tables
  BY <1>1, <1>0 DEF tables, ClientsCounted, ActiveClients
<1>2. ASSUME NEW gi \in Games, Ending(gi) PROVE ClientsCounted'
  <2>1. PICK r, m : CloseGame(gi, r, m)
    BY <1>2 DEF Ending
  <2>2. Seated(gi) \subseteq ActiveClients
    BY DEF Seated
  <2>3. ActiveClients' = ActiveClients \ Seated(gi)
    BY <2>1 DEF CloseGame, ActiveClients, Seated, FreeClient
  <2>4. ActiveClients \cap Seated(gi) = Seated(gi)
    BY <2>2
  <2>5. Cardinality(ActiveClients') = Cardinality(ActiveClients) - Cardinality(Seated(gi))
    BY <1>0, <2>3, <2>4, FS_Difference
  <2>6. /\ Cardinality(Seated(gi)) \in Nat
        /\ Cardinality(Seated(gi)) <= Cardinality(ActiveClients)
    BY <1>0, <2>2, FS_Subset, FS_CardinalityType
  <2>7. num_clients' = num_clients - Cardinality(Seated(gi))
    BY <2>1, <2>6, <1>0 DEF CloseGame, Decrement
  <2> QED BY <2>5, <2>7, <1>0 DEF ClientsCounted
<1>3. ASSUME NEW gi \in Games, NEW id \in GameIds, Round(gi, id) PROVE ClientsCounted'
  <2>1. ActiveClients' = ActiveClients
    BY <1>3 DEF Round, OnlyClients, Promoted, ActiveClients
  <2> QED BY <2>1, <1>0, <1>3 DEF Round, ClientsCounted
<1>4. ASSUME NEW gi \in Games, NEW id \in GameIds, NEW ci \in Clients, Arrival(gi, id, ci)
      PROVE  ClientsCounted'
  <2>1. /\ clients'[ci].active /\ ~clients[ci].active
        /\ \A k \in Clients : k # ci => clients'[k].active = clients[k].active
    BY <1>4 DEF Arrival, OnlyClients, Promoted
  <2>2. ActiveClients' = ActiveClients \cup {ci} /\ ci \notin ActiveClients
    BY <2>1 DEF ActiveClients
  <2>3. Cardinality(ActiveClients') = Cardinality(ActiveClients) + 1
    BY <2>2, <1>0, FS_AddElement
  <2> QED BY <2>3, <1>0, <1>4 DEF Arrival, ClientsCounted
<1> QED BY <1>1, <1>2, <1>3, <1>4, StepCases

(* num_clients is the number of connected clients (game.c:104, 456).       *)
THEOREM ClientsAreCounted == Spec => []ClientsCounted
<1>1. Init => ClientsCounted
  <2> SUFFICES ASSUME Init PROVE ClientsCounted
    OBVIOUS
  <2>1. ActiveClients = {}
    BY DEF Init, ActiveClients, FreeClient
  <2> QED BY <2>1, FS_EmptySet DEF Init, ClientsCounted
<1> QED BY <1>1, CountStep, Invariance, PTL DEF Spec

(* There are two players.                                                  *)
LEMMA TwoPlayers == IsFiniteSet(Players) /\ Cardinality(Players) = 2
<1>1. IsFiniteSet({1}) /\ Cardinality({1}) = 1
  BY FS_Singleton
<1>2. 2 \notin {1} /\ Players = {1} \cup {2}
  BY DEF Players
<1>3. /\ IsFiniteSet({1} \cup {2})
      /\ Cardinality({1} \cup {2}) = IF 2 \in {1} THEN Cardinality({1}) ELSE Cardinality({1}) + 1
  BY <1>1, FS_AddElement
<1> QED BY <1>1, <1>2, <1>3

(* With two client entries per game entry, as in game.h, whoever finds a   *)
(* seat finds a client entry: the clients, each in a seat of its own, leave*)
(* out the empty one (the failure at game.c:442 costs no game).            *)
THEOREM SeatsSuffice == Spec => []SeatImpliesClientEntry
<1>1. IInv => SeatImpliesClientEntry
  <2> SUFFICES ASSUME IInv, MAX_CLIENTS >= 2 * MAX_GAMES,
                      FreeGames # {} \/ \E gi \in ActiveGames : EmptySeats(games[gi]) # {},
                      FreeClients = {}
               PROVE  FALSE
    BY DEF SeatImpliesClientEntry
  <2>1. \A ci \in Clients : clients[ci].active
    BY DEF FreeClients, ActiveClients
  <2>2. PICK gi \in Games, p \in Players :
           games[gi].active => games[gi].client_slots[p] = NONE
    BY DEF FreeGames, ActiveGames, EmptySeats, Players
  <2> DEFINE T == (Games \X Players) \ {<<gi, p>>}
             f == [ci \in Clients |-> <<clients[ci].game_index, clients[ci].player_num>>]
  <2>3. ASSUME NEW ci \in Clients
        PROVE  /\ clients[ci].game_index \in Games /\ clients[ci].player_num \in Players
               /\ games[clients[ci].game_index].active
               /\ games[clients[ci].game_index].client_slots[clients[ci].player_num] = ci
               /\ ci # NONE
    BY <2>1, Nones DEF IInv, TablesOK, ClientOK
  <2>4. f \in [Clients -> T]
    BY <2>2, <2>3
  <2>5. \A ci, cj \in Clients : f[ci] = f[cj] => ci = cj
    BY <2>3
  <2>6. IsFiniteSet(Games \X Players) /\ Cardinality(Games \X Players) = MAX_GAMES * 2
    <3>1. IsFiniteSet(Games) /\ Cardinality(Games) = MAX_GAMES
      BY SizesAssumption, FS_Interval DEF Games
    <3> QED BY <3>1, TwoPlayers, FS_Product
  <2>7. IsFiniteSet(T) /\ Cardinality(T) = MAX_GAMES * 2 - 1
    <3> DEFINE U == Games \X Players
    <3>1. <<gi, p>> \in U
      OBVIOUS
    <3> HIDE DEF U
    <3>2. IsFiniteSet(U \ {<<gi, p>>}) /\ Cardinality(U \ {<<gi, p>>}) = Cardinality(U) - 1
      BY <2>6, <3>1, FS_RemoveElement DEF U
    <3> QED BY <3>2, <2>6 DEF U
  <2>8. Cardinality(T) < Cardinality(Clients)
    BY <2>7, ClientsFinite, SizesAssumption
  <2> HIDE DEF T, f
  <2> QED BY <2>4, <2>5, <2>7, <2>8, ClientsFinite, FS_PigeonHole
<1> QED BY <1>1, Invariance, PTL
=============================================================================
