-------------------------- MODULE GameServerMatches -------------------------
(***************************************************************************)
(* The game table implements Matches: the match of an id is the running    *)
(* game with that id, its players are the clients who name it, and the     *)
(* player to move is the one the engine accepts.                           *)
(***************************************************************************)
EXTENDS GameServer

stageOf == [id \in GameIds |->
              IF GamesWithId(id) = {} THEN "NONE"
              ELSE games[CHOOSE gi \in GamesWithId(id) : TRUE].phase]

seatedOf == {<<clients[ci].game_id, clients[ci].player_num, clients[ci].fd>> :
                ci \in ActiveClients}

turnOf == [id \in GameIds |-> engine[id].turn]

Match == INSTANCE Matches WITH Conns <- Fds, stage <- stageOf,
                               seated <- seatedOf, turn <- turnOf

(* Every step of the server is a step of Matches or changes nothing a      *)
(* player was promised: the two tables, the engine and the descriptors     *)
(* together behave as one table of matches.                                *)
ImplementsMatches == Match!Spec
=============================================================================
