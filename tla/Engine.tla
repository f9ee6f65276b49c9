------------------------------- MODULE Engine -------------------------------
(***************************************************************************)
(* The battleship game engine (libengine.a), as the server uses it: the    *)
(* contract of server_c/engine.h and the example of server_rs/src/main.rs. *)
(* The engine is a prebuilt library, so this module is a model of code     *)
(* outside the repository.  Its state is a value [GameIds -> EngineGame]   *)
(* that the server's handlers read and replace, one engine call at a time. *)
(*                                                                         *)
(* A fleet and a board are abstracted to the player whose SHIPS message    *)
(* they came from, a coordinate to the result the engine returns for it:   *)
(* "Miss" stands for Miss, Hit and Sunk2 .. Sunk5, which differ in nothing *)
(* the server does.                                                        *)
(***************************************************************************)
EXTENDS Integers

CONSTANT GameIds    \* the uint32_t game ids that clients ask for

Players == {1, 2}
Opponent(p) == 3 - p

NoFleet == 0
TurnResult == {"Miss", "Win", "Invalid"}

(* fleet[p]: the player whose ships lie on the engine's board p. *)
EngineGame == [init  : BOOLEAN,
               fleet : [Players -> Players \cup {NoFleet}],
               turn  : Players]

NoEngineGame == [init  |-> FALSE,
                 fleet |-> [p \in Players |-> NoFleet],
                 turn  |-> 1]

engine_init == [id \in GameIds |-> NoEngineGame]

(* engine_init_game returns false for a game that is initialised already,  *)
(* and may fail for reasons of its own (ENGINE_MODE=fail_init).            *)
CanInitGame(e, id) == ~e[id].init
engine_init_game(e, id) == [e EXCEPT ![id] = [NoEngineGame EXCEPT !.init = TRUE]]

engine_end_game(e, id) == [e EXCEPT ![id] = NoEngineGame]

(* The first successful call places the ships of player 1, the second      *)
(* those of player 2; a third one fails.  The call does not say who calls. *)
NextBoard(e, id) == IF e[id].fleet[1] = NoFleet THEN 1 ELSE 2
CanPlaceShips(e, id) == e[id].init /\ e[id].fleet[NextBoard(e, id)] = NoFleet
engine_place_ships(e, id, fleet) ==
    [e EXCEPT ![id].fleet[NextBoard(e, id)] = fleet]

(* A turn by a player who is not on turn, before both boards are placed or *)
(* in a game that is not initialised is Invalid and leaves the turn alone. *)
CanTakeTurn(e, id, p) == /\ e[id].init
                         /\ \A q \in Players : e[id].fleet[q] # NoFleet
                         /\ e[id].turn = p
engine_take_turn(e, id) == [e EXCEPT ![id].turn = Opponent(@)]
=============================================================================
