------------------------------ MODULE Matches -------------------------------
(***************************************************************************)
(* What the server promises its players, without tables, slots or engine:  *)
(* a game id names at most one match; the first connection that asks for   *)
(* it is player 1 and the second is player 2; when both are there they     *)
(* place ships; when both have placed they move in turn, player 1 first;   *)
(* and a match ends for both players at once, after which its id names a   *)
(* new match.                                                              *)
(***************************************************************************)
EXTENDS Integers

CONSTANTS GameIds,      \* the names of matches
          Conns         \* connections

VARIABLES stage,        \* how far the match of each id has come
          seated,       \* <<id, p, c>>: connection c is player p of match id
          turn          \* the player to move

vars == <<stage, seated, turn>>

Stage == {"NONE", "WAITING", "PLACEMENT", "PLAYING"}
Players == {1, 2}

TypeOK == /\ stage \in [GameIds -> Stage]
          /\ seated \subseteq GameIds \X Players \X Conns
          /\ turn \in [GameIds -> Players]

Init == /\ stage = [id \in GameIds |-> "NONE"]
        /\ seated = {}
        /\ turn = [id \in GameIds |-> 1]

Taken(id, p) == \E c \in Conns : <<id, p, c>> \in seated
Busy(c) == \E id \in GameIds, p \in Players : <<id, p, c>> \in seated

(* A match may be announced before anybody holds a seat in it.             *)
Announce(id) ==
    /\ stage[id] = "NONE"
    /\ stage' = [stage EXCEPT ![id] = "WAITING"]
    /\ UNCHANGED <<seated, turn>>

EnterFirst(id, c) ==
    /\ stage[id] \in {"NONE", "WAITING"} /\ ~Taken(id, 1) /\ ~Busy(c)
    /\ stage' = [stage EXCEPT ![id] = "WAITING"]
    /\ seated' = seated \cup {<<id, 1, c>>}
    /\ UNCHANGED turn

EnterSecond(id, c) ==
    /\ stage[id] = "WAITING" /\ Taken(id, 1) /\ ~Taken(id, 2) /\ ~Busy(c)
    /\ stage' = [stage EXCEPT ![id] = "PLACEMENT"]
    /\ seated' = seated \cup {<<id, 2, c>>}
    /\ UNCHANGED turn

Start(id) ==
    /\ stage[id] = "PLACEMENT"
    /\ stage' = [stage EXCEPT ![id] = "PLAYING"]
    /\ UNCHANGED <<seated, turn>>

Move(id) ==
    /\ stage[id] = "PLAYING"
    /\ turn' = [turn EXCEPT ![id] = 3 - @]
    /\ UNCHANGED <<stage, seated>>

End(id) ==
    /\ stage[id] # "NONE"
    /\ stage' = [stage EXCEPT ![id] = "NONE"]
    /\ seated' = {s \in seated : s[1] # id}
    /\ turn' = [turn EXCEPT ![id] = 1]

Next == \E id \in GameIds :
           \/ Announce(id) \/ Start(id) \/ Move(id) \/ End(id)
           \/ \E c \in Conns : EnterFirst(id, c) \/ EnterSecond(id, c)

Spec == Init /\ [][Next]_vars
-----------------------------------------------------------------------------
(* A seat holds one connection, a connection sits in one seat, and past    *)
(* WAITING both seats are taken.                                           *)
SeatsExclusive ==
    /\ \A s, t \in seated : s[3] = t[3] \/ (s[1] = t[1] /\ s[2] = t[2]) => s = t
    /\ \A id \in GameIds : stage[id] \in {"PLACEMENT", "PLAYING"} =>
                              Taken(id, 1) /\ Taken(id, 2)
=============================================================================
