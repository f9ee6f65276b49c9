---------------------------- MODULE MCGameServer ----------------------------
(* Small instances of GameServer for TLC.  Game ids and descriptors are    *)
(* only compared for equality, so both sets are symmetric.                 *)
EXTENDS GameServerMatches, TLC

Symmetry == Permutations(GameIds) \cup Permutations(Fds)
=============================================================================
