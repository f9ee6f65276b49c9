--------------------------- MODULE MCClientServer ---------------------------
(* Small instances of ClientServer for TLC.  Nothing orders peers, game    *)
(* ids or descriptors here.                                                *)
EXTENDS ClientServer, TLC

SystemSymmetry == Permutations(Peers) \cup Permutations(GameIds)
                  \cup Permutations(Fds)
=============================================================================
