---------------------------- MODULE MCSelectLoop ----------------------------
(* Small instances of SelectLoop for TLC.  Peers and game ids are only     *)
(* compared for equality; descriptors are ordered, accept takes the lowest.*)
EXTENDS SelectLoop, TLC

LoopSymmetry == Permutations(Peers) \cup Permutations(GameIds)
=============================================================================
