----------------------------- MODULE MCObjects -----------------------------
(***************************************************************************)
(* Model of Objects for TLC.                                               *)
(***************************************************************************)
EXTENDS Objects

ObjectPrio == {0}

ObjectSymmetry == Permutations(Thread \ {Main}) \cup Permutations(Item)
=============================================================================
