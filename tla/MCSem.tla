------------------------------- MODULE MCSem -------------------------------
(***************************************************************************)
(* Model of Sem for TLC.                                                   *)
(***************************************************************************)
EXTENDS Sem

SemPrio == {0, 1}
=============================================================================
