------------------------------ MODULE MCWorkQ ------------------------------
(***************************************************************************)
(* Model of WorkQ for TLC.                                                 *)
(***************************************************************************)
EXTENDS WorkQ
=============================================================================
