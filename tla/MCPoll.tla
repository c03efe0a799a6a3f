------------------------------- MODULE MCPoll -------------------------------
(***************************************************************************)
(* Model of Poll for TLC.                                                  *)
(***************************************************************************)
EXTENDS Poll

PollPrio == {0, 1}
=============================================================================
