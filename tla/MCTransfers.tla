---------------------------- MODULE MCTransfers ----------------------------
(***************************************************************************)
(* Model of Transfers for TLC.                                             *)
(***************************************************************************)
EXTENDS Transfers

CONSTANT Bystander

\* Everybody uses the pipe, or all but one and asynchronous messages.
PipePrograms == {[users |-> User, free |-> {}],
                 [users |-> User \ {Bystander}, free |-> Async]}

TransferSymmetry == Permutations(User \ (Named \cup {Main, Bystander}))
=============================================================================
