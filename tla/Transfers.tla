----------------------------- MODULE Transfers -----------------------------
(***************************************************************************)
(* A mailbox or a pipe.                                                    *)
(***************************************************************************)
EXTENDS Mailbox, Pipe

transferVars == <<k, type, call, free, owed, mailboxVars, pipeVars>>

TransfersInit ==
  /\ TransferInit /\ MailboxInit
  /\ \/ type = "mailbox" /\ PipeInit(0, [users |-> {}, free |-> Async])
     \/ type = "pipe" /\ \E size \in Sizes, program \in Program : PipeInit(size, program)

TransfersNext ==
  /\ \/ type = "mailbox" /\ MailboxNext /\ UNCHANGED pipeVars
     \/ type = "pipe" /\ PipeNext /\ UNCHANGED mailboxVars
  /\ UNCHANGED type

TransfersSpec == TransfersInit /\ [][TransfersNext]_transferVars

\* The descriptors have their types, a ring buffer never holds more than its
\* size, and no semaphore is given more often than it was promised
\* (mbox_message_dispose, pipe_buffer_put).
TransfersTypeOK ==
  /\ TypeOK
  /\ call \in [User -> {"out", "put", "alloc", "get", "consume", "hold", "notify",
                        "write", "direct", "refill", "wait"}]
  /\ free \subseteq Async /\ owed \in [User -> Nat]
  /\ tx \in [Thread -> TxMsg] /\ rx \in [User -> RxMsg]
  /\ async \in [User -> Async \cup {NoThread}] /\ PipeType
=============================================================================
