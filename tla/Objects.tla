------------------------------ MODULE Objects ------------------------------
(***************************************************************************)
(* The objects that pass data between threads, one at a time: what they    *)
(* promise alike, and the abstract channel they all implement.             *)
(***************************************************************************)
EXTENDS MsgQ, Stack, Slab, DataQueue

objectVars == <<k, obj, waiting, arg>>

ObjectsInit ==
  /\ ObjectInit
  /\ MsgqInit \/ StackInit \/ SlabInit \/ QueueInit
  /\ arg = [t \in Thread |-> NoArg]

ObjectsNext ==
  \/ obj.type = "msgq" /\ MsgqNext /\ UNCHANGED arg
  \/ obj.type = "stack" /\ StackNext /\ UNCHANGED arg
  \/ obj.type = "slab" /\ SlabNext /\ UNCHANGED arg
  \/ obj.type = "queue" /\ QueueNext
  \/ /\ Elsewhere
     /\ arg' = [t \in Thread |-> IF call'[t] = call[t] THEN arg[t] ELSE NoArg]

ObjectsSpec == ObjectsInit /\ [][ObjectsNext]_objectVars

\* What users see to, because the code does not: as a formula, and as part of
\* the steps.
UsedWithCare == []Careful /\ []AppendsSafe /\ [][Undisturbed]_objectVars

CarefulObjectsSpec ==
  ObjectsInit /\ [][ObjectsNext /\ Careful' /\ AppendsSafe' /\ Undisturbed]_objectVars

\* A queue whose users do not see to AppendsSafe.
AppendSpec ==
  /\ ObjectInit /\ QueueInit /\ arg = [t \in Thread |-> NoArg]
  /\ [][QueueNext /\ Undisturbed]_objectVars

-----------------------------------------------------------------------------

\* The object, the threads' calls and their data have the types their C
\* declarations intend; the counters of ring and slab agree with what is there.
ObjectsTypeOK ==
  /\ TypeOK
  /\ obj \in MsgqType \cup StackType \cup SlabType \cup QueueType
  /\ call \in [Thread -> {"out", "get", "put", "append", "remove", "settle"}]
  /\ swap_data \in [Thread -> Item \cup {NoData}]
  /\ arg \in [Thread -> [prev: Item \cup {NoData}, data: Item \cup {NoData}]]

Buffer == CASE obj.type = "msgq"  -> MsgqBuffer
            [] obj.type = "stack" -> Reverse(obj.word)
            [] obj.type = "slab"  -> obj.free
            [] obj.type = "queue" -> QueueBuffer

Rule ==
  [order |-> CASE obj.type = "msgq" -> "fifo" [] obj.type = "queue" -> "any" [] OTHER -> "lifo",
   capacity |-> IF obj.type \in {"msgq", "stack"} THEN MaxItems ELSE Cardinality(Item),
   unique |-> obj.type \in {"slab", "queue"}]

\* Nobody waits without need, and readers and writers never wait together:
\* the first thread on the wait queue is what the code takes it for when it
\* hands that thread an item or copies one from it (msg_q.c has one queue for
\* both).
WaitersAgree ==
  \A t \in ToSet(k.waitq[ObjectQ]) :
    \/ call[t] = "get" /\ Buffer = <<>>
    \/ call[t] = "put" /\ Len(Buffer) = MaxItems

\* A wait that k_queue_cancel_wait() ended has the result OK and no data.
ChannelStatus ==
  [t \in Thread |->
     LET pending == "PENDING" \in k.st[t]
         what == CASE call[t] \notin {"get", "put"}  -> "out"
                   [] call[t] = "get" /\ pending     -> "reading"
                   [] call[t] = "put" /\ pending     -> "writing"
                   [] Granted(t, "put")              -> "written"
                   [] Granted(t, "get") /\ swap_data[t] # NoData -> "got"
                   [] OTHER                          -> "failed"
     IN  [what |-> what,
          item |-> IF what \in {"writing", "got"} THEN swap_data[t] ELSE NoData]]

Channel == INSTANCE ChannelAbstract
             WITH buf <- Buffer, status <- ChannelStatus, rule <- Rule, NoItem <- NoData

\* Message queues, stacks, slabs and queues are bounded channels: items leave
\* in the order the object stands for, none is lost, doubled, kept from a
\* waiting thread or given to one whose wait had ended, whatever waits time
\* out, are cancelled, purged or aborted in the meantime.
ImplementsChannel == Channel!Spec
=============================================================================
