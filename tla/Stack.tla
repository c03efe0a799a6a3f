------------------------------- MODULE Stack -------------------------------
(***************************************************************************)
(* Stacks of data words: kernel/stack.c.  The words between base and next  *)
(* are the sequence obj.word.                                              *)
(***************************************************************************)
EXTENDS Object

StackInit == obj = [type |-> "stack", word |-> <<>>]

\* The caller answers for a stack that is not full: the code only asserts it.
StackPush(isr, data) ==
  Len(obj.word) < MaxItems /\ Give(isr, data, [obj EXCEPT !.word = Append(@, data)])

StackPop ==
  obj.word # <<>> /\ obj' = [obj EXCEPT !.word = Front(@)] /\ UNCHANGED <<k, waiting>>

StackPopWait(t) == obj.word = <<>> /\ WaitIn(t, "get", NoData)

StackCalls(isr) == StackPop \/ \E data \in Item : StackPush(isr, data)

StackNext ==
  \/ StackCalls(TRUE)
  \/ \E t \in Thread : \/ Outside(t) /\ StackCalls(FALSE)
                       \/ StackPopWait(t) \/ ReturnFrom(t, "get")

StackType == [type: {"stack"}, word: BoundedSeq(Item, MaxItems)]
=============================================================================
