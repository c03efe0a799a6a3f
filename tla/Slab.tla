-------------------------------- MODULE Slab --------------------------------
(***************************************************************************)
(* Memory slabs: kernel/mem_slab.c.  The blocks are Item; the free list,   *)
(* which the code threads through the free blocks, is the sequence         *)
(* obj.free.                                                               *)
(***************************************************************************)
EXTENDS Object

SlabInit == \E free \in SetToSeqs(Item) : obj = [type |-> "slab", free |-> free, used |-> 0]

SlabAlloc ==
  /\ obj.free # <<>>
  /\ obj' = [obj EXCEPT !.free = Tail(@), !.used = @ + 1]
  /\ UNCHANGED <<k, waiting>>

SlabAllocWait(t) == obj.free = <<>> /\ WaitIn(t, "get", NoData)

\* The application frees a block it has: not a free one, and not one on its
\* way to a thread that waits for it.
Allocated == {b \in Item : b \notin ToSet(obj.free) /\ \A t \in Thread : swap_data[t] # b}

SlabFree(isr, b) ==
  b \in Allocated /\ Give(isr, b, [obj EXCEPT !.free = <<b>> \o @, !.used = @ - 1])

SlabCalls(isr) == SlabAlloc \/ \E b \in Item : SlabFree(isr, b)

SlabNext ==
  \/ SlabCalls(TRUE)
  \/ \E t \in Thread : \/ Outside(t) /\ SlabCalls(FALSE)
                       \/ SlabAllocWait(t) \/ ReturnFrom(t, "get")

\* num_used counts the blocks that are not on the free list.
SlabType ==
  {s \in [type: {"slab"}, free: BoundedSeq(Item, Cardinality(Item)), used: 0 .. Cardinality(Item)] :
     s.used + Len(s.free) = Cardinality(Item)}
=============================================================================
