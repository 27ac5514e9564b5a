---------------------------- MODULE PageAllocator ----------------------------
(***************************************************************************)
(* What the physical memory manager promises: runs of usable pages are     *)
(* handed to the kernel and to the heap, never a page twice, and no usable *)
(* page is lost.  Pmm implements this as long as no table is extended.     *)
(***************************************************************************)
EXTENDS Naturals

VARIABLES
  usable,   \* the pages there are to hand out, taken or not
  grants,   \* the runs of pages the kernel holds
  heap      \* the pages the heap has taken

Taken == (UNION grants) \cup heap

\* The runs of usable pages nobody has.
FreeRuns ==
  {r \in {first..last : first, last \in usable} :
     r # {} /\ r \subseteq usable \ Taken}

Init ==
  /\ grants = {}
  /\ heap = {}

Grant(r) ==
  /\ r \in FreeRuns
  /\ grants' = grants \cup {r}
  /\ UNCHANGED <<usable, heap>>

Release(r) ==
  /\ r \in grants
  /\ grants' = grants \ {r}
  /\ UNCHANGED <<usable, heap>>

GrowHeap(r) ==
  /\ r \in FreeRuns
  /\ heap' = heap \cup r
  /\ UNCHANGED <<usable, grants>>

Next ==
  \/ \E r \in FreeRuns : Grant(r) \/ GrowHeap(r)
  \/ \E r \in grants : Release(r)

Spec == Init /\ [][Next]_<<usable, grants, heap>>
=============================================================================
