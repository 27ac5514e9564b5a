--------------------------- MODULE BlockAllocator ---------------------------
(***************************************************************************)
(* What kalloc, krealloc and kfree promise (heap.h): blocks of at least    *)
(* the size asked for, in memory that is the heap's, never a byte twice.   *)
(***************************************************************************)
EXTENDS Naturals

VARIABLES
  space,    \* the bytes of the heap's pages
  blocks    \* the blocks handed out: [at, size]

Bytes(b) == b.at..(b.at + b.size - 1)

Apart(b, others) ==
  /\ Bytes(b) \subseteq space
  /\ \A c \in others : Bytes(b) \cap Bytes(c) = {}

Init ==
  /\ space = {}
  /\ blocks = {}

Grow ==
  /\ space \subseteq space'
  /\ UNCHANGED blocks

Alloc ==
  /\ \E b \in blocks' : b \notin blocks /\ Apart(b, blocks) /\ blocks' = blocks \cup {b}
  /\ UNCHANGED space

Free(b) ==
  /\ blocks' = blocks \ {b}
  /\ UNCHANGED space

\* krealloc in place.
Resize(b) ==
  /\ \E c \in blocks' :
       /\ c.at = b.at
       /\ Apart(c, blocks \ {b})
       /\ blocks' = (blocks \ {b}) \cup {c}
  /\ UNCHANGED space

Next ==
  \/ Grow
  \/ Alloc
  \/ \E b \in blocks : Free(b) \/ Resize(b)

Spec == Init /\ [][Next]_<<space, blocks>>
=============================================================================
