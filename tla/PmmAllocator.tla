---------------------------- MODULE PmmAllocator ----------------------------
(***************************************************************************)
(* Pmm as an implementation of PageAllocator: which pages there are to     *)
(* hand out, which the kernel and the heap have.                           *)
(***************************************************************************)
EXTENDS Pmm

\* The block of the running call: taken from the free entries, not yet returned.
InFlight == IF pc \in {"return", "addResv"} THEN {cur} ELSE {}

FreeEntries == {e \in Entries : type[e] = "FREE"}

UsablePages ==
  (UNION {PagesOf(base[e], length[e]) : e \in FreeEntries \cup InFlight})
  \cup (UNION {PagesOf(g.base, g.len) : g \in held})
  \cup heapPages

GrantedRuns == {PagesOf(g.base, g.len) : g \in held}

Allocator == INSTANCE PageAllocator WITH
  usable <- UsablePages,
  grants <- GrantedRuns,
  heap   <- heapPages

\* As long as no table is extended the manager is a PageAllocator: what it hands
\* out was free, and what it takes back can be handed out again.
AllocatorSpec == Allocator!Spec
=============================================================================
