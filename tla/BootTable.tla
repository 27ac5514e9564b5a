------------------------------ MODULE BootTable ------------------------------
(***************************************************************************)
(* The table of entries that setupMemoryMap leaves to the physical memory  *)
(* manager, in pages.                                                      *)
(***************************************************************************)
EXTENDS Integers, Sequences

CONSTANTS
  NumPages,         \* pages of physical memory
  MaxCapacity,      \* bound: the largest table, in slots
  TableArea         \* bound: the pages a table may start at

Page == 0..(NumPages - 1)
PagesOf(b, n) == b..(b + n - 1)

EntryType == {"FREE", "USED", "RESERVED", "META"}

\* A table at page land with its entries in slots 0, 1, ..., in the order of
\* addresses; one of them, at index meta, is the META entry for its own pages.
IsTable(t) ==
  /\ t.land \in TableArea
  /\ t.capacity \in 1..MaxCapacity
  /\ t.entries \in Seq([base : Nat, length : Nat \ {0}, type : EntryType])
  /\ Len(t.entries) \in 1..t.capacity
  /\ \A i \in DOMAIN t.entries :
       PagesOf(t.entries[i].base, t.entries[i].length) \subseteq Page
  /\ \A i, j \in DOMAIN t.entries : i < j =>
       t.entries[i].base + t.entries[i].length <= t.entries[j].base
  /\ t.meta \in DOMAIN t.entries
  /\ t.entries[t.meta].base = t.land
  /\ t.entries[t.meta].type = "META"

\* The first split of a block needs no extension.
IsRoomy(t) == Len(t.entries) + 2 <= t.capacity

\* The first entry is no memory that is ever handed out: that of the table, of
\* the kernel or of something reserved.
IsFirstKept(t) == t.entries[1].type # "FREE"

\* No two FREE entries touch.
IsMerged(t) ==
  \A i, j \in DOMAIN t.entries :
    t.entries[i].type = "FREE" /\ t.entries[j].type = "FREE"
      => t.entries[i].base + t.entries[i].length # t.entries[j].base
=============================================================================
