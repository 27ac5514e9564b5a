--------------------------- MODULE SetupMemoryMap ---------------------------
(***************************************************************************)
(* The boot step that hands the boot loader's memory map to                *)
(* setupMemoryMap, for every map of a set the loader may pass.             *)
(***************************************************************************)
EXTENDS MemoryMap

CONSTANT StMaps     \* the maps the loader may pass

End(e) == e.base + e.length
Apart(a, b) == End(a) <= b.base \/ End(b) <= a.base

\* A map as stivale2 gives it: usable memory starts and ends on a page and is in
\* no other region; what is not usable may start anywhere and overlap.
IsMap(st) ==
  /\ st \in Seq([base : Nat, length : Nat \ {0}, type : StType])
  /\ \A i \in DOMAIN st : pmm_isStUsable(st[i]) =>
       /\ st[i].base % PageSize = 0
       /\ st[i].length % PageSize = 0
       /\ \A j \in DOMAIN st \ {i} : Apart(st[i], st[j])

ASSUME MapAssumption == \A st \in StMaps : IsMap(st)

VARIABLES
  stEntries,        \* the loader's map
  made              \* what setupMemoryMap made of it

setupVars == <<stEntries, made>>

NotRun == [outcome |-> "none", land |-> 0, entries |-> <<>>, capacity |-> 0]

SetupInit ==
  /\ stEntries \in StMaps
  /\ made = NotRun

Setup ==
  /\ made = NotRun
  /\ made' = setupMemoryMap(stEntries)
  /\ UNCHANGED stEntries

SetupNext == Setup

SetupSpec == SetupInit /\ [][SetupNext]_setupVars

-----------------------------------------------------------------------------

\* Memory that may be handed out or that holds the table is in one entry only:
\* rounding a reclaimable region up to its page never reaches into it.
FreeIsAlone ==
  \A i, j \in DOMAIN made.entries :
    i # j /\ made.entries[i].type \in {"FREE", "META"}
      => Apart(made.entries[i], made.entries[j])

\* No usable memory is lost: each usable region is one FREE entry, or the table
\* and a FREE entry for what the table leaves of it.
UsableKept ==
  made.outcome = "ok" =>
    \A r \in {stEntries[i] : i \in DOMAIN stEntries} :
      pmm_isStUsable(r) =>
        \E i \in DOMAIN made.entries :
          LET e == made.entries[i] IN
          /\ e.base = r.base
          /\ \/ e.type \in {"FREE", "META"} /\ End(e) = End(r)
             \/ /\ e.type = "META"
                /\ i + 1 \in DOMAIN made.entries
                /\ made.entries[i + 1] = Entry(End(e), End(r) - End(e), "FREE")

\* The table lies inside usable memory and its pages hold every entry made.
TableInside ==
  made.outcome = "ok" =>
    \E i \in DOMAIN made.entries, k \in DOMAIN stEntries :
      LET e == made.entries[i] r == stEntries[k] IN
      /\ e.type = "META" /\ e.base = made.land
      /\ pmm_isStUsable(r) /\ r.base = e.base /\ End(e) <= End(r)
      /\ Len(made.entries) * EntrySize <= e.length

\* initKernelHeap can split a block without extending the table, for which it
\* would need the heap it is about to make.
RoomToSplit ==
  made.outcome = "ok" => Len(made.entries) + 1 < made.capacity - 1

\* Regions that are whole pages, each behind the one before it.
WholePages(st) ==
  /\ \A i \in DOMAIN st : st[i].base % PageSize = 0 /\ st[i].length % PageSize = 0
  /\ \A i, j \in DOMAIN st : i < j => End(st[i]) <= st[j].base

\* A map whose regions are whole pages gives the table Pmm starts from: entries
\* in the order of addresses that do not overlap.
PagesInOrder ==
  WholePages(stEntries) => \A i, j \in DOMAIN made.entries : i < j =>
    End(made.entries[i]) <= made.entries[j].base
=============================================================================
