------------------------------ MODULE MemoryMap ------------------------------
(***************************************************************************)
(* How setupMemoryMap (memory.c) turns the boot loader's memory map into   *)
(* the first table of physical memory entries.                             *)
(*                                                                         *)
(* A map is a sequence of records [base, length, type], lengths and        *)
(* addresses in bytes, in the order the boot loader lists them.  The       *)
(* result lists the entries in slot order: slot i of the table is the i-th *)
(* record, its prev and next are its neighbours in the sequence.           *)
(***************************************************************************)
EXTENDS Naturals, Sequences, FiniteSets

CONSTANTS
  PageSize,     \* 0x1000 in the code
  EntrySize     \* sizeof(struct pmm_entry), 49 in the code

ASSUME MemoryMapAssumption ==
  /\ PageSize \in Nat \ {0}
  /\ EntrySize \in 1..PageSize

\* The types of a stivale2 memory map entry that pmm_isStCounted tells apart.
StType == {"USABLE", "RESERVED", "ACPI_RECLAIMABLE", "ACPI_NVS", "BAD_MEMORY",
           "BOOTLOADER_RECLAIMABLE", "KERNEL_AND_MODULES", "FRAMEBUFFER"}

\* (x + 0xfff) & ~0xfff
RoundUp(x) == ((x + PageSize - 1) \div PageSize) * PageSize

PMM_ENTRIES_PER_BLOCK == PageSize \div EntrySize

pmm_isStUsable(e) == e.type = "USABLE"

pmm_isStCounted(e) ==
  e.type \in {"USABLE", "ACPI_RECLAIMABLE", "BOOTLOADER_RECLAIMABLE",
              "KERNEL_AND_MODULES"}

\* Room for every counted entry and four more.
requiredNumEntries(st) ==
  4 + Cardinality({i \in DOMAIN st : pmm_isStCounted(st[i])})

requiredFreeSize(st) == requiredNumEntries(st) * EntrySize

\* Mutated: the region's length is not looked at.
AnyUsable(st) == {i \in DOMAIN st : pmm_isStUsable(st[i])}

\* The usable regions that can hold the table; the code takes the first.
LandCandidates(st) ==
  {i \in DOMAIN st : /\ pmm_isStUsable(st[i])
                     /\ st[i].length >= requiredFreeSize(st)}

\* Address 0 stands for "none found", so a first candidate at 0 is refused.
pmmEntryLand(st) ==
  IF LandCandidates(st) = {} THEN 0
  ELSE st[CHOOSE i \in LandCandidates(st) :
            \A j \in LandCandidates(st) : i <= j].base

\* A mutated rounding: the length alone is rounded, wherever the region starts.
entryLenOfLength(e) == RoundUp(e.length)

\* The length of the entry made from a region: its end is rounded up to a page.
entryLen(e) ==
  IF e.base % PageSize # 0 THEN RoundUp(e.length + e.base) - e.base
  ELSE RoundUp(e.length)

EntryType(e) ==
  CASE e.type = "USABLE"             -> "FREE"
    [] e.type = "KERNEL_AND_MODULES" -> "USED"
    [] OTHER                         -> "RESERVED"

Entry(base, length, type) == [base |-> base, length |-> length, type |-> type]

\* A mutated META arm: the rest of the region keeps the region's whole length.
MetaEntriesUntrimmed(st, e) ==
  LET metaLen == RoundUp(requiredFreeSize(st)) IN
  <<Entry(e.base, metaLen, "META"), Entry(e.base + metaLen, e.length, "FREE")>>

\* The region the table lands in: the table's own pages, then what is left.
MetaEntries(st, e) ==
  LET metaLen == RoundUp(requiredFreeSize(st)) IN
  <<Entry(e.base, metaLen, "META")>>
    \o IF metaLen < e.length
         THEN <<Entry(e.base + metaLen, e.length - metaLen, "FREE")>>
         ELSE <<>>

EntriesOfRegion(st, e) ==
  IF e.base = pmmEntryLand(st) THEN MetaEntries(st, e)
  ELSE IF pmm_isStCounted(e) THEN <<Entry(e.base, entryLen(e), EntryType(e))>>
  ELSE <<>>

\* The loop over the regions: the table after each number of them.
Filled(st) ==
  LET upTo[n \in 0..Len(st)] ==
        IF n = 0 THEN <<>> ELSE upTo[n - 1] \o EntriesOfRegion(st, st[n])
  IN upTo

\* The capacity as counted entries only: no page is ever split into slots.
TableCapacityTight(st) == requiredNumEntries(st) - 4

\* The slots the table's pages hold (initialResv.capacity).
TableCapacity(st) ==
  (PMM_ENTRIES_PER_BLOCK * RoundUp(requiredFreeSize(st))) \div PageSize

\* setupMemoryMap; "panic" when there is no room for the table.
setupMemoryMap(st) ==
  IF pmmEntryLand(st) = 0
    THEN [outcome |-> "panic", land |-> 0, entries |-> <<>>, capacity |-> 0]
    ELSE [outcome |-> "ok",
          land |-> pmmEntryLand(st),
          entries |-> Filled(st)[Len(st)],
          capacity |-> TableCapacity(st)]

\* The same in pages, as the physical memory manager takes it.
TableOf(st) ==
  LET made == setupMemoryMap(st)
  IN [land     |-> made.land \div PageSize,
      capacity |-> made.capacity,
      meta     |-> CHOOSE i \in DOMAIN made.entries : made.entries[i].type = "META",
      entries  |-> [i \in DOMAIN made.entries |->
                     [base   |-> made.entries[i].base \div PageSize,
                      length |-> made.entries[i].length \div PageSize,
                      type   |-> made.entries[i].type]]]
=============================================================================
