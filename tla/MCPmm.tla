-------------------------------- MODULE MCPmm --------------------------------
(***************************************************************************)
(* Instances of Pmm for TLC.  The tables are those MemoryMap's             *)
(* setupMemoryMap makes of a boot loader's map, in pages.                  *)
(***************************************************************************)
EXTENDS PmmSearch, PmmAllocator

CONSTANTS PageSize, EntrySize

MM == INSTANCE MemoryMap

Region(first, pages, t) ==
  [base |-> first * PageSize, length |-> pages * PageSize, type |-> t]

\* The table lands in the first region; the kernel's pages split the rest.
CoreMap ==
  <<Region(1, 5, "USABLE"), Region(6, 1, "KERNEL_AND_MODULES"),
    Region(7, 2, "USABLE")>>

\* A usable page that stands alone, next to the region the table lands in.
GrowthMap == <<Region(1, 8, "USABLE"), Region(10, 1, "USABLE")>>

\* A table whose capacity, rounded down page by page, leaves no room to split.
TightMap ==
  <<Region(1, 5, "USABLE"), Region(7, 1, "KERNEL_AND_MODULES"),
    Region(8, 1, "BOOTLOADER_RECLAIMABLE")>>

\* Nothing stands alone: the page for a new table is cut out of a free block.
PlainMap == <<Region(1, 8, "USABLE"), Region(10, 1, "KERNEL_AND_MODULES")>>

GrowthTables == {MM!TableOf(GrowthMap), MM!TableOf(PlainMap), MM!TableOf(TightMap)}

PlainTables == {MM!TableOf(PlainMap)}

\* The region the table lands in is not the first usable one.
LowMap ==
  <<Region(1, 2, "USABLE"), Region(4, 1, "KERNEL_AND_MODULES"),
    Region(6, 5, "USABLE")>>

LowTables == {MM!TableOf(LowMap)}

\* The kernel comes first: the table is in the middle of the list.
KernelFirstMap ==
  <<Region(1, 1, "KERNEL_AND_MODULES"), Region(2, 4, "USABLE"),
    Region(6, 1, "ACPI_RECLAIMABLE"), Region(7, 1, "USABLE")>>

CoreTables == {MM!TableOf(CoreMap), MM!TableOf(KernelFirstMap)}
=============================================================================
