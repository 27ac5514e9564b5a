------------------------------- MODULE MCSetup -------------------------------
(***************************************************************************)
(* SetupMemoryMap for TLC: every map of up to MaxRegions regions laid out  *)
(* from FirstBase on, one after the other.  A page is PageSize units long. *)
(* Usable and boot loader regions start and end on a page, as stivale2     *)
(* guarantees; the others need not.                                        *)
(***************************************************************************)
EXTENDS SetupMemoryMap

CONSTANTS MaxRegions, FirstBases

Kinds ==
  [type : {"USABLE", "KERNEL_AND_MODULES"}, length : {PageSize, 3 * PageSize}]
  \cup [type : {"BOOTLOADER_RECLAIMABLE", "RESERVED"}, length : {PageSize}]
  \cup [type : {"ACPI_RECLAIMABLE"}, length : {PageSize \div 2, PageSize + 1}]

PageAligned(k) == k.type \in {"USABLE", "BOOTLOADER_RECLAIMABLE"}

\* The map whose regions are of the kinds ks, from base b on.
Layout(b, ks) ==
  LET start[i \in DOMAIN ks] ==
        LET after == IF i = 1 THEN b ELSE start[i - 1] + ks[i - 1].length IN
        IF PageAligned(ks[i]) THEN RoundUp(after) ELSE after
  IN [i \in DOMAIN ks |->
        [base |-> start[i], length |-> ks[i].length, type |-> ks[i].type]]

AllMaps ==
  {Layout(b, ks) : b \in FirstBases,
                   ks \in UNION {[1..n -> Kinds] : n \in 1..MaxRegions}}
=============================================================================
