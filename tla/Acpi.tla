-------------------------------- MODULE Acpi --------------------------------
(***************************************************************************)
(* misc/acpi.c: the root pointer the boot loader hands over, and the       *)
(* search of the root table for a table with a good checksum.              *)
(***************************************************************************)
EXTENDS Integers, Sequences

CONSTANTS
  Signatures,       \* of the tables of the firmware
  MaxTables         \* bound on the length of the root table

ASSUME AcpiAssumption == MaxTables \in Nat

VARIABLES
  rsdp,             \* what the tag of the boot loader points to
  rsdt,             \* the root table: its tables in order
  acpiSetup,        \* isSetup
  isAcpiV2

acpiVars == <<rsdp, rsdt, acpiSetup, isAcpiV2>>

\* "sound": the bytes add up to 0, as chksum wants them.
Pointers == [null : BOOLEAN, sound : BOOLEAN, revision : 0..2]
Tables == [signature : Signatures, sound : BOOLEAN]

AcpiInit ==
  /\ rsdp \in Pointers
  /\ rsdt \in UNION {[1..n -> Tables] : n \in 0..MaxTables}
  /\ acpiSetup = FALSE
  /\ isAcpiV2 = FALSE

\* confuseAcpi calls kpanic for a pointer that is not sound.
PointerPanics == ~rsdp.null /\ ~rsdp.sound

confuseAcpi ==
  /\ ~PointerPanics
  /\ IF rsdp.null THEN UNCHANGED <<acpiSetup, isAcpiV2>>
     ELSE acpiSetup' = TRUE /\ isAcpiV2' = (rsdp.revision >= 2)
  /\ UNCHANGED <<rsdp, rsdt>>

-----------------------------------------------------------------------------
(* getAcpiTable                                                            *)

NULL == 0

\* Mutated: the checksum is only looked at when a table is not the one wanted.
RoundTrusting(signature, found, i) ==
  IF found # NULL THEN found
  ELSE IF rsdt[i].signature = signature THEN i
  ELSE found

\* One round of the loop on table i: found is the table it returned with.
Round(signature, found, i) ==
  IF found # NULL THEN found
  ELSE IF rsdt[i].sound /\ rsdt[i].signature = signature THEN i
  ELSE found

\* What the loop has found after its rounds on the first n tables.
Search(signature) ==
  LET found[n \in 0..Len(rsdt)] ==
        IF n = 0 THEN NULL ELSE Round(signature, found[n - 1], n)
  IN  found[Len(rsdt)]

\* With version 2 and without a root pointer nothing is found.
getAcpiTable(signature) ==
  IF ~acpiSetup \/ isAcpiV2 THEN NULL ELSE Search(signature)
-----------------------------------------------------------------------------
(* Properties.                                                             *)

Sound(signature) ==
  {i \in DOMAIN rsdt : rsdt[i].sound /\ rsdt[i].signature = signature}

\* The table found is sound and the first one of its name; none is found only
\* where there is none, or for the lack of a version 1 root pointer.
SearchRight ==
  acpiSetup /\ ~isAcpiV2 =>
    \A s \in Signatures :
      LET i == getAcpiTable(s)
      IN IF Sound(s) = {} THEN i = NULL
         ELSE i \in Sound(s) /\ \A j \in Sound(s) : i <= j
=============================================================================
