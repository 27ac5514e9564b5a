# Skye OS in TLA+

A verification development for the Skye OS kernel (`src/src/kernel/src`, about 2000 lines of C):
TLA+ modules translated from the source, TLC configurations that check them on small instances,
and TLAPS proofs of what matters most for every instance. The repository has no tests and no
documentation beyond its comments, so the reference is the C code and the comments of its headers.

Paths below are relative to `src/src/kernel/src/`.

## 1. The system

The kernel boots from a stivale2 loader, paints the screen, builds a physical memory manager and a
heap, installs exception handlers, looks for ACPI tables, starts the HPET, and halts. It is
single-threaded: one CPU, no scheduler, and until `kernel.c:107` interrupts are off. No interrupt
handler calls the memory manager or the heap; each prints a fixed line or two and then returns or goes on to
`kpanici`. What is hard in it is therefore not threads but re-entrance (a function that reaches
itself through a callee while its own state is half written), long sequences of legal calls, tables
and counters at their limits, arithmetic at the edges, and the order of the boot steps.

### Components

| Component | Source | State it keeps | Operations | What makes it correct |
|---|---|---|---|---|
| Memory map set-up | `memory.c:62-188`, `255-314` | the first table of `pmm_entry` | `setupMemoryMap`, `pmm_isStUsable`, `pmm_isStCounted` | no usable memory lost; the table inside usable memory; nothing that may be handed out overlaps anything; room for the first split |
| Physical memory manager | `memory.c:316-526`, `memory.h` | list of `pmm_entry`, chain of `pmm_resv` | `pmm_alloc`, `pmm_allocMost`, `pmm_allocAt`, `pmm_split`, `pmm_merge`, `pmm_free` | entries tile the memory; the list is whole; a grant is exclusive and keeps its length; the table grows in time; calls end |
| Kernel heap | `heap.c` | list of `heap_desc` inside pages owned by the heap | `initKernelHeap`, `kalloc`, `krealloc`, `kfree`, `heapExpand` | blocks tile a section; those handed out are apart, inside heap pages and freed once; no store of the heap hits one; calls end |
| Boot sequence | `kernel.c` | order of the steps | `_start`, `getTag`, `kpanic` | each service is used only after its set-up; interrupts are on only with the table loaded; every end is reached with them off |
| Interrupts | `interrupts/` | IDT, `timerInterruptHandler`, the interrupt flag | `setupInterrupts`, `setInterrupt`, handlers | a handler finds its frame, aligned and with interrupts off; what returns, returns to an unchanged context; what does not, shows the right screen |
| PIC, MADT | `interrupts/madt.c` | PIC mask | `disablePic`, `madtSetup` | masked before the HPET counts |
| ACPI | `misc/acpi.c` | `rsdp`, `isAcpiV2`, `isSetup` | `confuseAcpi`, `getAcpiTable` | returns the first table with the signature and a good checksum |
| HPET, timer | `misc/hpet.c`, `misc/timer.c` | registers, `freqMult`, `freqDiv`, `nanosOffset`, `isSetup` | `hpetSetup`, `hpet_getNanos`, `hpet_setTimer`, `getNanos` | time starts at 0, never goes back and keeps its rate; the HPET is used just when its table is sound |
| Console | `graphics/framebuffer.c` | cursor, last character, `altBuf`, pixels | `fbPutc`, `fbNewln`, `fbPrint`, `fbPuthex`, `fbSetup` | the pixels read as a terminal; nothing is printed over; picture and icon do not move |
| Logging | `util/logging.c` | the growing output buffer | `va_msprintf`, `logTimer`, `logk`... | every format yields its argument; the buffer is long enough |
| Numbers, strings | `util/numbers.c`, `util/string.c` | none | conversions, C string functions | agree with their reference definitions; end |
| GDT, fonts, icon, PIT, debug tests | | constants or empty | | nothing to model |
| Boot sector demonstrations | `src/src/boot/*.asm` | | | not part of the kernel |

### How they interact

`_start` passes the loader's map to `setupMemoryMap`; `initKernelHeap` takes the heap's first page
with `pmm_allocMost`; `fbSetup` takes the screen's background with `pmm_alloc`. `kalloc` calls
`heapExpand`, which calls `pmm_allocAt`, `pmm_alloc` and `pmm_merge`. In the other direction
`pmm_split` calls `kalloc` for a new reservation and `pmm_allocMost` for its page: the allocator
and the heap call each other, and `pmm_split` calls itself through `pmm_allocMost` with its own
block still marked FREE. `va_msprintf` and `getAcpiTable` use the heap; everything prints.

### The hard behaviours

The full list, with lines, is `hazards` in `PROJECT.json`. The ones that shape the model:

- the extension of the table in `pmm_split` (`memory.c:455-464`): re-entrance, a reservation chained
  before it is filled, slots that are never cleared, `lastPmmResv` that never moves, counters that
  drift (`memory.c:420-437`);
- `pmm_mergePrev` absorbing the first entry without moving `firstPmmEntry` (`memory.c:491-509`);
- the counter that decides when the table is extended (`memory.c:428-431`, `480-481`, `500-501`);
- the merge loops (`memory.c:471-509`), which end only by their returns;
- the rounding of the memory map (`memory.c:140-146`, `184`) and address 0 as "none" (`memory.c:92`);
- `heapExpand` after a merge (`heap.c:30-46`) and the links `kalloc`'s split leaves stale (`heap.c:80-87`);
- an NMI in the middle of a stub (`interrupts.S:70-108`), while a frame is half built;
- the HPET's counter ticking between any two steps of its set-up (`hpet.c:79-106`);
- the scroll, which must tell text from background and icon by one byte of a pixel (`framebuffer.c:173-203`).

## 2. The modules

| Module | Models | Extends / instantiates |
|---|---|---|
| `MemoryMap` | `setupMemoryMap` as an operator on the loader's map, in bytes | |
| `SetupMemoryMap` | the boot step, one behaviour per map; its invariants | `MemoryMap` |
| `MCSetup` | every map of up to `MaxRegions` regions of eight kinds | `SetupMemoryMap` |
| `BootTable` | the table, in pages, that the one leaves and the other starts from | |
| `SetupProofs` | what `setupMemoryMap` makes of any map, and that it is a `BootTable` | `SetupMemoryMap`, `Induction`; instantiates `BootTable` |
| `Pmm` | the physical memory manager, one action per call or per step of a call | `BootTable` |
| `PmmSearch` | the search loops entry by entry, next to the searches `Pmm` states | `Pmm` |
| `PageAllocator` | what the manager promises: runs of usable pages, granted and released | |
| `PmmAllocator` | the refinement mapping from `Pmm` to what it promises | `Pmm`; instantiates `PageAllocator` |
| `MCPmm` | memory maps for `Pmm` | `PmmSearch`, `PmmAllocator`; instantiates `MemoryMap` |
| `PmmInv` | the inductive invariants, for good and up to the first extension of a table | `Pmm` |
| `PmmProofs` | what holds for good; what holds up to the first extension, and that `Pmm` is a `PageAllocator` until then; the list and the searches | `PmmInv`, `PmmSearch`, `PmmAllocator`, `Induction` |
| `Heap` | `heap.c` on descriptors in memory, one action per step of a call | instantiates `BlockAllocator` |
| `BlockAllocator` | what the heap promises: blocks apart, in the heap's bytes | |
| `MCHeap` | what pages are free and what sizes are asked for | `Heap` |
| `HeapInv` | the inductive invariants of the heap | `Heap` |
| `HeapProofs` | the theorems about `Heap` | `HeapInv` |
| `Induction` | induction on the number of rounds of a loop | |
| `Strings`, `Numbers`, `Logging` | `string.c`, `numbers.c`, `logging.c` | |
| `UtilProofs` | the conversions for longs of any width, the functions on strings in any memory | `Strings`, `Numbers`, `Induction` |
| `MCCalls` | small instances of the three and of `setupMemoryMap`, which share no state | `MCSetup`, `Strings`, `Numbers`; instantiates `Logging` |
| `Console` | `framebuffer.c` pixel by pixel | instantiates `Terminal` |
| `Terminal` | what the console promises: a screen of characters | |
| `MCConsole` | a screen and a font | `Console` |
| `ConsoleProofs` | the pixels implement `Terminal`, on any screen, and nothing is printed over | `Console` |
| `Interrupts` | the stubs, the handlers and the panic screen, instruction by instruction | |
| `InterruptsInv` | how far each exception is in its stub and what is on the stack for it | `Interrupts` |
| `InterruptsProofs` | frames, returns and screens, at any depth of nesting | `InterruptsInv` |
| `Acpi` | the root pointer and the search of the tables | |
| `Timer` | `hpetSetup`, `hpet_setTimer`, the clock, next to a counter that ticks | `Acpi` |
| `Boot` | `_start`, with the timer's set-up composed step by step | `Timer` |
| `BootProofs` | the order of boot, the clock and the search of the tables, for any instance | `Boot` |

### `MemoryMap` and the code

Every definition has the name of the function or local variable it stands for. The loop of
`memory.c:107-177` is `Filled`, a recursive function of the number of regions: each appends its
`EntriesOfRegion`, so slot *i* of the table is the *i*-th record. `TableOf` is the same table in pages. The panic of `memory.c:92-98` is the outcome `"panic"`.
`PageSize` and `EntrySize` (0x1000 and 49 in the code) are constants so that TLC can enumerate maps
whose regions are not multiples of a page.

### `Pmm` and the code

*State.* A slot is a place for one `pmm_entry`: the page its table starts at and its index. The
struct's fields are functions of the slot (`type`, `base`, `length`, `prev`, `next`, `parent`,
`owner`), those of `pmm_resv` functions of the reservation (`rentry` is its field `entry`). Two
reservations whose entry has the same base share slots, as in memory. Addresses and lengths are in
pages. `"GARBAGE"` is the type of a slot in a page that holds no table.

`resvNext` is `initialResv.next`, the only link of the chain the code ever writes, because
`lastPmmResv` never moves (`memory.c:457-458`). `numBlocksFree` is never written and left out; so is
`resv->prev`, which is never read. Type `BAD` is in the code's switch (`memory.c:163`) but no region of
that type is counted, so no entry has it.

*Calls.* The kernel is single-threaded, so at most one call runs. `pc` says how far it is, `cur`
which entry it works on, `pending` which frames of `pmm_split` wait for a nested `pmm_allocMost`.

| Actions | Code |
|---|---|
| `pmm_alloc(n)`, `pmm_allocMost(n)` | search and split, `memory.c:319-380`, `411-453` |
| `HeapExpand(a, m, n)` | `pmm_allocAt` then `pmm_alloc`, `heap.c:21-28`, `memory.c:385-408` |
| `InitKernelHeap` | `heap.c:9-18` |
| `pmm_free(g)` | `memory.c:521-522`, the loops follow |
| `AddResv`, `FillResv`, `ReturnToSplit` | the extension of the table, `memory.c:455-464` |
| `AddResvTooEarly` | the same before there is a heap: `kalloc` reads through NULL |
| `ReturnToKernel`, `ReturnToHeap` | the return; `heap.c:30`, `35` set the owner |
| `MergeNext`, `MergePrev` | one iteration of the loops, `memory.c:471-509` |

A search is one step: it only reads, and nothing can run in between. `PmmSearch` restates the loops
round by round, as recursive functions, and `LoopsFind` of the `core` run compares them with the searches in every
state. Both follow `next` for at most `MaxWalk` rounds, one more than there are pages: no list is longer,
and `SearchLoopsRight` proves that the loops are over by then. A call that returns NULL changes nothing and is a stuttering step. `Halt("panic")` is
`kpanic`, `Halt("fault")` an access through NULL or an uninitialised pointer; both stop the machine.

*What the model leaves open.* What `kalloc` returns for a reservation is uninitialised: its
`capacity` may look like 0 or like `EntriesPerBlock` (`AddResv`), its `entry` is unusable
(`WildRead`). What a fresh page holds is unknown: any set of its slots may look EMPTY
(`ReturnToSplit`). The address `heapExpand` computes may be any page or none, since the section
lengths it uses can be wrong (section 1, `heap.c:32`).

*What the model assumes.*

- `kalloc` of a reservation (40 bytes) is served from free heap space; if it had to expand the heap,
  `pmm_split` would be entered a third way. Composing `Heap` with `Pmm` is left (section 5).
- Regions are whole pages (`ManagerGetsATable`, section 4, shows what that gives); ACPI regions need not
  be, which the `calls` run and the first theorems of `SetupProofs` cover for the set-up alone.
- Lengths asked for are at least one page; no caller asks for 0 or for nearly 2^64 bytes.
- Calls are made only while no page of a table is in somebody else's hands (`TablesOurs`). After
  that any write by the new owner destroys entries and nothing can be said.
- `pmm_free` is given a live grant of `pmm_alloc` or `pmm_allocMost`.

### `PageAllocator`

The abstract specification: a set of usable pages, the runs of pages granted, the pages of the heap.
`Grant`, `Release` and `GrowHeap` are atomic, a run is granted only if nobody has a page of it.
`PmmAllocator!Allocator` maps `Pmm` to it: usable pages are those of FREE entries, of the block in flight, of
the grants and of the heap, so the refinement also says that no usable page leaks.

### `Heap` and the code

A descriptor is its address; the fields of `struct heap_desc` are functions of the address, so memory
keeps what was last written where a descriptor no longer is one, and NULL is an address like others
(`heapExpand` reads `biggest->length` through it). `magic` is whether the field holds the magic number,
`used` the one flag that is tested. `live` is the blocks the kernel holds; it is no state of the code.

| Actions | Code |
|---|---|
| `InitKernelHeap` | `heap.c:9-18`; `flags` of the first descriptor is not written: either value |
| `Kalloc`, `TakeExact`, `TakeBest`, `SearchHangs`, `Place` | `kalloc`, `heap.c:51-91`: the walk, then the split |
| `ExpandAt`, `ExpandNew`, `ExpandFails` | `heapExpand`, `heap.c:21-48`; the last writes through NULL |
| `Krealloc`, `FreeOld` | `heap.c:93-109` |
| `Kfree`, `MergePrev`, `MergeNext` | `heap.c:143-169` |

The memory manager is cut down to what the heap sees of it: free runs of pages, and the heap's own
entries, which `pmm_merge` joins. *Assumptions.* `kalloc(0)` is not called. The bytes of a block do not
look like a free block that ends just where the freed one begins: `kfree` follows a stale `prev` into a
block and believes what it finds there. `sizes` is what the kernel asks for and `low` the word that is found at
`NULL->length`; both are part of `Loads`, next to the free runs, so that one run holds several heaps.

`BlockAllocator` is the abstract specification: `Alloc`, `Free`, `Resize` and `Grow` are atomic. An
expansion that meets older pages of the heap, or that links its section from a descriptor which is not the
last any more, damages the heap, see section 3; `damaged` is a history of that, no state of the code. The
properties are stated up to then, except `OnlyLiveFreeable`, which holds in damaged heaps as well.

### `Strings`, `Numbers`, `Logging` and the code

`Strings` makes one call on any memory and compares what it left and returned with a definition that has
no loop in it. A string without a terminator, or a length that leaves memory, is not passed. Two outcomes
are not values: `Fault` (the copy of nothing, section 3) and `Hang` (`strpbrk` and `strstr`, which may never come back). The loops are recursive functions; those over a string
end at `MemEnd` as well, the address behind memory, which no string that is passed reaches. `StringsAssumption` says only that bytes are
bytes and lengths are numbers. `Numbers` has `ultoa`'s
double dabble as a machine, one step per bit, in a buffer of characters that starts as junk; `NumbersAssumption`
says that the digits are enough for every number and the buffer for sign, digits and terminator (64, 20 and 22 in the code). `Logging` is
`va_msprintf`, one step per percent sign, on formats chosen as tokens so that their meaning is known
without parsing; the output is pieces, not characters, and `BytesOf`, `Value` and `Take` follow each
argument's promotion and width. The message then gets its stamp and tag, and its buffer is freed. `MspAppend` appends an empty text
like any other: `string.c:37` would fault if that text lay below the buffer, but the formats and the digits are literals of the kernel
and on the stack, above the heap.

### `Console` and the code

The state is the frame buffer, whether there is a background picture, the cursor and the last character.
A pixel is black, ink, icon or the background pixel of an index; all but ink have alpha 0, which is how
`fbNewln` tells text from background. `fbPutc` has its three branches (`Draw`, `LineFeed`, `Break`), each
with the break of a full line before it. `Text!Spec` reads the pixels back as characters; characters whose
shapes are the same in the font are read as one (`CharOf`), because no picture tells them apart. `fbDrawIcon` over
a picture blends the icon with what is there (`framebuffer.c:74-82`), a trace of text scrolled under it included; the model puts the icon itself.

### `Interrupts` and the code

`Stub(v)` is the stub of a vector as a sequence of instructions, `rip` a number, the stack a sequence of
words whose length is `%rsp`; each instruction is an action. The processor (mapped as external) aligns the
stack, pushes its five words and, for some vectors, an error code; it delivers exceptions in C code and NMIs
between any two instructions. A gate is the four fields `setInterrupt` cuts an address into. A handler
that returns (`HandlerLogs`, `HandlerReturns`) may change every register the ABI lets it change. `kpanic`
is assumed to be compiled so that the C compiler does not move the stack between its pushes.

### `Acpi`, `Timer`, `Boot` and the code

`Acpi` has the root pointer (absent, sound or not, of a revision) and the root table as a sequence; a table is
its signature and whether its bytes add up to 0. `Search` is the loop of `acpi.c:52-79` as a recursive function of
the index. `Timer` has a step for each access to a register of the
HPET, in the order of `hpet.c:68-128`; `Tick` is the hardware. `pc = "trap"` is the division by zero that
`freqMult = 0` leads to, `"panic"` is `kpanic` in `confuseAcpi`, `"pit"` the way without an HPET. `Boot` is
`_start`: `Order` its calls, `ready` what is set up, `intFlag` the interrupt flag, which `hpet_setTimer`
clears and sets too. `Needs` has, for each call of `_start`, the parts it reaches through whatever it calls: a line of the log or a
panic takes the screen; `printPmm` ends in `printMemory`, whose `logkf` takes its buffer from the heap (`memory.c:224`, `251`); an
allocation may take pages, and a split of pages may extend the table with a `kalloc` (`memory.c:456`). The one call of that kind before there is a heap,
in `initKernelHeap`, is what `RoomToSplit` of `SetupMemoryMap` excludes. `NotEnoughMemory` is the panic of `memory.c:92-98`; that there are pages
for the heap and the picture is assumed. The counter has 64 bits and does not wrap; the root table is as the firmware made it;
the tag of the memory map is read without a test, so without one nothing further is said.

## 3. The runs

| Run | Question | Properties | Result |
|---|---|---|---|
| `calls` | what does `setupMemoryMap` make of a map; do strings, numbers and messages mean what they should? | `FreeIsAlone`, `UsableKept`, `TableInside`, `RoomToSplit`, `PagesInOrder`; `StringsRight`, `NumbersRight`, `MessageRight` | hold, 586301 states |
| `core` | is the manager right as long as no table is extended? | `TypeOK`, `EntriesDisjoint`, `ListSound`, `AllListed`, `GrantsIntact`, `FreeMerged`, `SlotsCounted`, `SlotLeftToExtend`, `LoopsFind`, `PagesConserved`, `CallsReturn`, `AllocatorSpec` | hold, 29515 states |
| `growth` | what survives when tables are extended? | `AllListed`, `PagesConserved` | hold, 13832 states |
| `heap` | are blocks apart, found, and freed once? | `BlocksTile`, `GrantsApart`, `OnlyLiveFreeable`, `NoScribble`, `AllocatorSpec`, `CallsReturn` | hold, 150076 states |
| `console` | do the pixels read as a terminal? | `BackgroundStays`, `NothingAhead`, `TerminalSpec` | hold, 4898 states |
| `interrupts` | do exceptions return to what they interrupted, or stop at the right screen? | `HandlersSafe`, `ReturnsUnchanged`, `ScreenRight`, `HandlersReturn` | hold, 222420 states |
| `boot` | is everything called when it is ready, and the clock right? | `CalledWhenReady`, `ClockRate`, `HpetUsed`, `ClockNeverBack`, `BootEnds` | hold, 1646976 states |
| `exact` | does `pmm_alloc` return exactly the length asked for (`memory.h:87`)? | `ExactlyLen` | violated |
| `tables` | do the pages of the tables stay reserved (`memory.h:48`)? | `TablesReserved` | violated |
| `list` | are all entries found from `firstPmmEntry` (`memory.h:54`)? | `AllListed` | violated |
| `heap_twice` | does the heap support an odd allocation when it is out of memory (`heap.c:20`)? | `FreshGrants` | violated |
| `strpbrk` | does `strpbrk` find the first character that matches (`string.c:167`)? | `PbrkFirst` | violated |

*The bounds and why they are enough.*

- `calls`, `setupMemoryMap`: up to four regions, so that a map has a usable region before and after the table's, one of
  another kind between and an unaligned one next to any of them. A page is 4 units and an entry 1, so
  a table may fill a page exactly or need two. Maps start at 0 or at 4: at 0 the first candidate is refused.
- `core`: 9 pages, two maps (the table in the first region; the kernel's entry first and the table in
  the middle), lengths 1 to 3, a table of 8 slots and `MaxResv = 0`: behaviours stop where the table
  would be extended (`pc = "addResv"`). Up to four grants are out at once, freed in every order, with
  the heap next to them, and slots are reused after merges.
- `growth`: 11 pages and three maps. In one a page stands alone and is what the nested call finds; in
  one it finds the block being split; in one the table is too tight to split at all. Up to four
  extensions (`MaxResv = 4`), two slots per added table.
- `exact` and `tables`: the middle map of `growth`, with lengths 2 and 1. `list`: a map whose first usable
  region is too small for the table, which a real map needs about 80 counted regions to be
  (a region of one page and a table of 49 bytes per entry); the free that absorbs the first entry
  needs only that the first entry is FREE.
- `heap`: pages of 7 bytes, a descriptor of 1, a smallest section of 2 (`MinSect > DescSize`, as in the code).
  Six loads: one page filled with blocks of 1 and 3, so that blocks stand side by side, split, merge
  on both sides and go stale; two or three pages that do not touch, so that there are several sections and a
  request finds no page at all, once with blocks that fill a page, after which the list does end where
  `lastHeapDesc` says, and once with blocks that do not; two pages that touch, where the heap joins and is damaged; and two loads in
  which the bytes at NULL look like a block that ends where free pages begin (`heap.c:27`, `32`), so that one
  page is asked for, or none. `heap_twice` is the load of two pages that touch.
- `calls`, strings, numbers and logging: memories of five bytes with the values 0, 1 and 200 (negative as a `char`), all pointers, NULL and all
  lengths up to 3, so that copies overlap in both directions; all numbers of 8 bits, which three digits
  hold, with widths below, at and above the length of their texts; widths of 1 to 4 bits
  for `char` to `long`, arguments whose high bits are set, formats of up to three tokens out of nine; times
  up to where the stamp overflows.
- `strpbrk`: memories of four bytes with three values, enough for a string, a set and both their terminators.
- `console`: three columns and three lines and a spare row of pixels, an icon of two and a half lines in the last
  column. Each position of the cursor, full lines, scrolls of text under the icon, and the picture set up
  in the middle of it all.
- `interrupts`: vectors 0 to 20 with and without error codes, two of them in a behaviour, so one inside the
  other at every instruction. Depth adds nothing: a third nests like the second.
- `boot`: all lists of up to three tags; all root pointers; up to two tables; periods of 0.9 and 2.5 of a
  nanosecond, one for each branch of `hpet.c:85-91`; a counter that starts at 2, running or not, and may tick twice
  anywhere. The theorems of section 4 take the bounds away from four of its five properties.
- Deadlock is not checked: the kernel may stop calling, panics and faults stop it, and boot ends.

*What the violations show.*

1. `exact`. A two-page request splits a block while the table is nearly full. The nested
   `pmm_allocMost(1)` finds that very block, the shortest free one, and splits a page off it. The
   caller gets one page. In the kernel this is memory handed out twice as soon as the rest is granted.
2. `tables`. A one-page request: the nested call returns the block itself, as an exact match. It becomes
   the new table's page, and `memory.c:466` marks it USED and returns it.
3. `list`. A free of the second entry absorbs the first. `firstPmmEntry` still points to the slot, now
   EMPTY, whose `next` still leads into the list, so all seems well until a split takes the slot for an
   entry further down. The entries before it are then lost to every search.
4. `heap_twice`. The first block handed out fills the heap's page. The next request finds no free block and no
   page to extend one with, so a new section is made; `pmm_merge` joins its page with the one before, and
   `heap.c:44-45` write the section's descriptor at the base of both: over the first descriptor, whose block is
   in use. `kalloc` hands that block out again.
5. `strpbrk`. The string is not empty and its first character is not in the set: `string.c:171` compares it again and again. It is all
   the same whether a match stands further on or, as in the counterexample, the set is empty and the answer is NULL.

*Also seen while modelling, not run.* None of these needs a model checker once it is pointed out:

- `memory.h:39` says that the entry of a reservation is never in its own block, but the entry of
  `initialResv` is; `memory.h:49` says that a table is added when there is room for one entry *in total*,
  but the test of `memory.c:429` looks at one table at a time, so once the first is nearly full every split
  adds another.
- `heap.c:32` adds the length of the merged entry, heap pages before it included, to `biggest`.
- `heap.c:80-87` sets neither `prev` of the descriptor after a split nor `lastHeapDesc`: `heap.c:152` later believes
  the stale `prev`, so free neighbours stay apart; `heap.c:46` links the next section behind a descriptor that is
  no longer last and cuts off the ones behind it, which are then not found any more. It is not only blocks that
  are lost: `kfree` may merge the descriptor `lastHeapDesc` points to into the one before, `kalloc` may hand the
  bytes of both out as one block, and the store of `heap.c:46` then hits that block. With pages that are
  apart, requests of two sizes are enough. This is why `damaged` includes a stale `lastHeapDesc`.
- `string.c:37`: a copy of 0 bytes to the source or above it starts at `num - 1`, which wraps.
- `string.c:216`: `strstr` never advances either; no line of the sources says what it should do, so no run is about it. It hangs where
  the needle's characters are not all the first one of the haystack, and where they are answers with the haystack ("aa" is found in "ab").
  `StringsRight` says only that for a needle of one character its answer is right when it comes back, and says the same of `strpbrk`; with `PbrkFirst`
  that leaves of `strpbrk` nothing but the hang.
- `memory.c:92`: a usable region at address 0 that is large enough for the table is taken as none, and boot panics even if another would do.
- `heap.c:28-36`: when there are no pages left `heapExpand` writes through NULL, before the test of `kalloc`. `CallsReturn` counts that as an end.
- `logging.c:45`: after `%%` the second sign is read again as the start of a conversion. `logging.c:77`: `%u` of a
  value with its top bit set prints the 64-bit extension. `Understood` leaves both out of `MessageRight`.
- `kernel.c:54-59`: the names `rsp` and `rbp` on the panic screen are swapped against the order of the pushes.
  `ScreenRight` leaves those two rows out.
- `hpet.c:89`: for a period below a nanosecond `freqMult` becomes 0 and `hpet_getNanos` divides by it.
  `hpet.c:45-66` address the comparators without the HPET's base. `hpet.c:124`: the deadline lacks
  `nanosOffset`. `madt.c:24` looks for `MADT`; the signature of that table is `APIC`.

### Fairness

`Pmm!Spec` has weak fairness of `Continue`, the steps of a call that has begun. Interrupts are off while
the memory manager is set up, no handler that returns calls it, and there is nothing else to run: a
call that can take a step takes it. Nothing is assumed of the kernel making calls. `CallsReturn` says
that each call comes back or stops the machine; the case `pc = "addResv" /\ resvs = MaxResv` is the bound.

`Heap` has the same for its own `Continue` and the same reason. `Interrupts` has weak fairness of
`Instructions`: the processor goes on with what it executes; that an exception or an NMI arrives is not
assumed. `Boot` has weak fairness of `Start`, the steps of `_start`; that the counter ticks is not assumed.
The fairness of `Timer` is that of `timerSetup` alone, and `Boot` does not use it.

## 4. The proofs

All theorems hold for every value of the constants that satisfies the assumptions of the modules
(`PmmAssumption`, `HeapAssumption`, `ConsoleAssumption`, ...), which TLC evaluates on the runs; what is
assumed beyond them is said below.

### The memory map

`SetupProofs` proves, for maps of any length, any size of a page and any size of an entry:

| Theorem | Statement |
|---|---|
| `UsableMemoryAlone` | `SetupSpec => []FreeIsAlone` |
| `NoUsableMemoryLost` | `SetupSpec => []UsableKept` |
| `TableInUsableMemory` | `SetupSpec => []TableInside` |
| `EntriesInOrder` | `SetupSpec => []PagesInOrder` |
| `RoomForTheFirstSplit` | maps with `SlotsForAll` prove `SetupSpec => []RoomToSplit` |
| `ManagerGetsATable` | what `Pmm` assumes of its table, and what its theorems ask of it |

The assumption on the maps is `MapAssumption`, what stivale2 promises: usable regions are whole pages and overlap nothing. What is
not usable may start anywhere and overlap. The table is built by a loop over the regions. `RegionEntries` says what one region
gives: entries that come from it (`From`: inside the region rounded to pages), in order, that keep all of it when it is usable, at most one for a
counted region and one more where the table lands. `Sound` says the same of the table after *n* regions, and is shown by
induction on *n*; two entries from different regions, one of them usable, are apart because usable regions are whole pages (`FromApart`).

`SlotsForAll` is the limit of hazard `memory.c:184`. The capacity counts slots page by page, and in the code, where 83 entries of 49 bytes fit
a page with 29 bytes left over, it may fall short of what is required when the table has more than one page. One page is
enough for up to 79 counted regions (`requiredNumEntries` adds 4), and for a size of entry that divides a page nothing is lost at all; both
are covered. From 80 regions on one has to count: at 163 regions the table needs 167 entries, takes 2 pages and gets a capacity of 166.

`ManagerGetsATable` joins the two halves of the model. For a map of whole pages in the order of addresses, within the memory and the bounds of
`Pmm` (`WithinBounds`), `TableOf` satisfies `IsTable`, which is what `PmmAssumption` asks, and `IsRoomy`, under which no split finds its table full. Its first entry is kept
(`IsFirstKept`) if the first usable region is long enough for the table (`LandsFirst`), and no two free entries touch (`IsMerged`) if no two usable regions
do (`Merged`). So the hypotheses of the theorems below are hypotheses about the loader's map.

### The memory manager, for good

`PmmProofs` proves, for every number of pages, every capacity, every table that satisfies `IsTable`,
every set of lengths and any number of extensions:

| Theorem | Statement |
|---|---|
| `InvHolds` | `Spec => []IInv` |
| `TypeCorrect` | `Spec => []TypeOK` |
| `EntriesNeverOverlap` | `Spec => []EntriesDisjoint` |
| `ListAlwaysSound` | `Spec => []ListSound` |
| `NoPageLost` | `Spec => PagesConserved` |

`IsTable`, in `PmmAssumption`, is the shape of what `setupMemoryMap` leaves when regions are whole pages
(`ManagerGetsATable` below); `MCPmm` makes the tables of the runs with `MemoryMap`'s own operator.

None of the properties is inductive as it stands. `EntriesDisjoint` survives a split only if
the block has more pages than are cut off and the new slot was not an entry; and a merge only if
the absorbed entry is really the neighbour. `ListSound` survives a merge only if the entry being merged is an
entry. Hence `IInv` (module `PmmInv`):

- `TypeOK`;
- `WorkInv`: the entry the call works on and the blocks of the waiting frames are entries;
- `SpanInv`: entries are not empty and do not overlap;
- `ListSound`;
- `HeldInv`: a grant's entry is USED, has no owner, belongs to one grant and is not the one being
  worked on; FREE entries have no owner. Without it `heapExpand`'s merge could absorb a grant's slot,
  and a later `pmm_free` of that grant would turn a slot that is no entry into one.

`NextCases` reduces the next-state relation to the steps that differ (a split, a halt, the extension,
the returns, the merges, a free). `SplitInto` and the two merges get a lemma per conjunct; the other
actions change only types, owners and bookkeeping and are dispatched by `EntriesSame`-like lemmas that
say the entries, their spans and links are what they were. `NoPageLost` follows from arithmetic on the
spans of the two entries that a split or a merge touches.

That these four survive the extension of the table, although `exact` and `tables` show that it gives
away pages, is a result worth knowing: the defects corrupt who *owns* what, never the list itself.

### The memory manager, up to the first extension of a table

The second part of `PmmProofs` has what the violations of section 3 refute after it. `resvs` counts the extensions, so
`resvs = 0` says "not yet"; it never falls (`ResvsKept`).

| Theorem | Statement |
|---|---|
| `GrantsStayIntact` | `Spec => [](resvs = 0 => GrantsIntact)` |
| `CounterExact` | `Spec => []SlotsCounted` (which says `resvs = 0 =>` itself) |
| `RoomForTheNestedSplit` | `RoomyTables` proves `Spec => []SlotLeftToExtend` (the same) |
| `FreeStaysMerged` | `MergedTables` proves `Spec => [](resvs = 0 => FreeMerged)` |
| `ManagesPages` | `Spec /\ [](resvs = 0) => AllocatorSpec` |

`RoomyTables` says that a table leaves room for two entries, `MergedTables` that no two FREE entries of it touch.
`ManagerGetsATable` proves the first, for maps with `SlotsForAll`, and derives the second from the map. It is up to the
loader: `setupMemoryMap` makes one entry of one region and does not merge, and a loader that lists touching
usable regions separately would have them stay apart until something between them is freed. Both hold for the tables of `core`.

The invariants (second part of `PmmInv`), each inductive together with `IInv` and `TableInv`:

- `TableInv`: there is one reservation, its table's own entry is META and in use, and no call works on it; so the
  table's pages are in an entry, and by `SpanInv` in no other;
- `GrantInv`: what a grant says is what its entry says, and the block in flight has the length asked for.
  This is the very thing the nested call of an extension breaks;
- `CountInv`: the counter is the number of entries. A split adds one to both, and a merge takes one from both, because every
  slot is accounted to `initialResv`;
- `RoomInv`: no entry is outside the table, and two slots are left except when the table is about to be extended, when one is.
  A free slot is found by comparing the number of entries with that of slots;
- `TouchInv`: entries that touch are neighbours in the list, so that the merge loops, which only look along
  the list, miss none; `MergeInv`: two FREE entries touch only where the running merge has still to look. The frees alone
  would not do: a split hands out the front of a block, and what is left may touch nothing FREE, because the block did not.

`ManagesPages` is the refinement: under `UsablePages`, `GrantedRuns` and `heapPages` (module `PmmAllocator`) a return to the kernel is
`Grant`, a free is `Release`, a return to the heap is `GrowHeap`, and a split, a merge or a halt leaves all three as they are.

### The list and the searches

The last part of `PmmProofs` holds for good again, through every extension:

| Theorem | Statement |
|---|---|
| `EveryEntryListed` | `FirstKept` proves `Spec => []AllListed` |
| `SearchLoopsRight` | `FirstKept` proves `Spec => []LoopsFind` |

`FirstKept` says that the first entry of the boot table is not FREE; `ManagerGetsATable` derives it for a map whose first usable region holds the
table. Without it both are false, since a free may absorb the entry `firstPmmEntry` points to (the run `list`). The invariants are
`FirstInv`: the first entry is never FREE, held, or worked on, so no merge absorbs it and its slot is not used again; and `HeadInv`: it is the
only one with nothing before it, so that a walk *backwards* from any entry reaches it. The walk forwards is the same links, by `ListSound`.
The pages passed are the measure: each link goes to a higher address, so a walk is over after as many steps as there are pages.

For `SearchLoopsRight` the invariants are of the loops, round by round, in any one state of the manager. `Cut` says what has been seen after *k*
rounds: a set that has the first entry and all that follows its members, up to the entry the loop is at. `ExactInv` and
`MostInv` say that the candidate is the best of that set: the *first* of the shortest that are long enough, in `pmm_allocMost` else the first of the longest, or
none when nothing seen will do. When the loop is over the set is the whole list. One lemma per branch of the loop's body
takes *k* to *k + 1*; the two loops prefer what they have found in different ways, and both ways are shown to be right.

Loops and walks are recursive functions of a number of rounds. The library's induction theorems cannot be used, since they take an operator as
a parameter; `Induction` has the same with sets in its place: a nonempty set of numbers has a least one (`LeastNumber`), a set with 0 in
it that is closed under the successor up to *N* has them all (`Reaches`), and a step that is a *function*, of the round as well
(`RecursionExists`, `RecursionOnNat`) or not (`IterationExists`), can be repeated and stays within a set that it maps to itself
(`RecursionType`, `IterationType`).

### The heap

`HeapProofs` proves, for every page size, descriptor size, smallest section and load:

| Theorem | Statement |
|---|---|
| `HeapInvariant` | `Spec => []HInv` |
| `RefusesOtherPointers` | `Spec => []OnlyLiveFreeable` |
| `GrantsStayApart` | `Spec => []GrantsApart` |
| `SectionsStayTiled` | `Spec => []BlocksTile` |
| `StoresMissBlocks` | `Spec => NoScribble` |
| `AllocatesBlocks` | `Spec => AllocatorSpec` |

All but the first two say "until an expansion damages the heap" themselves. `HInv` (module `HeapInv`) has a part for
every heap, `MarkInv`: what looks like a used descriptor is the descriptor of a block handed out. The rest holds while the heap is not damaged:

- `RunsInv`: no page is in two runs, and two runs of the heap never touch (an expansion that would make them touch is what damages);
- `TileInv`: every descriptor with its block lies in a section and overlaps no other;
- `NextInv`: `next` leads to a descriptor, namely the one that begins where this one ends, or the first of a section;
- `PrevInv`: `prev` is the neighbour, or *stale*. `heap.c:80-87` leaves it so, and it is harmless as long as a stale `prev`
  does not end where this descriptor begins, since `heap.c:152` then does not take it for the neighbour. That it never comes to end
  there later, whatever is split, merged and added, is the heart of the proof (`SplitPrev`, `AbsorbPrev`, `NewSectionPrev`);
- `EndsInv`: the list begins with a descriptor and `lastHeapDesc`, as far as its `next` is NULL, is one;
- `LiveInv`: each block handed out has a used descriptor that is long enough; the one a call works on is not used.

`SplitShape`, `AbsorbShape` and `NewSectionShape` say what a split, a merge and an expansion make of the descriptors; a lemma
per conjunct follows for each. That blocks *tile* their sections needs in addition that `kalloc`'s walk meets
every descriptor (`FilledInv`). The walk is a recursive function of the number of steps; since induction
is not at hand, its existence and its properties come from the least number for which they would
fail (`LeastNumber`, `WalkExists`), and that it gets round a list of finitely many from the pigeonhole principle (`WalkCloses`).

`NoScribble` follows because every store goes to a descriptor, which lies apart from the blocks in use by `TileInv`, or to a block
that is being placed or copied into. For `AllocatesBlocks` a return from `kalloc` is `Alloc` or `Resize`, an accepted `kfree` is `Free`,
an expansion is `Grow`, and everything else leaves the blocks and pages as they are.

### Boot, clock and tables

`BootProofs` proves, for lists of tags of any length, root tables of any length, any periods and starts of the counter:

| Theorem | Statement |
|---|---|
| `BootOrdered` | `BootSpec => []CalledWhenReady` |
| `ClockMonotone` | `BootSpec => ClockNeverBack` |
| `ClockAccurate` | `BootSpec => []ClockRate` |
| `HpetFound` | `BootSpec => []HpetUsed` |

The assumption is `TimerAssumption` (the unit is not 0, the counter starts at a natural number). For the first
the inductive invariant is `StageInv`: which parts, screen, pages, heap and descriptor table, are ready at which stage, that interrupts are on only after
`sti`, and that the timer has moved from its first step only at its own stage. For the clock it is `ClockInv`: the
counter stands still from `Disable` to `Enable` (so the offset read in between is exactly the counter's reading), the
multiplier is 0 or 1 because `hpet.c:85-91` divides on one side only, and from the offset on
`nanosOffset` is the reading of the ticks before `Enable`. It follows that the clock shows `elapsed * freqDiv`,
which only grows, and `Rounding` bounds what the division of `hpet.c:87` loses.

For `HpetFound` the loop of `getAcpiTable` is a recursive function again: `LoopExists` shows that its rounds exist, `SearchFinds`
that the result is the first sound table with the signature, both by the least round that would be an exception. `HpetInv` then
follows the result through `hpetSetup`.

### Exceptions

`InterruptsProofs` proves, for exceptions and NMIs that nest to any depth, between any two instructions, on a stack of any
height and with any error codes:

| Theorem | Statement |
|---|---|
| `HandlersFindTheirFrames` | `Spec => []HandlersSafe` |
| `ReturnsLeaveNoTrace` | `Spec => ReturnsUnchanged` |
| `ScreensAreRight` | `Spec => ScreenRight` |

The invariant, `NestingInv` (module `InterruptsInv`), says of *every* exception that has not returned how far it is in its stub and
what is on the stack for it. What "executes" is the processor for the innermost one and, for each other, the context the
next one interrupted; so one definition, `LevelInv(c, p, s)`, serves for all: an exception that interrupted `c` and executes at `p`
finds in the stack `s`, from `Base(c)` on, the first `Height(q)` words of the frame `FrameWord(c, _)`, where `q` is its place in the
stub; the registers in `Kept(q)` are still, or again, those of `c`. Their frames lie on the stack in the order of nesting, so an instruction of the innermost one,
which changes nothing below its own `Base`, leaves the others' frames alone (`TopStep`, `LevelSame`). For each kind of instruction one lemma takes `q` to
`q + 1` (`PushLevel` to `IretLevel`); that the pops undo the pushes is `PopOrder[q] = PushOrder[17 - q]`. `DeliveredStack` shows that what the processor pushes
is the frame up to where the stub begins, with the error code or without: for vectors 0 to 15 `StubsWithoutCode` are exactly those that push one.
The later ones have no stub and come as "segment not present". `StubInstructions` finds the instruction at a place of the concatenated
stub, `Gates` the address in the three fields of a descriptor.

### The console

`ConsoleProofs` proves, for every size of screen, font and icon:

| Theorem | Statement |
|---|---|
| `PictureStays` | `Spec => []BackgroundStays` |
| `ShowsText` | `Spec => TerminalSpec` |
| `NothingPrintedOver` | `Text!Spec => []Text!AheadBlank` |
| `PrintsOverNothing` | `Spec => []NothingAhead` |

The frame buffer is one-dimensional, the cells two-dimensional: the first lemmas are about quotients and remainders, that
they are unique (`OneQuotient`), and which pixel belongs to which cell (`CellPixel`). `RightPicture` says of a frame buffer that each
pixel is ink or what belongs there when there is no ink. It is kept by the scroll because with a picture
only ink is moved and the rest restored from it; without one all but the icon is ink or black, and no
pixel of the icon is moved to a place outside it, because the icon hangs from the top (`IconAbove`, `ScrollRight`, `BrokenRight`). For the refinement the ink of a cell decides its character (`InkScrolls`, `CellScrolls`,
`CharInks`). For the same reason the cell two lines below one that shows is not hidden by
it either (`HiddenHangs`, `TwoBelow`), and a scroll brings no half character out from under it. `TextStep` maps every step to one of `Terminal` or to a stutter, and `NothingAhead`
is then what `NothingPrintedOver` says of the `Terminal` that is implemented. That one is about `Terminal` alone: a line break, with its scroll by
two lines, leaves the line it goes to blank, and a character only takes the cell at the cursor (`BreakBlank`, `TerminalStep`). Its
`TerminalAssumption`, that hidden cells hang from the top, holds for the cells under the icon (`ScreenIsOne`).

### Numbers and strings

`UtilProofs` proves, for longs of any width, any number of digits that is enough for them and every number, and for memories of any size,
all bytes and all lengths:

| Theorem | Statement |
|---|---|
| `ConversionsRight` | `Spec => []NumbersRight` |
| `StringsCorrect` | `StringsSpec => []StringsRight` |

The invariant of `ultoa`'s loop is `Doubling`: with *i* bits taken in, what is left in `rest` is `left * 2^i` for some `left` below
`2^(Bits - i)`, and the number is what the row of digits shows, times `2^(Bits - i)`, plus `left`. A round moves one bit from `left` to
the row (`BitMoves`). That the row then shows twice as much and the bit is `ShiftDoubles`: digit by digit from the last one, what is carried
into a digit, and what becomes of it after `Magic`, are the quotient and remainder by 10 of its double and the carry (`ShiftRounds`). No carry
leaves the first digit, because the row never shows more than the number, which fits by `NumbersAssumption`; this
is the only place where 20 digits for 64 bits matter, and for the lowest long too, whose size is `2^63` (`SizeFits`). `Stripped`, `PaddedText` and `HexRow`
say what `ultoa`'s end, `padn` and `ltox` make of a buffer. Powers, and the number that characters show, are recursive functions; `PowerSteps`,
`PowerAdds`, `ReadSteps` and `ReadBound` are what is known of them.

What `string.c` leaves in memory is read by the next call, so the invariant of `StringsCorrect` is that memory holds bytes, together with
`StringsRight` itself. The loops are of three kinds. A copy moves a block (`CopyUpMoves`, `CopyDownMoves`): upwards to a lower address and
downwards to a higher one, no byte is read that the same copy has written, and that is why the direction must follow the addresses; `MemcpyMoves`
puts the two together, and `StrcpyRight`, `StrncatRight` and `StrncpyRight` add the terminator or the zeros behind the block. A search is a
scan (`Scans`): it answers with the first place that stops it, and with its default if there is none (`ScanFindsFirst`); `MemchrRight`, `StrchrRight`,
`MemcmpRight` and `StrncmpRight` say what stops each of them, a terminator included. A length is a count (`Counts`, `CountIs`): the distance to
the first place that is not counted, which makes `strlen` the length of the text (`LengthOfString`) and `strspn` the prefix (`SpanOfText`). `strrchr`
and the search of a set run over all characters, by `Induction` (`StrrchrRight`, `InSetRight`). The copy of nothing is a case of the lemmas about copies and not
excluded by a hypothesis: what `StringsRight` says there is that the call faults.

### Only model-checked

- `MessageRight`: `Logging` declares recursive operators, next to which no theorem can stand.
- `AllListed` and `LoopsFind` when the first entry is FREE: they are false there (the run `list`).
- `CallsReturn`, `HandlersReturn`, `BootEnds`: liveness is out of the prover's reach.

## 5. Not modelled, and the plan

Not modelled: a handler that prints in the middle of a print of the code it interrupts (`Interrupts` and `Console`
are not composed); `fbPuthex` (digits given to `fbPutc`); `fbText`, `fbTextb`, `fbRect`, `checkFree`, `setTimerInterruptHandler` and `msprintf` (no
callers; the last only wraps `va_msprintf`), `sisqrt` and the gradient of `fbSetup` (colours), the text that `printPmm` and
`printMemory` print (their calls are in `Needs`), `pitSetup`, `resetWatchdog` and `doDebugTests` (empty), the GDT, fonts and icon
(data), the stand-alone boot sectors in `src/src/boot` and the build files.

What is left, in order of importance:

1. `HeapOverPmm`: `Heap`'s page supply replaced by `Pmm`, so that `kalloc` inside `pmm_split` and
   `heapExpand` inside `kalloc` meet.
2. `Interrupts` over `Console`: what the screen shows when an NMI's line falls into the middle of `fbPutc`.

## 6. Running it

    tlc -config MCPmm_core.cfg MCPmm
    tlc -config MCCalls.cfg MCCalls
    tlc -config MCHeap.cfg MCHeap
    tlc -config Strings_strpbrk.cfg Strings
    tlc -config MCConsole.cfg MCConsole
    tlc -config Interrupts.cfg Interrupts
    tlc -config Boot.cfg Boot
    tlapm Induction.tla
    tlapm SetupProofs.tla
    tlapm PmmProofs.tla
    tlapm HeapProofs.tla
    tlapm BootProofs.tla
    tlapm InterruptsProofs.tla
    tlapm ConsoleProofs.tla
    tlapm UtilProofs.tla

The operators commented "Mutated" are plausible mistakes in the definition that follows them. They are
not used by any specification; putting one in its definition's place must make TLC report the
property listed with it in `PROJECT.json`, which shows that the property notices the mistake.
