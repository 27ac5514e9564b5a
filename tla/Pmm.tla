--------------------------------- MODULE Pmm ---------------------------------
(***************************************************************************)
(* The physical memory manager (memory.c): a doubly linked list of entries *)
(* that tile the managed memory, kept in tables of slots, and the calls    *)
(* that split, hand out, take back and merge them.                         *)
(*                                                                         *)
(* Addresses and lengths are in pages.  A slot of a table is the pair      *)
(* <<page the table starts at, index in the table>>, so that two           *)
(* reservations that use one page share its slots.  The fields of struct   *)
(* pmm_entry are functions of the slot, those of struct pmm_resv functions *)
(* of the reservation; reservation 0 is initialResv.  The kernel is single *)
(* threaded: a call runs to its return before the next one starts, and pc  *)
(* says how far it is.  pmm_split calls itself through pmm_allocMost when  *)
(* a table is nearly full; pending holds the frames of the calls waiting.  *)
(***************************************************************************)
EXTENDS BootTable, FiniteSets

CONSTANTS
  EntriesPerBlock,  \* PMM_ENTRIES_PER_BLOCK
  MaxResv,          \* bound: reservations added after initialResv
  Sizes,            \* lengths the kernel asks for
  Tables,           \* tables setupMemoryMap can leave behind
  NULL

Slot == TableArea \X (0..(MaxCapacity - 1))
Resv == 0..MaxResv

\* GARBAGE is a slot of memory that holds no table: its bytes are not entries.
SlotType == EntryType \cup {"EMPTY", "GARBAGE"}

\* HEAP_MEMORY_OWNER; an entry without an owner has owner 0.
HEAP == 1

ASSUME PmmAssumption ==
  /\ NumPages \in Nat \ {0}
  /\ EntriesPerBlock \in Nat \ {0}
  /\ MaxCapacity \in Nat \ {0}
  /\ EntriesPerBlock <= MaxCapacity
  /\ MaxResv \in Nat
  /\ TableArea \subseteq Page
  /\ Sizes \subseteq Nat \ {0}
  /\ NULL \notin Slot
  /\ \A t \in Tables : IsTable(t)

VARIABLES
  \* struct pmm_entry
  type, base, length, prev, next, parent, owner,
  firstPmmEntry,
  lastPmmEntry,
  \* struct pmm_resv; lastPmmResv is never moved from initialResv
  rentry, numEntries, capacity,
  resvNext,         \* initialResv.next, 0 for NULL
  resvs,            \* reservations added so far
  \* the running call
  pc,
  cur,              \* the entry it is working on or about to return
  caller,           \* [fn, len]: the call and the pages it asked for
  pending,          \* pmm_split frames waiting for their nested pmm_allocMost
  \* what the rest of the kernel was given
  held,             \* grants of pmm_alloc and pmm_allocMost: [entry, base, len]
  heapPages         \* pages given to the heap

links   == <<prev, next, firstPmmEntry, lastPmmEntry>>
resvars == <<rentry, numEntries, capacity, resvNext, resvs>>
client  == <<held, heapPages>>
vars == <<type, base, length, parent, owner, links, resvars,
          pc, cur, caller, pending, client>>

Ptr == Slot \cup {NULL}
Grant == [entry : Slot, base : Nat, len : Nat]
Call == {"none", "initKernelHeap", "pmm_alloc", "pmm_allocMost", "pmm_free",
         "heapExpand"}
\* A pmm_split frame: the block it splits, the reservation it is adding.
Frame == [block : Slot, resv : Resv]

TypeOK ==
  /\ type \in [Slot -> SlotType]
  /\ base \in [Slot -> Nat]
  /\ length \in [Slot -> Nat]
  /\ prev \in [Slot -> Ptr]
  /\ next \in [Slot -> Ptr]
  /\ parent \in [Slot -> Resv]
  /\ owner \in [Slot -> {0, HEAP}]
  /\ firstPmmEntry \in Slot
  /\ lastPmmEntry \in Slot
  /\ rentry \in [Resv -> Ptr]
  /\ numEntries \in [Resv -> Int]
  /\ capacity \in [Resv -> 0..MaxCapacity]
  /\ resvNext \in Resv
  /\ resvs \in Resv
  /\ pc \in {"idle", "mergeNext", "mergePrev", "return", "addResv", "fillResv",
             "panic", "fault"}
  /\ cur \in Ptr
  /\ caller \in [fn : Call, len : Nat]
  /\ pending \in Seq(Frame)
  /\ held \subseteq Grant
  /\ heapPages \subseteq Nat

-----------------------------------------------------------------------------
(* The table setupMemoryMap left, and the globals it set.                  *)

EntryOf(t, s) == t.entries[s[2] + 1]
Live(t, s) == s[1] = t.land /\ s[2] < Len(t.entries)

InitTable(t) ==
  /\ type = [s \in Slot |->
               IF Live(t, s) THEN EntryOf(t, s).type
               ELSE IF s[1] = t.land /\ s[2] < t.capacity THEN "EMPTY"
               ELSE "GARBAGE"]
  /\ base = [s \in Slot |-> IF Live(t, s) THEN EntryOf(t, s).base ELSE 0]
  /\ length = [s \in Slot |-> IF Live(t, s) THEN EntryOf(t, s).length ELSE 0]
  /\ prev = [s \in Slot |-> IF Live(t, s) /\ s[2] > 0
                              THEN <<t.land, s[2] - 1>> ELSE NULL]
  /\ next = [s \in Slot |-> IF Live(t, s) /\ s[2] + 1 < Len(t.entries)
                              THEN <<t.land, s[2] + 1>> ELSE NULL]
  /\ parent = [s \in Slot |-> 0]
  /\ owner = [s \in Slot |-> 0]
  /\ firstPmmEntry = <<t.land, 0>>
  /\ lastPmmEntry = <<t.land, Len(t.entries) - 1>>
  /\ rentry = [r \in Resv |-> IF r = 0 THEN <<t.land, t.meta - 1>> ELSE NULL]
  /\ numEntries = [r \in Resv |-> IF r = 0 THEN Len(t.entries) ELSE 0]
  /\ capacity = [r \in Resv |-> IF r = 0 THEN t.capacity ELSE 0]

Init ==
  /\ \E t \in Tables : InitTable(t)
  /\ resvNext = 0
  /\ resvs = 0
  /\ pc = "idle"
  /\ cur = NULL
  /\ caller = [fn |-> "none", len |-> 0]
  /\ pending = <<>>
  /\ held = {}
  /\ heapPages = {}

-----------------------------------------------------------------------------
(* The searches.                                                           *)

\* Bound: entries share no page, so that a list of them ends within NumPages
\* steps, or one more from a slot that is no longer one (a walk on a cycle stops).
MaxWalk == NumPages + 1

After(q) == IF q = NULL THEN NULL ELSE next[q]

\* The slots a walk along next visits from p on.
WalkFrom(p) ==
  LET upTo[k \in 0..MaxWalk] ==
        IF k = 0 THEN {p}
        ELSE LET S == upTo[k - 1] IN S \cup {After(q) : q \in S}
  IN upTo[MaxWalk] \ {NULL}

Listed == WalkFrom(firstPmmEntry)

FreeListed == {s \in Slot : s \in Listed /\ type[s] = "FREE"}

\* pmm_alloc takes the shortest free entry that is long enough, the first of
\* equals (module PmmSearch compares the loops of the code with this).
BestFit(b, n) ==
  /\ b \in FreeListed
  /\ length[b] >= n
  /\ \A c \in FreeListed : length[c] >= n =>
       \/ length[b] < length[c]
       \/ length[b] = length[c] /\ c \in WalkFrom(b)

Fits(n) == \E b \in FreeListed : length[b] >= n

\* pmm_allocMost settles for the longest when none is long enough.
MostFit(b, n) ==
  IF Fits(n) THEN BestFit(b, n)
  ELSE /\ b \in FreeListed
       /\ \A c \in FreeListed :
            \/ length[b] > length[c]
            \/ length[b] = length[c] /\ c \in WalkFrom(b)

FitAt(b, a, n) == b \in FreeListed /\ base[b] = a /\ length[b] >= n

-----------------------------------------------------------------------------
(* pmm_split                                                               *)

\* The reservations a walk from firstPmmResv visits.
Chain == {0, resvNext}

TableSlots(r) == {base[rentry[r]]} \X (0..(capacity[r] - 1))

\* A reservation whose entry is not set yet but which seems to have room.
WildRead == \E r \in Chain : numEntries[r] < capacity[r] /\ rentry[r] = NULL

EmptySlots(r) == {s \in Slot : s \in TableSlots(r) /\ type[s] = "EMPTY"}

FirstEmpty(r) == {s \in EmptySlots(r) : \A t \in EmptySlots(r) : s[2] <= t[2]}

\* The loop does not stop at the first slot it finds: every reservation with
\* room counts one entry more, and the slot used is that of the last one.
Taking == {r \in Chain : numEntries[r] < capacity[r] /\ EmptySlots(r) # {}}

TakesFrom(r) == r \in Taking /\ (resvNext \in Taking => r = resvNext)

\* doAddResv: some table now has room for at most one entry more.
NearlyFull == \E r \in Taking : numEntries[r] + 1 >= capacity[r] - 1

\* A mutated test: the table is extended only when it is full.
FullOnly == \E r \in Taking : numEntries[r] + 1 > capacity[r]

ResvToAdd == NearlyFull

\* Mutated: the remainder keeps the length of the whole block.
LengthsUncut(b, s, n) == [length EXCEPT ![s] = length[b], ![b] = n]

\* Mutated: the subtraction is the wrong way round.
LengthsSwapped(b, s, n) == [length EXCEPT ![s] = n - length[b], ![b] = n]

LengthsAfterSplit(b, s, n) == [length EXCEPT ![s] = length[b] - n, ![b] = n]

\* Mutated: the entry after the new one keeps pointing at the split block.
PrevAfterSplitStale(b, s) == [prev EXCEPT ![s] = b]

PrevAfterSplit(b, s) ==
  [p \in Slot |-> IF p = s THEN b
                  ELSE IF p = next[b] THEN s ELSE prev[p]]

\* Mutated: the new entry does not take over what followed the block.
NextAfterSplitCut(b, s) == [next EXCEPT ![s] = NULL, ![b] = s]

NextAfterSplit(b, s) == [next EXCEPT ![s] = next[b], ![b] = s]

\* Mutated: the block is returned without being marked as used.
SplitWholeUnmarked(b) ==
  /\ pc' = "return"
  /\ cur' = b
  /\ UNCHANGED <<type, base, length, parent, owner, links, resvars, pending,
                 client>>

SplitWhole(b) ==
  /\ type' = [type EXCEPT ![b] = "USED"]
  /\ pc' = "return"
  /\ cur' = b
  /\ UNCHANGED <<base, length, parent, owner, links, resvars, pending, client>>

SplitInto(b, n, t, r, s) ==
  /\ parent' = [p \in Slot |->
                  IF p = s THEN r
                  ELSE IF 0 \in Taking /\ p \in FirstEmpty(0) THEN 0
                  ELSE parent[p]]
  /\ numEntries' = [q \in Resv |->
                      IF q \in Taking THEN numEntries[q] + 1 ELSE numEntries[q]]
  /\ base' = [base EXCEPT ![s] = base[b] + n]
  /\ length' = LengthsAfterSplit(b, s, n)
  /\ prev' = PrevAfterSplit(b, s)
  /\ next' = NextAfterSplit(b, s)
  /\ lastPmmEntry' = IF next[b] = NULL THEN s ELSE lastPmmEntry
  /\ owner' = [owner EXCEPT ![s] = 0]
  /\ type' = [type EXCEPT ![s] = "FREE", ![b] = IF ResvToAdd THEN t ELSE "USED"]
  /\ pc' = IF ResvToAdd THEN "addResv" ELSE "return"
  /\ cur' = b
  /\ UNCHANGED <<firstPmmEntry, rentry, capacity, resvNext, resvs, pending, client>>

Halt(how) ==
  /\ pc' = how
  /\ UNCHANGED <<type, base, length, parent, owner, links, resvars, cur,
                 pending, client>>

\* t is the type the block has while the split runs.
pmm_split(b, n, t) ==
  IF length[b] <= n THEN SplitWhole(b)
  ELSE \/ WildRead /\ Halt("fault")
       \/ ~WildRead /\ Taking = {} /\ Halt("panic")
       \/ /\ ~WildRead
          /\ \E r \in Chain, s \in Slot :
               TakesFrom(r) /\ s \in FirstEmpty(r) /\ SplitInto(b, n, t, r, s)

-----------------------------------------------------------------------------
(* Extending the table: the end of pmm_split.                              *)

HeapUp == heapPages # {}

\* kalloc of the reservation (from free heap space) and the stores before the
\* nested call.  Its numEntries and capacity are whatever the heap held.
AddResv ==
  /\ pc = "addResv"
  /\ HeapUp
  /\ resvs < MaxResv
  /\ resvs' = resvs + 1
  /\ resvNext' = resvs + 1
  /\ \E c \in {0, EntriesPerBlock} : capacity' = [capacity EXCEPT ![resvs + 1] = c]
  /\ pending' = Append(pending, [block |-> cur, resv |-> resvs + 1])
  /\ pc' = "fillResv"
  /\ UNCHANGED <<type, base, length, parent, owner, links, rentry, numEntries,
                 cur, caller, client>>

\* Before initKernelHeap is done kalloc reads through a NULL descriptor.
AddResvTooEarly ==
  /\ pc = "addResv"
  /\ ~HeapUp
  /\ UNCHANGED caller
  /\ Halt("fault")

\* The nested pmm_allocMost(1).
FillResv ==
  /\ pc = "fillResv"
  /\ UNCHANGED caller
  /\ IF Fits(1) THEN \E b \in FreeListed : MostFit(b, 1) /\ pmm_split(b, 1, "FREE")
     ELSE Halt("fault")

TablePages ==
  UNION {PagesOf(base[rentry[r]], length[rentry[r]]) :
         r \in {q \in Resv : rentry[q] # NULL}}

\* The bytes of a page that never was a table: any of them may look EMPTY when
\* they are read as slots, none of them was written.
FreshSlots(p) ==
  {s \in Slot : s \in {p} \X (0..(EntriesPerBlock - 1)) /\ type[s] = "GARBAGE"}

\* The nested call returns cur and the waiting pmm_split ends.
ReturnToSplit ==
  /\ pc = "return"
  /\ pending # <<>>
  /\ base[cur] \in TableArea
  /\ LET f == pending[Len(pending)] IN
     /\ \E look \in SUBSET FreshSlots(base[cur]) :
          type' = [s \in Slot |->
                     IF s = f.block THEN "USED"
                     ELSE IF s = cur THEN "META"
                     ELSE IF s \in look THEN "EMPTY" ELSE type[s]]
     /\ rentry' = [rentry EXCEPT ![f.resv] = cur]
     /\ numEntries' = [numEntries EXCEPT ![f.resv] = 0]
     /\ capacity' = [capacity EXCEPT ![f.resv] = EntriesPerBlock]
     /\ cur' = f.block
     /\ pending' = SubSeq(pending, 1, Len(pending) - 1)
  /\ UNCHANGED <<base, length, parent, owner, links, resvNext, resvs, pc, caller,
                 client>>

-----------------------------------------------------------------------------
(* Returning to the kernel.                                                *)

ReturnToKernel ==
  /\ pc = "return"
  /\ pending = <<>>
  /\ caller.fn \in {"pmm_alloc", "pmm_allocMost"}
  /\ held' = held \cup
       {[entry |-> cur, base |-> base[cur],
         len |-> IF caller.fn = "pmm_alloc" THEN caller.len ELSE length[cur]]}
  /\ pc' = "idle"
  /\ cur' = NULL
  /\ caller' = [fn |-> "none", len |-> 0]
  /\ UNCHANGED <<type, base, length, parent, owner, links, resvars, pending,
                 heapPages>>

\* initKernelHeap and heapExpand take ownership; heapExpand merges as well.
ReturnToHeap ==
  /\ pc = "return"
  /\ pending = <<>>
  /\ caller.fn \in {"initKernelHeap", "heapExpand"}
  /\ owner' = [owner EXCEPT ![cur] = HEAP]
  /\ heapPages' = heapPages \cup PagesOf(base[cur], length[cur])
  /\ IF caller.fn = "heapExpand"
       THEN pc' = "mergeNext" /\ UNCHANGED <<cur, caller>>
       ELSE pc' = "idle" /\ cur' = NULL /\ caller' = [fn |-> "none", len |-> 0]
  /\ UNCHANGED <<type, base, length, parent, links, resvars, pending, held>>

-----------------------------------------------------------------------------
(* pmm_mergeNext and pmm_mergePrev, one iteration of their loops a step.   *)

\* Mutated: blocks of the same type merge, whoever has them.
AlikeInType(a, b) == type[a] = type[b]

\* Mutated: only blocks of one owner merge.
AlikeInOwner(a, b) == owner[a] # 0 /\ owner[a] = owner[b]

\* Both free, or both of one owner.
Alike(a, b) ==
  \/ type[a] = "FREE" /\ type[b] = "FREE"
  \/ owner[a] # 0 /\ owner[a] = owner[b]

\* Mutated: neighbours in the list merge whether or not their pages touch.
AdjoinsInList(a, b) == TRUE

Adjoins(a, b) == base[a] + length[a] = base[b]

AbsorbsNext == next[cur] # NULL /\ Adjoins(cur, next[cur]) /\ Alike(next[cur], cur)
AbsorbsPrev == prev[cur] # NULL /\ Adjoins(prev[cur], cur) /\ Alike(prev[cur], cur)

\* Mutated: the table keeps counting the entry.
DropUncounted(e) ==
  /\ type' = [type EXCEPT ![e] = "EMPTY"]
  /\ UNCHANGED numEntries

\* What both loops do to the entry they absorb.
Drop(e) ==
  /\ type' = [type EXCEPT ![e] = "EMPTY"]
  /\ numEntries' = [numEntries EXCEPT ![parent[e]] = @ - 1]

PrevAfterMerge(b, e) ==
  [p \in Slot |-> IF p = next[e] THEN b ELSE prev[p]]

MergeNext ==
  /\ pc = "mergeNext"
  /\ IF AbsorbsNext
       THEN LET e == next[cur] IN
            /\ length' = [length EXCEPT ![cur] = @ + length[e]]
            /\ next' = [next EXCEPT ![cur] = next[e]]
            /\ prev' = PrevAfterMerge(cur, e)
            /\ Drop(e)
            /\ UNCHANGED pc
       ELSE pc' = "mergePrev" /\ UNCHANGED <<type, length, prev, next, numEntries>>
  /\ UNCHANGED <<base, parent, owner, firstPmmEntry, lastPmmEntry, rentry, capacity,
                 resvNext, resvs, cur, caller, pending, client>>

MergePrev ==
  /\ pc = "mergePrev"
  /\ IF AbsorbsPrev
       THEN LET e == prev[cur] IN
            /\ length' = [length EXCEPT ![cur] = @ + length[e]]
            /\ base' = [base EXCEPT ![cur] = base[e]]
            /\ prev' = [prev EXCEPT ![cur] = prev[e]]
            /\ next' = [p \in Slot |-> IF p = prev[e] THEN cur ELSE next[p]]
            /\ Drop(e)
            /\ UNCHANGED <<pc, cur, caller>>
       ELSE /\ pc' = "idle"
            /\ cur' = NULL
            /\ caller' = [fn |-> "none", len |-> 0]
            /\ UNCHANGED <<type, base, length, prev, next, numEntries>>
  /\ UNCHANGED <<parent, owner, firstPmmEntry, lastPmmEntry, rentry, capacity,
                 resvNext, resvs, pending, client>>

-----------------------------------------------------------------------------
(* The calls the kernel makes.                                             *)

\* Once memory that holds a table was handed out, its new owner's writes may
\* turn the table into anything: the model stops there.
TablesOurs ==
  /\ heapPages \cap TablePages = {}
  /\ \A g \in held : PagesOf(g.base, g.len) \cap TablePages = {}

Calls(fn, n) == pc = "idle" /\ TablesOurs /\ caller' = [fn |-> fn, len |-> n]

InitKernelHeap ==
  /\ ~HeapUp
  /\ Calls("initKernelHeap", 1)
  /\ IF Fits(1) THEN \E b \in FreeListed : MostFit(b, 1) /\ pmm_split(b, 1, "FREE")
     ELSE Halt("fault")

\* A call that finds nothing returns NULL and changes nothing.
pmm_alloc(n) ==
  /\ HeapUp
  /\ Calls("pmm_alloc", n)
  /\ \E b \in FreeListed : BestFit(b, n) /\ pmm_split(b, n, "FREE")

pmm_allocMost(n) ==
  /\ HeapUp
  /\ Calls("pmm_allocMost", n)
  /\ \E b \in FreeListed : MostFit(b, n) /\ pmm_split(b, n, "FREE")

pmm_free(g) ==
  /\ Calls("pmm_free", 0)
  /\ type' = [type EXCEPT ![g.entry] = "FREE"]
  /\ held' = held \ {g}
  /\ cur' = g.entry
  /\ pc' = "mergeNext"
  /\ UNCHANGED <<base, length, parent, owner, links, resvars, pending, heapPages>>

\* heapExpand: m pages at the address a where it takes a heap section to end, or n
\* pages anywhere.  A section grows by the length of the merged entry, so a may be
\* any page; NULL stands for an address that is not on a page boundary.
HeapExpand(a, m, n) ==
  /\ HeapUp
  /\ Calls("heapExpand", n)
  /\ IF \E b \in FreeListed : FitAt(b, a, m)
       THEN \E b \in FreeListed : FitAt(b, a, m) /\ pmm_split(b, m, "USED")
     ELSE IF Fits(n)
       THEN \E b \in FreeListed : BestFit(b, n) /\ pmm_split(b, n, "FREE")
     ELSE Halt("fault")

\* Mutated: pmm_mergeNext lacks the return for a neighbour that touches but may
\* not be absorbed, and spins there.
ContinueSpins ==
  \/ AddResv \/ AddResvTooEarly \/ FillResv \/ ReturnToSplit
  \/ ReturnToKernel \/ ReturnToHeap
  \/ /\ MergeNext
     /\ next[cur] # NULL /\ Adjoins(cur, next[cur]) => AbsorbsNext
  \/ MergePrev

Continue ==
  \/ AddResv \/ AddResvTooEarly \/ FillResv \/ ReturnToSplit
  \/ ReturnToKernel \/ ReturnToHeap
  \/ MergeNext \/ MergePrev

Next ==
  \/ InitKernelHeap
  \/ \E n \in Sizes : pmm_alloc(n) \/ pmm_allocMost(n)
  \/ \E g \in held : pmm_free(g)
  \/ \E a \in Page \cup {NULL}, m, n \in Sizes : m <= n /\ HeapExpand(a, m, n)
  \/ Continue

\* A call that was made runs on: nothing else runs while interrupts are off.
Spec == Init /\ [][Next]_vars /\ WF_vars(Continue)
-----------------------------------------------------------------------------
(* Properties.                                                             *)

Entries == {s \in Slot : type[s] \in EntryType}

\* The entries of pmm_split, pmm_mergeNext and pmm_mergePrev never claim a page
\* twice, in the middle of a call as well.
EntriesDisjoint ==
  \A a, b \in Entries : a # b =>
    \/ base[a] + length[a] <= base[b]
    \/ base[b] + length[b] <= base[a]

\* The list pmm_split and the merges rewire stays a doubly linked list in the
\* order of addresses: what prev says is what next says backwards, and neither
\* leads to a slot that is not an entry.
ListSound ==
  \A s \in Entries :
    /\ next[s] # NULL =>
         /\ next[s] \in Entries
         /\ prev[next[s]] = s
         /\ base[s] + length[s] <= base[next[s]]
    /\ prev[s] # NULL => prev[s] \in Entries /\ next[prev[s]] = s

\* "All PMM entries" (memory.h) are found from firstPmmEntry: a merge or a
\* reused slot never cuts one off from the searches.
AllListed == Entries \subseteq Listed

\* Every grant of pmm_alloc and pmm_allocMost keeps the entry, the address and
\* the exact length it was given until it is freed, whatever other calls split
\* and merge; the heap keeps its pages; nobody shares a page or gets a table's.
GrantsIntact ==
  /\ \A g \in held :
       /\ type[g.entry] = "USED"
       /\ base[g.entry] = g.base
       /\ length[g.entry] = g.len
       /\ PagesOf(g.base, g.len) \cap (heapPages \cup TablePages) = {}
  /\ \A p \in heapPages : \E e \in Entries :
       type[e] = "USED" /\ owner[e] = HEAP /\ p \in PagesOf(base[e], length[e])

\* Between calls no two free neighbours are left apart: the merge loops of
\* pmm_free undo whatever fragmentation a grant caused.
FreeMerged ==
  pc = "idle" => \A a, b \in FreeListed : base[a] + length[a] # base[b]

\* The counter pmm_split trusts to find room says how many slots of the table
\* are taken, through every split and merge.
SlotsCounted ==
  resvs = 0 /\ pc \in {"idle", "addResv", "mergeNext", "mergePrev"} =>
    numEntries[0] = Cardinality(Entries)

\* Before a table is extended it still has a free slot: the split inside the
\* nested pmm_allocMost never meets "No space for PMM entry!".
SlotLeftToExtend == resvs = 0 => pc # "panic" /\ EmptySlots(0) # {}

\* "Allocates exactly len memory" (memory.h): the entry pmm_alloc returns has the
\* length that was asked for.
ExactlyLen == \A g \in held : length[g.entry] = g.len

\* "PMM entries reserved to... do PMM" (memory.h): the pages of the tables stay
\* reserved, so nobody else is given one.
TablesReserved == pending = <<>> => TablesOurs

Covered == UNION {PagesOf(base[e], length[e]) : e \in Entries}

\* No call loses a page or makes one up: the entries always tile the memory
\* setupMemoryMap gave them.
PagesConserved == [][Covered' = Covered]_vars

\* Every call comes back (or stops the machine): the merge loops and the
\* nested calls of pmm_split end.
CallsReturn ==
  pc # "idle" ~> \/ pc \in {"idle", "panic", "fault"}
                 \/ pc = "addResv" /\ resvs = MaxResv
=============================================================================
