-------------------------------- MODULE Heap --------------------------------
(***************************************************************************)
(* The kernel heap (heap.c): a doubly linked list of descriptors, each     *)
(* followed by its block, in pages taken from the physical memory manager. *)
(*                                                                         *)
(* A descriptor is named by its address; the fields of struct heap_desc    *)
(* are functions of the address, so that memory keeps what was last        *)
(* written when a descriptor is no longer one.  flags is the one bit that  *)
(* is tested, HEAP_IS_USED.  Address 0 is NULL; the code reads and writes  *)
(* through it in heapExpand, and its bytes are memory like others.  The    *)
(* kernel is single threaded: pc says how far the running call is.         *)
(***************************************************************************)
EXTENDS Integers, FiniteSets

CONSTANTS
  NumPages,     \* pages of memory
  PageSize,     \* also HEAP_ALLOCATION_INCREMENT
  DescSize,     \* sizeof(struct heap_desc)
  MinSect,      \* MIN_HEAP_SECT_SIZE
  Loads         \* [runs, low, sizes]: the free runs [base, len] of pages the memory
                \* manager has, what the bytes at NULL->length hold, and the sizes
                \* the kernel then asks for

NULL == 0
Addr == 0..(NumPages * PageSize - 1)

ASSUME HeapAssumption ==
  /\ NumPages \in Nat \ {0}
  /\ DescSize \in Nat \ {0}
  /\ PageSize \in Nat /\ PageSize > DescSize
  /\ MinSect \in Nat /\ MinSect > DescSize
  /\ \A l \in Loads :
       /\ l.sizes \subseteq Nat \ {0}
       /\ l.low \in Nat
       /\ l.runs \subseteq [base : Nat \ {0}, len : Nat \ {0}]
       /\ \A r \in l.runs : r.base + r.len <= NumPages
       /\ \A q, r \in l.runs :
            q = r \/ q.base + q.len <= r.base \/ r.base + r.len <= q.base

VARIABLES
  \* struct heap_desc
  magic, prev, next, used, length,
  firstHeapDesc, lastHeapDesc,
  \* the memory manager, as far as the heap sees it: sets of [base, len]
  freeRuns,     \* its FREE entries
  heapRuns,     \* its entries with HEAP_MEMORY_OWNER
  \* the running call
  pc,
  cur,          \* the descriptor it is working on
  req,          \* [size, old]: what kalloc was asked for; old is krealloc's ptr
  live,         \* the blocks the kernel holds: [at, size]
  sizes,        \* what the kernel asks for, see Loads
  damaged       \* history: an expansion has met older pages of the heap, or has
                \* linked its section from a descriptor that is not the last

desc == <<magic, prev, next, used, length, firstHeapDesc, lastHeapDesc>>
pages == <<freeRuns, heapRuns, damaged, sizes>>
vars == <<desc, pages, pc, cur, req, live>>

NoReq == [size |-> 0, old |-> NULL]

TypeOK ==
  /\ magic \in [Addr -> BOOLEAN]
  /\ prev \in [Addr -> Addr]
  /\ next \in [Addr -> Addr]
  /\ used \in [Addr -> BOOLEAN]
  /\ length \in [Addr -> Nat]
  /\ firstHeapDesc \in Addr
  /\ lastHeapDesc \in Addr
  /\ freeRuns \subseteq [base : Nat, len : Nat \ {0}]
  /\ heapRuns \subseteq [base : Nat, len : Nat]
  /\ pc \in {"boot", "idle", "search", "place", "copied", "mergePrev", "mergeNext",
             "fault", "hang"}
  /\ cur \in Addr
  /\ req \in [size : Nat, old : Addr]
  /\ live \subseteq [at : Addr, size : Nat \ {0}]
  /\ sizes \subseteq Nat \ {0}
  /\ damaged \in BOOLEAN

DescOf(p) == p - DescSize
PayloadOf(d) == d + DescSize
End(d) == d + DescSize + length[d]

Payload(b) == b.at..(b.at + b.size - 1)
InPayload(a) == \E b \in live : a \in Payload(b)

Init ==
  /\ magic = [a \in Addr |-> FALSE]
  /\ prev = [a \in Addr |-> NULL]
  /\ next = [a \in Addr |-> NULL]
  /\ used = [a \in Addr |-> FALSE]
  /\ firstHeapDesc = NULL
  /\ lastHeapDesc = NULL
  /\ \E l \in Loads :
       /\ freeRuns = l.runs
       /\ length = [a \in Addr |-> IF a = NULL THEN l.low ELSE 0]
       /\ sizes = l.sizes
  /\ heapRuns = {}
  /\ pc = "boot"
  /\ cur = NULL
  /\ req = NoReq
  /\ live = {}
  /\ damaged = FALSE

-----------------------------------------------------------------------------
(* What the heap asks of the memory manager (module Pmm has all of it).    *)

Pages(n) == (n + PageSize - 1) \div PageSize

\* pmm_alloc: the shortest run that is long enough, the first of equals.
AllocRun(r, n) ==
  /\ r \in freeRuns
  /\ r.len >= n
  /\ \A q \in freeRuns : q.len >= n =>
       r.len < q.len \/ (r.len = q.len /\ r.base <= q.base)

\* pmm_split leaves what the caller did not ask for.
CutRun(r, n) ==
  (freeRuns \ {r}) \cup
    (IF r.len > n THEN {[base |-> r.base + n, len |-> r.len - n]} ELSE {})

\* pmm_merge: the heap's pages before and after join the entry.
Touching(b, n) == {q \in heapRuns : q.base + q.len = b \/ q.base = b + n}

Merged(b, n) ==
  LET before == {q \in heapRuns : q.base + q.len = b}
      after  == {q \in heapRuns : q.base = b + n}
      lo == IF before = {} THEN b ELSE (CHOOSE q \in before : TRUE).base
      hi == IF after = {} THEN b + n
            ELSE LET q == CHOOSE p \in after : TRUE IN q.base + q.len
  IN [base |-> lo, len |-> hi - lo]

GiveToHeap(r, n) ==
  /\ freeRuns' = CutRun(r, n)
  /\ heapRuns' = (heapRuns \ Touching(r.base, n)) \cup {Merged(r.base, n)}
  /\ UNCHANGED sizes

-----------------------------------------------------------------------------
(* initKernelHeap: flags of the first descriptor is never written.         *)

InitKernelHeap ==
  /\ pc = "boot"
  /\ \E r \in freeRuns, flag \in BOOLEAN :
       LET d == r.base * PageSize IN
       /\ AllocRun(r, 1)
       /\ GiveToHeap(r, 1)
       /\ UNCHANGED damaged
       /\ firstHeapDesc' = d
       /\ lastHeapDesc' = d
       /\ magic' = [magic EXCEPT ![d] = TRUE]
       /\ prev' = [prev EXCEPT ![d] = NULL]
       /\ next' = [next EXCEPT ![d] = NULL]
       /\ used' = [used EXCEPT ![d] = flag]
       /\ length' = [length EXCEPT ![d] = PageSize - DescSize]
  /\ pc' = "idle"
  /\ UNCHANGED <<cur, req, live>>

-----------------------------------------------------------------------------
(* kalloc                                                                  *)

\* The descriptors a walk along next visits from d on.
WalkFrom(d) ==
  LET walk[k \in 0..Cardinality(Addr)] ==
        [a \in Addr |->
           IF a = NULL \/ k = 0 THEN {} ELSE {a} \cup walk[k - 1][next[a]]]
  IN walk[Cardinality(Addr)][d]

Listed == WalkFrom(firstHeapDesc)
WalkEnds == \E d \in Listed : next[d] = NULL
Unused == {d \in Listed : ~used[d]}

\* The one of the descriptors in S that the walk meets first.
IsFirst(d, S) == d \in S /\ S \subseteq WalkFrom(d)

Exact(n) == {d \in Unused : length[d] = n}
Enough(n) == {d \in Unused : length[d] >= n}
Shortest(n) == {d \in Enough(n) : \A e \in Enough(n) : length[d] <= length[e]}
Longest == {d \in Unused : length[d] > 0 /\ \A e \in Unused : length[d] >= length[e]}

Biggest(d) == IsFirst(d, Longest) \/ (Longest = {} /\ d = NULL)

Request(n, old) ==
  /\ req' = [size |-> n, old |-> old]
  /\ pc' = "search"
  /\ UNCHANGED <<desc, pages, cur, live>>

Kalloc(n) == pc = "idle" /\ Request(n, NULL)

\* The block of d goes to the caller; krealloc goes on with its copy.
Return(d) ==
  /\ live' = live \cup {[at |-> PayloadOf(d), size |-> req.size]}
  /\ cur' = NULL
  /\ IF req.old = NULL THEN pc' = "idle" /\ req' = NoReq
     ELSE pc' = "copied" /\ UNCHANGED req

TakeExact ==
  /\ pc = "search"
  /\ \E d \in Addr :
       /\ IsFirst(d, Exact(req.size))
       /\ used' = [used EXCEPT ![d] = TRUE]
       /\ Return(d)
  /\ UNCHANGED <<magic, prev, next, length, firstHeapDesc, lastHeapDesc, pages>>

TakeBest ==
  /\ pc = "search"
  /\ Exact(req.size) = {} /\ WalkEnds
  /\ \E d \in Addr : IsFirst(d, Shortest(req.size)) /\ cur' = d
  /\ pc' = "place"
  /\ UNCHANGED <<desc, pages, req, live>>

\* The list leads into a circle: kalloc's loop never ends.
SearchHangs ==
  /\ pc = "search"
  /\ Exact(req.size) = {} /\ ~WalkEnds
  /\ pc' = "hang"
  /\ UNCHANGED <<desc, pages, cur, req, live>>

NothingFits == pc = "search" /\ WalkEnds /\ Enough(req.size) = {}

\* heapExpand asks for at least one increment.
Wanted(n) == IF n + DescSize < PageSize THEN PageSize ELSE n + DescSize

\* Runs that begin where the biggest block ends and are long enough; a
\* difference below 0 wraps and nothing is that long.
RunsAfter(d) ==
  {r \in freeRuns :
     /\ r.base * PageSize = End(d)
     /\ length[d] <= Wanted(req.size)
     /\ r.len >= Pages(Wanted(req.size) - length[d])}

\* biggest->length grows by the length of the merged entry.
Grown(d, b, n) == length[d] + Merged(b, n).len * PageSize

\* heapExpand, the pages after the biggest block are free.  For NULL, which is as
\* long as the bytes there say, it may be no page at all that is asked for.
ExpandAt ==
  /\ NothingFits
  /\ \E d \in Addr : Biggest(d) /\ \E r \in RunsAfter(d) :
       LET n == Pages(Wanted(req.size) - length[d]) IN
       /\ GiveToHeap(r, n)
       /\ damaged' = (damaged \/ Touching(r.base, n) # {})
       /\ length' = [length EXCEPT ![d] = Grown(d, r.base, n)]
       /\ cur' = d
       /\ IF d # NULL THEN pc' = "place" /\ UNCHANGED req
          ELSE IF req.old # NULL THEN pc' = "copied" /\ UNCHANGED req
          ELSE pc' = "idle" /\ req' = NoReq
  /\ UNCHANGED <<magic, prev, next, used, firstHeapDesc, lastHeapDesc, live>>

\* heapExpand, a new section somewhere else.
ExpandNew ==
  /\ NothingFits
  /\ \E d \in Addr : Biggest(d) /\ RunsAfter(d) = {}
  /\ \E r \in freeRuns :
       LET n == Pages(Wanted(req.size))
           m == Merged(r.base, n)
           a == m.base * PageSize
       IN /\ AllocRun(r, n)
          /\ GiveToHeap(r, n)
          /\ damaged' = (damaged \/ Touching(r.base, n) # {} \/ next[lastHeapDesc] # NULL)
          /\ magic' = [magic EXCEPT ![a] = TRUE]
          /\ prev' = [prev EXCEPT ![a] = lastHeapDesc]
          /\ next' = [next EXCEPT ![a] = NULL, ![lastHeapDesc] = a]
          /\ used' = [used EXCEPT ![a] = FALSE]
          /\ length' = [length EXCEPT ![a] = m.len * PageSize - DescSize]
          /\ lastHeapDesc' = a
          /\ cur' = a
  /\ pc' = "place"
  /\ UNCHANGED <<firstHeapDesc, req, live>>

\* pmm_alloc finds nothing either and heapExpand writes through NULL.
ExpandFails ==
  /\ NothingFits
  /\ \E d \in Addr : Biggest(d) /\ RunsAfter(d) = {}
  /\ \A r \in freeRuns : r.len < Pages(Wanted(req.size))
  /\ pc' = "fault"
  /\ UNCHANGED <<desc, pages, cur, req, live>>

Splits(d, n) == length[d] >= n + MinSect

\* Mutated: the remainder keeps the bytes of its own descriptor.
RestUncut(d, n) == length[d] - n

Rest(d, n) == length[d] - n - DescSize

\* Mutated: linked from its predecessor first, which is then read again.
SplitOffCircular(d, s, n) ==
  /\ magic' = [magic EXCEPT ![s] = TRUE]
  /\ prev' = [prev EXCEPT ![s] = d]
  /\ next' = [next EXCEPT ![s] = s, ![d] = s]
  /\ used' = [used EXCEPT ![s] = FALSE, ![d] = TRUE]
  /\ length' = [length EXCEPT ![s] = Rest(d, n), ![d] = n]

\* What block d has too much becomes the block of a descriptor at s; prev of
\* the descriptor after it and lastHeapDesc stay what they are.
SplitOff(d, s, n) ==
  /\ magic' = [magic EXCEPT ![s] = TRUE]
  /\ prev' = [prev EXCEPT ![s] = d]
  /\ next' = [next EXCEPT ![s] = next[d], ![d] = s]
  /\ used' = [used EXCEPT ![s] = FALSE, ![d] = TRUE]
  /\ length' = [length EXCEPT ![s] = Rest(d, n), ![d] = n]

\* The end of kalloc.
Place ==
  /\ pc = "place"
  /\ IF Splits(cur, req.size)
       THEN SplitOff(cur, PayloadOf(cur) + req.size, req.size)
       ELSE /\ used' = [used EXCEPT ![cur] = TRUE]
            /\ UNCHANGED <<magic, prev, next, length>>
  /\ Return(cur)
  /\ UNCHANGED <<firstHeapDesc, lastHeapDesc, pages>>

-----------------------------------------------------------------------------
(* kfree and krealloc                                                      *)

Holder(p) == {b \in live : b.at = p}

\* Mutated: the descriptor stays marked as used.
FreeKeepsFlag(p) ==
  /\ live' = live \ Holder(p)
  /\ req' = NoReq
  /\ IF magic[DescOf(p)] /\ used[DescOf(p)]
       THEN cur' = DescOf(p) /\ pc' = "mergePrev" /\ UNCHANGED used
       ELSE cur' = NULL /\ pc' = "idle" /\ UNCHANGED used
  /\ UNCHANGED <<magic, prev, next, length, firstHeapDesc, lastHeapDesc, pages>>

\* kfree up to its merges; a pointer without a used descriptor is refused.
Free(p) ==
  /\ live' = live \ Holder(p)
  /\ req' = NoReq
  /\ IF magic[DescOf(p)] /\ used[DescOf(p)]
       THEN /\ used' = [used EXCEPT ![DescOf(p)] = FALSE]
            /\ cur' = DescOf(p)
            /\ pc' = "mergePrev"
       ELSE cur' = NULL /\ pc' = "idle" /\ UNCHANGED used
  /\ UNCHANGED <<magic, prev, next, length, firstHeapDesc, lastHeapDesc, pages>>

Kfree(b) == pc = "idle" /\ Free(b.at)

\* A block that is large enough is kept; one without a descriptor is not copied.
Krealloc(b, n) ==
  /\ pc = "idle"
  /\ IF ~magic[DescOf(b.at)] THEN Request(n, NULL)
     ELSE IF length[DescOf(b.at)] < n THEN Request(n, b.at)
     ELSE /\ live' = (live \ {b}) \cup {[b EXCEPT !.size = n]}
          /\ UNCHANGED <<desc, pages, pc, cur, req>>

\* krealloc has copied the old block and frees it.
FreeOld == pc = "copied" /\ Free(req.old)

\* Mutated: neighbours in the list merge whether or not they touch.
JoinsInList(a, b) == ~used[a] /\ ~used[b]

Joins(a, b) == ~used[a] /\ ~used[b] /\ End(a) = b

\* Mutated: the end of the list is taken to be the descriptor that is gone.
LinksAfterEnd(b, d) ==
  /\ next' = [next EXCEPT ![b] = next[d]]
  /\ IF next[d] # NULL
       THEN prev' = [prev EXCEPT ![next[d]] = b] /\ UNCHANGED lastHeapDesc
       ELSE lastHeapDesc' = d /\ UNCHANGED prev

\* b takes over what followed d in the list.
LinksAfter(b, d) ==
  /\ next' = [next EXCEPT ![b] = next[d]]
  /\ IF next[d] # NULL
       THEN prev' = [prev EXCEPT ![next[d]] = b] /\ UNCHANGED lastHeapDesc
       ELSE lastHeapDesc' = b /\ UNCHANGED prev

Absorb(b, d) ==
  /\ length' = [length EXCEPT ![b] = @ + DescSize + length[d]]
  /\ magic' = [magic EXCEPT ![d] = FALSE]
  /\ LinksAfter(b, d)
  /\ UNCHANGED <<used, firstHeapDesc>>

\* prev may be stale and lead into a block that was handed out; its bytes are
\* taken not to look like a free block that ends here.
JoinsPrev ==
  /\ prev[cur] # NULL
  /\ ~InPayload(prev[cur])
  /\ Joins(prev[cur], cur)

MergePrev ==
  /\ pc = "mergePrev"
  /\ pc' = "mergeNext"
  /\ IF JoinsPrev THEN Absorb(prev[cur], cur) /\ cur' = prev[cur]
     ELSE UNCHANGED <<desc, cur>>
  /\ UNCHANGED <<pages, req, live>>

MergeNext ==
  /\ pc = "mergeNext"
  /\ pc' = "idle"
  /\ cur' = NULL
  /\ IF next[cur] # NULL /\ Joins(cur, next[cur]) THEN Absorb(cur, next[cur])
     ELSE UNCHANGED desc
  /\ UNCHANGED <<pages, req, live>>

-----------------------------------------------------------------------------
Continue ==
  \/ TakeExact \/ TakeBest \/ SearchHangs
  \/ ExpandAt \/ ExpandNew \/ ExpandFails
  \/ Place
  \/ FreeOld \/ MergePrev \/ MergeNext

Next ==
  \/ InitKernelHeap
  \/ \E n \in sizes : Kalloc(n)
  \/ \E b \in live : Kfree(b) \/ \E n \in sizes : Krealloc(b, n)
  \/ Continue

\* A call that was made runs on: nothing else runs next to it.
Spec == Init /\ [][Next]_vars /\ WF_vars(Continue)
-----------------------------------------------------------------------------
(* Properties.  An expansion that meets older pages of the heap works with *)
(* the entry pmm_merge made of both; one that finds lastHeapDesc stale cuts *)
(* the list or writes where no descriptor is any more.  Both damage the    *)
(* heap (README).                                                          *)

Section(r) == (r.base * PageSize)..((r.base + r.len) * PageSize - 1)
SectionStarts == {r.base * PageSize : r \in heapRuns}
SectionEnds == {(r.base + r.len) * PageSize : r \in heapRuns}

\* The splits of kalloc and the merges of kfree keep the blocks of the list
\* side by side, from the first byte of a section to its last; pages that were
\* put after NULL are no part of the list.  kalloc leaves prev of the block after
\* a split stale; when kfree merges backwards all the same, it is into the block
\* the list has before this one.
BlocksTile ==
  ~damaged =>
    /\ \A r \in heapRuns :
         Section(r) \cap Listed # {} => r.base * PageSize \in Listed
    /\ \A d \in Listed : End(d) \in Listed \cup SectionEnds
    /\ pc = "mergePrev" /\ JoinsPrev =>
         prev[cur] \in Listed /\ next[prev[cur]] = cur

\* The blocks kalloc and krealloc gave out have descriptors of their own that
\* are marked and long enough, in heap pages, and no block reaches into another.
GrantsApart ==
  ~damaged =>
    /\ \A b \in live : LET d == DescOf(b.at) IN
         /\ magic[d] /\ used[d] /\ length[d] >= b.size
         /\ \E r \in heapRuns :
              r.base * PageSize <= d /\ End(d) <= (r.base + r.len) * PageSize
    /\ \A b, c \in live : b # c =>
         End(DescOf(b.at)) <= DescOf(c.at) \/ End(DescOf(c.at)) <= DescOf(b.at)

\* Nothing but the descriptors of the blocks handed out looks like one in use, so
\* a second kfree of the same pointer is refused, even in a damaged heap; the one
\* exception is the first descriptor, whose flags initKernelHeap leaves to chance.
OnlyLiveFreeable ==
  \A d \in Addr : magic[d] /\ used[d] =>
    Holder(PayloadOf(d)) # {} \/ d = firstHeapDesc

BytesKept ==
  \A b \in live \cap live' : \A a \in Payload(b) :
    /\ magic'[a] = magic[a] /\ used'[a] = used[a]
    /\ length'[a] = length[a]
    /\ prev'[a] = prev[a] /\ next'[a] = next[a]

\* The heap's own stores (descriptors made, linked and merged) never hit a byte
\* of a block that somebody holds.
NoScribble == [][~damaged' => BytesKept]_vars

\* The block kalloc settles on is not one it has handed out before.
FreshGrants == pc = "place" => Holder(PayloadOf(cur)) = {}

Blocks == INSTANCE BlockAllocator WITH
  space  <- UNION {Section(r) : r \in heapRuns},
  blocks <- live

\* The heap implements a BlockAllocator, with sections that grow it as well.
AllocatorSpec == Blocks!Init /\ [][~damaged' => Blocks!Next]_<<heapRuns, live>>

\* Every call of kalloc, krealloc and kfree comes back or stops the machine: the
\* list of a heap that is not damaged is no circle.
CallsReturn == pc \notin {"boot", "idle"} ~> pc \in {"idle", "fault"} \/ damaged
=============================================================================
