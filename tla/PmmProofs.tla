------------------------------ MODULE PmmProofs ------------------------------
(***************************************************************************)
(* Proofs about Pmm, for any memory, any tables and any request sizes.     *)
(***************************************************************************)
EXTENDS PmmInv, PmmSearch, PmmAllocator, FiniteSetTheorems, SequenceTheorems,
        Induction, TLAPS

-----------------------------------------------------------------------------
(* Type correctness.                                                       *)

LEMMA SlotParts ==
  ASSUME NEW s \in Slot
  PROVE  s[1] \in TableArea /\ s[2] \in 0..(MaxCapacity - 1)
BY DEF Slot

LEMMA TableFacts ==
  ASSUME NEW t \in Tables
  PROVE  /\ t.land \in TableArea
         /\ t.capacity \in 1..MaxCapacity
         /\ Len(t.entries) \in 1..t.capacity
         /\ Len(t.entries) <= MaxCapacity
         /\ t.meta \in 1..Len(t.entries)
         /\ \A i \in 1..Len(t.entries) :
              /\ t.entries[i].type \in EntryType
              /\ t.entries[i].base \in Nat
              /\ t.entries[i].length \in Nat \ {0}
         /\ \A i, j \in 1..Len(t.entries) : i < j =>
              t.entries[i].base + t.entries[i].length <= t.entries[j].base
<1> DEFINE R == [base : Nat, length : Nat \ {0}, type : EntryType]
<1>1. IsTable(t)
    BY PmmAssumption
<1>2. t.entries \in Seq(R)
    BY <1>1 DEF IsTable
<1>3. DOMAIN t.entries = 1..Len(t.entries)
    BY <1>2, LenProperties
<1>4. ASSUME NEW i \in 1..Len(t.entries)
      PROVE  t.entries[i] \in R
    BY <1>2, ElementOfSeq
<1>5. Len(t.entries) <= MaxCapacity
    BY <1>1, PmmAssumption DEF IsTable
<1>6. ASSUME NEW i \in 1..Len(t.entries)
      PROVE  /\ t.entries[i].type \in EntryType
             /\ t.entries[i].base \in Nat
             /\ t.entries[i].length \in Nat \ {0}
    BY <1>4
<1> QED
    BY <1>1, <1>3, <1>5, <1>6 DEF IsTable

LEMMA InitType == Init => TypeOK
<1> SUFFICES ASSUME Init PROVE TypeOK
    OBVIOUS
<1> PICK t \in Tables : InitTable(t)
    BY DEF Init
<1> DEFINE k == Len(t.entries)
<1>t. /\ t.land \in TableArea /\ k \in 1..MaxCapacity
      /\ t.capacity \in 1..MaxCapacity /\ t.meta \in 1..k
    BY TableFacts, PmmAssumption
<1>s. ASSUME NEW i \in 0..(k - 1)
      PROVE  <<t.land, i>> \in Slot
    BY <1>t, PmmAssumption DEF Slot
<1>e. ASSUME NEW s \in Slot, Live(t, s)
      PROVE  /\ EntryOf(t, s).type \in EntryType
             /\ EntryOf(t, s).base \in Nat
             /\ EntryOf(t, s).length \in Nat
  <2>1. s[2] + 1 \in 1..k
      BY <1>t, <1>e, SlotParts, PmmAssumption DEF Live
  <2> QED
      BY <2>1, TableFacts DEF EntryOf
<1>1. type \in [Slot -> SlotType]
    BY <1>e DEF InitTable, SlotType
<1>2. base \in [Slot -> Nat] /\ length \in [Slot -> Nat]
    BY <1>e DEF InitTable
<1>3. prev \in [Slot -> Ptr]
  <2>1. ASSUME NEW s \in Slot, Live(t, s), s[2] > 0
        PROVE  <<t.land, s[2] - 1>> \in Slot
      BY <2>1, <1>t, <1>s, SlotParts, PmmAssumption DEF Live
  <2> QED
      BY <2>1 DEF InitTable, Ptr
<1>4. next \in [Slot -> Ptr]
  <2>1. ASSUME NEW s \in Slot, s[2] + 1 < k
        PROVE  <<t.land, s[2] + 1>> \in Slot
      BY <2>1, <1>t, <1>s, SlotParts, PmmAssumption
  <2> QED
      BY <2>1 DEF InitTable, Ptr
<1>5. firstPmmEntry \in Slot /\ lastPmmEntry \in Slot
  <2>1. 0 \in 0..(k - 1) /\ k - 1 \in 0..(k - 1)
      BY <1>t, PmmAssumption
  <2> QED
      BY <2>1, <1>s DEF InitTable
<1>6. rentry \in [Resv -> Ptr]
  <2>1. t.meta - 1 \in 0..(k - 1)
      BY <1>t, PmmAssumption
  <2>2. <<t.land, t.meta - 1>> \in Slot
      BY <2>1, <1>s
  <2> QED
      BY <2>2 DEF InitTable, Ptr
<1>7. /\ numEntries \in [Resv -> Int]
      /\ capacity \in [Resv -> 0..MaxCapacity]
      /\ parent \in [Slot -> Resv]
      /\ owner \in [Slot -> {0, HEAP}]
    BY <1>t, PmmAssumption DEF InitTable, Resv
<1>8. /\ resvNext \in Resv /\ resvs \in Resv /\ pc = "idle" /\ cur = NULL
      /\ caller = [fn |-> "none", len |-> 0] /\ pending = <<>>
      /\ held = {} /\ heapPages = {}
    BY PmmAssumption DEF Init, Resv
<1> QED
    BY <1>1, <1>2, <1>3, <1>4, <1>5, <1>6, <1>7, <1>8 DEF TypeOK, Ptr, Call

LEMMA TypeOfSplit ==
  ASSUME TypeOK, NEW b \in Slot, NEW n \in Nat, NEW t \in {"FREE", "USED"},
         pmm_split(b, n, t), caller' \in [fn : Call, len : Nat]
  PROVE  TypeOK'
<1>1. CASE SplitWhole(b)
    BY <1>1 DEF TypeOK, SplitWhole, links, resvars, client, SlotType, EntryType, Ptr
<1>2. CASE \E how \in {"fault", "panic"} : Halt(how)
    BY <1>2 DEF TypeOK, Halt, links, resvars, client
<1>3. ASSUME NEW r \in Chain, NEW s \in Slot, SplitInto(b, n, t, r, s),
             length[b] > n
      PROVE  TypeOK'
  <2> USE <1>3 DEF SplitInto
  <2>1. type' \in [Slot -> SlotType]
      BY DEF TypeOK, SlotType, EntryType
  <2>2. base' \in [Slot -> Nat] /\ length' \in [Slot -> Nat]
    <3>1. base[b] \in Nat /\ length[b] \in Nat
        BY DEF TypeOK
    <3>2. base[b] + n \in Nat /\ length[b] - n \in Nat
        BY <3>1
    <3> QED
        BY <3>2 DEF TypeOK, LengthsAfterSplit
  <2>3. prev' \in [Slot -> Ptr] /\ next' \in [Slot -> Ptr]
      BY DEF TypeOK, PrevAfterSplit, NextAfterSplit, Ptr
  <2>4. Chain \subseteq Resv
      BY PmmAssumption DEF TypeOK, Chain, Resv
  <2>5. parent' \in [Slot -> Resv]
      BY <2>4, PmmAssumption DEF TypeOK, Resv
  <2>6. numEntries' \in [Resv -> Int]
      BY DEF TypeOK
  <2>7. owner' \in [Slot -> {0, HEAP}] /\ lastPmmEntry' \in Slot
      BY DEF TypeOK
  <2>8. pc' \in {"addResv", "return"} /\ cur' \in Ptr
      BY DEF Ptr
  <2> QED
      BY <2>1, <2>2, <2>3, <2>5, <2>6, <2>7, <2>8 DEF TypeOK, client
<1>4. length[b] \in Nat
    BY DEF TypeOK
<1> QED
    BY <1>1, <1>2, <1>3, <1>4 DEF pmm_split

-----------------------------------------------------------------------------
(* The steps of Next, the callers of pmm_split taken together.             *)

SplitStep ==
  \E b \in FreeListed, n \in Nat \ {0}, t \in {"FREE", "USED"} :
    /\ pc \in {"idle", "fillResv"}
    /\ pmm_split(b, n, t)
    /\ caller' \in [fn : Call, len : Nat]

HaltStep ==
  \E how \in {"fault", "panic"} : Halt(how) /\ caller' \in [fn : Call, len : Nat]

LEMMA NextCases ==
  ASSUME TypeOK, [Next]_vars
  PROVE  \/ UNCHANGED vars
         \/ SplitStep \/ HaltStep
         \/ AddResv \/ ReturnToSplit \/ ReturnToKernel \/ ReturnToHeap
         \/ MergeNext \/ MergePrev
         \/ \E g \in held : pmm_free(g)
<1>s. Sizes \subseteq Nat \ {0}
    BY PmmAssumption
<1>c. ASSUME NEW fn \in Call, NEW n \in Nat, Calls(fn, n)
      PROVE  pc = "idle" /\ caller' \in [fn : Call, len : Nat]
    BY <1>c DEF Calls
<1>1. ASSUME NEW n \in Sizes, pmm_alloc(n) PROVE SplitStep
    BY <1>1, <1>s, <1>c DEF pmm_alloc, SplitStep, Call
<1>2. ASSUME NEW n \in Sizes, pmm_allocMost(n) PROVE SplitStep
    BY <1>2, <1>s, <1>c DEF pmm_allocMost, SplitStep, Call
<1>3. CASE InitKernelHeap
    BY <1>3, <1>c DEF InitKernelHeap, SplitStep, HaltStep, Call
<1>4. ASSUME NEW a \in Page \cup {NULL}, NEW m \in Sizes, NEW n \in Sizes,
             HeapExpand(a, m, n)
      PROVE  SplitStep \/ HaltStep
    BY <1>4, <1>s, <1>c DEF HeapExpand, SplitStep, HaltStep, Call
<1>5. CASE FillResv
    BY <1>5 DEF FillResv, SplitStep, HaltStep, TypeOK
<1>6. CASE AddResvTooEarly
    BY <1>6 DEF AddResvTooEarly, HaltStep, TypeOK
<1> QED
    BY <1>1, <1>2, <1>3, <1>4, <1>5, <1>6 DEF Next, Continue

LEMMA ListedFree ==
  ASSUME NEW b \in FreeListed
  PROVE  b \in Slot /\ type[b] = "FREE" /\ b \in Entries
BY DEF FreeListed, Entries, EntryType

LEMMA TypeStep ==
  ASSUME TypeOK, WorkInv, [Next]_vars
  PROVE  TypeOK'
<1>w. pc \in WorkingPc => cur \in Slot
    BY DEF WorkInv, Entries
<1>1. CASE UNCHANGED vars
    BY <1>1 DEF TypeOK, vars, links, resvars, client
<1>2. CASE SplitStep
    BY <1>2, ListedFree, TypeOfSplit DEF SplitStep
<1>3. CASE HaltStep
    BY <1>3 DEF TypeOK, HaltStep, Halt, links, resvars, client
<1>4. CASE AddResv
  <2>0. cur \in Slot
      BY <1>4, <1>w DEF AddResv, WorkingPc
  <2> USE <1>4 DEF AddResv
  <2>1. resvs + 1 \in Resv
      BY PmmAssumption DEF TypeOK, Resv
  <2>2. capacity' \in [Resv -> 0..MaxCapacity]
    <3>1. EntriesPerBlock \in 0..MaxCapacity /\ 0 \in 0..MaxCapacity
        BY PmmAssumption
    <3> QED
        BY <3>1 DEF TypeOK
  <2>3. pending' \in Seq(Frame)
    <3>1. [block |-> cur, resv |-> resvs + 1] \in Frame
        BY <2>0, <2>1 DEF Frame
    <3> QED
        BY <3>1, AppendProperties DEF TypeOK
  <2> QED
      BY <2>1, <2>2, <2>3 DEF TypeOK, client, links
<1>5. CASE ReturnToSplit
  <2>0. cur \in Slot
      BY <1>5, <1>w DEF ReturnToSplit, WorkingPc
  <2> DEFINE f == pending[Len(pending)]
  <2>r. /\ pending # <<>>
        /\ rentry' = [rentry EXCEPT ![f.resv] = cur]
        /\ numEntries' = [numEntries EXCEPT ![f.resv] = 0]
        /\ capacity' = [capacity EXCEPT ![f.resv] = EntriesPerBlock]
        /\ cur' = f.block
        /\ pending' = SubSeq(pending, 1, Len(pending) - 1)
      BY <1>5 DEF ReturnToSplit
  <2>t. /\ pending \in Seq(Frame)
        /\ rentry \in [Resv -> Ptr]
        /\ numEntries \in [Resv -> Int]
        /\ capacity \in [Resv -> 0..MaxCapacity]
      BY DEF TypeOK
  <2>1. Len(pending) \in 1..Len(pending)
      BY <2>r, <2>t, EmptySeq
  <2>2. f \in Frame
      BY <2>1, <2>t, ElementOfSeq
  <2>3. pending' \in Seq(Frame)
    <3>1. \A i \in 1..(Len(pending) - 1) : pending[i] \in Frame
        BY ElementOfSeq, <2>1, <2>t
    <3> QED
        BY <3>1, <2>1, <2>r, <2>t, SubSeqProperties
  <2>4. type' \in [Slot -> SlotType]
      BY <1>5 DEF ReturnToSplit, TypeOK, SlotType, EntryType
  <2>5. /\ rentry' \in [Resv -> Ptr]
        /\ numEntries' \in [Resv -> Int]
        /\ capacity' \in [Resv -> 0..MaxCapacity]
        /\ cur' \in Ptr
    <3>1. EntriesPerBlock \in 0..MaxCapacity
        BY PmmAssumption
    <3>2. f.block \in Slot /\ f.resv \in Resv
        BY <2>2 DEF Frame
    <3>3. numEntries' \in [Resv -> Int]
        BY <3>2, <2>r, <2>t
    <3>4. capacity' \in [Resv -> 0..MaxCapacity]
        BY <3>1, <3>2, <2>r, <2>t
    <3>5. rentry' \in [Resv -> Ptr] /\ cur' \in Ptr
        BY <2>0, <3>2, <2>r, <2>t DEF Ptr
    <3> QED
        BY <3>3, <3>4, <3>5
  <2> QED
      BY <1>5, <2>3, <2>4, <2>5 DEF ReturnToSplit, TypeOK, links, client
<1>6. CASE ReturnToKernel
  <2> USE <1>6 DEF ReturnToKernel
  <2>1. cur \in Slot
      BY <1>w DEF WorkingPc
  <2>2. held' \subseteq Grant
      BY <2>1 DEF TypeOK, Grant
  <2> QED
      BY <2>2 DEF TypeOK, links, resvars, Call, Ptr
<1>7. CASE ReturnToHeap
  <2> USE <1>7 DEF ReturnToHeap
  <2>1. cur \in Slot
      BY <1>w DEF WorkingPc
  <2>2. PagesOf(base[cur], length[cur]) \subseteq Nat
      BY <2>1 DEF TypeOK, PagesOf
  <2>3. owner' \in [Slot -> {0, HEAP}]
      BY DEF TypeOK
  <2>4. pc' \in {"idle", "mergeNext"} /\ cur' \in Ptr
        /\ caller' \in [fn : Call, len : Nat]
      BY DEF TypeOK, Call, Ptr
  <2> QED
      BY <2>2, <2>3, <2>4 DEF TypeOK, links, resvars
<1>8. CASE MergeNext
  <2>1. cur \in Slot
      BY <1>8, <1>w DEF MergeNext, WorkingPc
  <2>2. CASE AbsorbsNext
    <3>t. /\ type \in [Slot -> SlotType]
          /\ base \in [Slot -> Nat]
          /\ length \in [Slot -> Nat]
          /\ prev \in [Slot -> Ptr]
          /\ next \in [Slot -> Ptr]
          /\ parent \in [Slot -> Resv]
          /\ numEntries \in [Resv -> Int]
        BY DEF TypeOK
    <3>1. next[cur] \in Slot
        BY <2>1, <2>2, <3>t DEF AbsorbsNext, Ptr
    <3> DEFINE e == next[cur]
    <3>u. /\ length' = [length EXCEPT ![cur] = length[cur] + length[e]]
          /\ next' = [next EXCEPT ![cur] = next[e]]
          /\ prev' = [p \in Slot |-> IF p = next[e] THEN cur ELSE prev[p]]
          /\ type' = [type EXCEPT ![e] = "EMPTY"]
          /\ numEntries' =
               [numEntries EXCEPT ![parent[e]] = numEntries[parent[e]] - 1]
        BY <1>8, <2>1, <2>2, <3>1, <3>t DEF MergeNext, Drop, PrevAfterMerge
    <3> HIDE DEF e
    <3>2. parent[e] \in Resv /\ numEntries[parent[e]] - 1 \in Int
        BY <3>1, <3>t DEF e
    <3>3. prev' \in [Slot -> Ptr]
        BY <2>1, <3>t, <3>u DEF Ptr
    <3>4. /\ type' \in [Slot -> SlotType]
          /\ numEntries' \in [Resv -> Int]
        BY <3>2, <3>t, <3>u DEF SlotType
    <3>5. /\ length' \in [Slot -> Nat]
          /\ next' \in [Slot -> Ptr]
      <4>1. e \in Slot
          BY <3>1 DEF e
      <4> QED
          BY <2>1, <4>1, <3>t, <3>u
    <3> QED
        BY <1>8, <2>2, <3>3, <3>4, <3>5 DEF MergeNext, TypeOK, client
  <2>3. CASE ~AbsorbsNext
      BY <1>8, <2>3 DEF MergeNext, TypeOK, client
  <2> QED
      BY <2>2, <2>3
<1>9. CASE MergePrev
  <2>1. cur \in Slot
      BY <1>9, <1>w DEF MergePrev, WorkingPc
  <2>2. CASE AbsorbsPrev
    <3>t. /\ type \in [Slot -> SlotType]
          /\ base \in [Slot -> Nat]
          /\ length \in [Slot -> Nat]
          /\ prev \in [Slot -> Ptr]
          /\ next \in [Slot -> Ptr]
          /\ parent \in [Slot -> Resv]
          /\ numEntries \in [Resv -> Int]
        BY DEF TypeOK
    <3>1. prev[cur] \in Slot
        BY <2>1, <2>2, <3>t DEF AbsorbsPrev, Ptr
    <3> DEFINE e == prev[cur]
    <3>u. /\ length' = [length EXCEPT ![cur] = length[cur] + length[e]]
          /\ base' = [base EXCEPT ![cur] = base[e]]
          /\ prev' = [prev EXCEPT ![cur] = prev[e]]
          /\ next' = [p \in Slot |-> IF p = prev[e] THEN cur ELSE next[p]]
          /\ type' = [type EXCEPT ![e] = "EMPTY"]
          /\ numEntries' =
               [numEntries EXCEPT ![parent[e]] = numEntries[parent[e]] - 1]
        BY <1>9, <2>1, <2>2, <3>1, <3>t DEF MergePrev, Drop
    <3> HIDE DEF e
    <3>2. parent[e] \in Resv /\ numEntries[parent[e]] - 1 \in Int
        BY <3>1, <3>t DEF e
    <3>3. next' \in [Slot -> Ptr]
        BY <2>1, <3>t, <3>u DEF Ptr
    <3>4. /\ type' \in [Slot -> SlotType]
          /\ numEntries' \in [Resv -> Int]
        BY <3>2, <3>t, <3>u DEF SlotType
    <3>5. /\ length' \in [Slot -> Nat]
          /\ base' \in [Slot -> Nat]
          /\ prev' \in [Slot -> Ptr]
      <4>1. e \in Slot
          BY <3>1 DEF e
      <4> QED
          BY <2>1, <4>1, <3>t, <3>u
    <3> QED
        BY <1>9, <2>2, <3>3, <3>4, <3>5 DEF MergePrev, TypeOK, client
  <2>3. CASE ~AbsorbsPrev
    <3>1. caller' \in [fn : Call, len : Nat] /\ cur' \in Ptr
        BY <1>9, <2>3 DEF MergePrev, Call, Ptr
    <3> QED
        BY <1>9, <2>3, <3>1 DEF MergePrev, TypeOK, client
  <2> QED
      BY <2>2, <2>3
<1>10. ASSUME NEW g \in held, pmm_free(g)
       PROVE  TypeOK'
  <2>1. g.entry \in Slot
      BY DEF TypeOK, Grant
  <2>2. type' \in [Slot -> SlotType]
      BY <1>10 DEF pmm_free, TypeOK, SlotType, EntryType
  <2>3. held' \subseteq Grant /\ caller' \in [fn : Call, len : Nat]
      BY <1>10 DEF pmm_free, Calls, TypeOK, Call
  <2> QED
      BY <1>10, <2>1, <2>2, <2>3 DEF pmm_free, TypeOK, links, resvars, Ptr
<1> QED
    BY <1>1, <1>2, <1>3, <1>4, <1>5, <1>6, <1>7, <1>8, <1>9, <1>10, NextCases

-----------------------------------------------------------------------------
(* What the steps do to the set of entries.                                *)

LEMMA SplitCases ==
  ASSUME SplitStep
  PROVE  /\ pc \in {"idle", "fillResv"}
         /\ \/ HaltStep
            \/ \E b \in Slot : type[b] = "FREE" /\ SplitWhole(b)
            \/ \E b, s \in Slot, n \in Nat \ {0}, t \in {"FREE", "USED"},
                 r \in Chain :
                 /\ type[b] = "FREE" /\ type[s] = "EMPTY"
                 /\ ~(length[b] <= n)
                 /\ SplitInto(b, n, t, r, s)
<1> PICK b \in FreeListed, n \in Nat \ {0}, t \in {"FREE", "USED"} :
         /\ pc \in {"idle", "fillResv"}
         /\ pmm_split(b, n, t)
         /\ caller' \in [fn : Call, len : Nat]
    BY DEF SplitStep
<1>1. b \in Slot /\ type[b] = "FREE"
    BY ListedFree
<1>2. CASE length[b] <= n
    BY <1>1, <1>2 DEF pmm_split
<1>3. CASE Halt("fault") \/ Halt("panic")
    BY <1>3 DEF HaltStep
<1>4. ASSUME ~(length[b] <= n), NEW r \in Chain, NEW s \in Slot,
             s \in FirstEmpty(r), SplitInto(b, n, t, r, s)
      PROVE  \E b1, s1 \in Slot, n1 \in Nat \ {0}, t1 \in {"FREE", "USED"},
               r1 \in Chain :
               /\ type[b1] = "FREE" /\ type[s1] = "EMPTY"
               /\ ~(length[b1] <= n1)
               /\ SplitInto(b1, n1, t1, r1, s1)
  <2>1. type[s] = "EMPTY"
      BY <1>4 DEF FirstEmpty, EmptySlots
  <2> QED
      BY <1>1, <1>4, <2>1
<1> QED
    BY <1>2, <1>3, <1>4 DEF pmm_split

LEMMA EntriesWhole ==
  ASSUME TypeOK, NEW b \in Slot, type[b] = "FREE", SplitWhole(b)
  PROVE  b \in Entries /\ Entries' = Entries
BY DEF TypeOK, SplitWhole, Entries, EntryType

LEMMA EntriesInto ==
  ASSUME TypeOK, NEW b \in Slot, NEW s \in Slot, NEW n, NEW t \in {"FREE", "USED"},
         NEW r, type[b] = "FREE", type[s] = "EMPTY", SplitInto(b, n, t, r, s)
  PROVE  /\ b \in Entries /\ s \notin Entries
         /\ Entries' = Entries \cup {s}
<1>1. b \in Entries /\ s \notin Entries
    BY DEF Entries, EntryType
<1>2. \A x \in Slot : type'[x] = IF x = b THEN (IF ResvToAdd THEN t ELSE "USED")
                                 ELSE IF x = s THEN "FREE" ELSE type[x]
    BY DEF TypeOK, SplitInto
<1> QED
    BY <1>1, <1>2 DEF Entries, EntryType

LEMMA FrameTop ==
  ASSUME TypeOK, WorkInv, pending # <<>>
  PROVE  /\ Len(pending) \in DOMAIN pending
         /\ pending[Len(pending)] \in Frame
         /\ pending[Len(pending)].block \in Entries
<1>1. Len(pending) \in 1..Len(pending) /\ DOMAIN pending = 1..Len(pending)
    BY EmptySeq, LenProperties DEF TypeOK
<1>2. pending[Len(pending)] \in Frame
    BY <1>1, ElementOfSeq DEF TypeOK
<1> QED
    BY <1>1, <1>2 DEF WorkInv

LEMMA EntriesReturn ==
  ASSUME TypeOK, WorkInv, ReturnToSplit
  PROVE  Entries' = Entries
<1> DEFINE f == pending[Len(pending)]
<1>1. f.block \in Entries
    BY FrameTop DEF ReturnToSplit
<1>2. cur \in Entries
    BY DEF WorkInv, WorkingPc, ReturnToSplit
<1>3. PICK look \in SUBSET FreshSlots(base[cur]) :
        type' = [s \in Slot |-> IF s = f.block THEN "USED"
                                ELSE IF s = cur THEN "META"
                                ELSE IF s \in look THEN "EMPTY" ELSE type[s]]
    BY DEF ReturnToSplit
<1>4. \A s \in look : s \notin Entries
    BY DEF FreshSlots, Entries, EntryType
<1> QED
    BY <1>1, <1>2, <1>3, <1>4 DEF Entries, EntryType

LEMMA MergeNextShape ==
  ASSUME TypeOK, WorkInv, SpanInv, ListSound, MergeNext, AbsorbsNext
  PROVE  /\ cur \in Entries /\ next[cur] \in Entries /\ next[cur] # cur
         /\ Entries' = Entries \ {next[cur]}
<1>1. cur \in Entries
    BY DEF WorkInv, WorkingPc, MergeNext
<1>2. next[cur] \in Entries
    BY <1>1 DEF ListSound, AbsorbsNext
<1>3. next[cur] # cur
  <2>1. base[cur] \in Nat /\ length[cur] \in Nat /\ length[cur] > 0
      BY <1>1 DEF TypeOK, SpanInv, Entries
  <2> QED
      BY <2>1 DEF AbsorbsNext, Adjoins
<1>4. type' = [type EXCEPT ![next[cur]] = "EMPTY"]
    BY DEF MergeNext, Drop
<1> QED
    BY <1>1, <1>2, <1>3, <1>4 DEF Entries, EntryType, TypeOK

LEMMA MergePrevShape ==
  ASSUME TypeOK, WorkInv, SpanInv, ListSound, MergePrev, AbsorbsPrev
  PROVE  /\ cur \in Entries /\ prev[cur] \in Entries /\ prev[cur] # cur
         /\ Entries' = Entries \ {prev[cur]}
<1>1. cur \in Entries
    BY DEF WorkInv, WorkingPc, MergePrev
<1>2. prev[cur] \in Entries
    BY <1>1 DEF ListSound, AbsorbsPrev
<1>3. prev[cur] # cur
  <2>1. base[cur] \in Nat /\ length[cur] \in Nat /\ length[cur] > 0
      BY <1>1 DEF TypeOK, SpanInv, Entries
  <2> QED
      BY <2>1 DEF AbsorbsPrev, Adjoins
<1>4. type' = [type EXCEPT ![prev[cur]] = "EMPTY"]
    BY DEF MergePrev, Drop
<1> QED
    BY <1>1, <1>2, <1>3, <1>4 DEF Entries, EntryType, TypeOK

LEMMA EntriesFree ==
  ASSUME TypeOK, HeldInv, NEW g \in held, pmm_free(g)
  PROVE  g.entry \in Entries /\ Entries' = Entries
<1>1. g.entry \in Slot /\ type[g.entry] = "USED"
    BY DEF TypeOK, Grant, HeldInv
<1> QED
    BY <1>1 DEF pmm_free, Entries, EntryType, TypeOK

-----------------------------------------------------------------------------
(* The running call works on entries.                                      *)

LEMMA WorkStep ==
  ASSUME IInv, [Next]_vars
  PROVE  WorkInv'
<1> USE DEF IInv
<1>1. CASE UNCHANGED vars
    BY <1>1 DEF WorkInv, Entries, vars, links, resvars, client
<1>2. CASE SplitStep
  <2>1. pc \in {"idle", "fillResv"}
      BY <1>2, SplitCases
  <2>2. CASE HaltStep
      BY <2>2 DEF HaltStep, Halt, WorkInv, WorkingPc, Entries
  <2>3. ASSUME NEW b \in Slot, type[b] = "FREE", SplitWhole(b)
        PROVE  WorkInv'
    <3>1. b \in Entries /\ Entries' = Entries
        BY <2>3, EntriesWhole
    <3> QED
        BY <2>3, <3>1 DEF SplitWhole, WorkInv, WorkingPc
  <2>4. ASSUME NEW b \in Slot, NEW s \in Slot, NEW n \in Nat \ {0},
               NEW t \in {"FREE", "USED"}, NEW r \in Chain,
               type[b] = "FREE", type[s] = "EMPTY", SplitInto(b, n, t, r, s)
        PROVE  WorkInv'
    <3>1. b \in Entries /\ Entries' = Entries \cup {s}
        BY <2>4, EntriesInto
    <3> QED
        BY <2>4, <3>1 DEF SplitInto, WorkInv, WorkingPc
  <2> QED
      BY <1>2, <2>2, <2>3, <2>4, SplitCases
<1>3. CASE HaltStep
    BY <1>3 DEF HaltStep, Halt, WorkInv, WorkingPc, Entries
<1>4. CASE AddResv
  <2>1. cur \in Entries /\ Entries' = Entries
      BY <1>4 DEF AddResv, WorkInv, WorkingPc, Entries
  <2>2. cur' = cur /\ pc' = "fillResv"
      BY <1>4 DEF AddResv
  <2>3. \A i \in DOMAIN pending' : pending'[i].block \in Entries
    <3> DEFINE f == [block |-> cur, resv |-> resvs + 1]
    <3>1. f \in Frame
        BY <2>1, PmmAssumption, <1>4 DEF Frame, TypeOK, AddResv, Resv, Entries
    <3>2. pending' = Append(pending, f) /\ pending \in Seq(Frame)
        BY <1>4 DEF AddResv, TypeOK
    <3>3. /\ DOMAIN pending = 1..Len(pending) /\ Len(pending) \in Nat
          /\ DOMAIN pending' = 1..(Len(pending) + 1)
        BY <3>1, <3>2, AppendProperties, LenProperties
    <3>4. /\ \A i \in 1..Len(pending) : pending'[i] = pending[i]
          /\ pending'[Len(pending) + 1] = f
        BY <3>1, <3>2, AppendProperties
    <3> QED
        BY <2>1, <3>3, <3>4 DEF WorkInv
  <2> QED
      BY <2>1, <2>2, <2>3 DEF WorkInv, WorkingPc
<1>5. CASE ReturnToSplit
  <2>1. Entries' = Entries
      BY <1>5, EntriesReturn
  <2>2. pending[Len(pending)].block \in Entries
      BY <1>5, FrameTop DEF ReturnToSplit
  <2>3. pc' = "return" /\ cur' = pending[Len(pending)].block
      BY <1>5 DEF ReturnToSplit
  <2>4. \A i \in DOMAIN pending' : pending'[i].block \in Entries
    <3>1. /\ pending \in Seq(Frame) /\ DOMAIN pending = 1..Len(pending)
          /\ Len(pending) \in 1..Len(pending)
        BY <1>5, LenProperties, EmptySeq DEF TypeOK, ReturnToSplit
    <3>2. pending' = SubSeq(pending, 1, Len(pending) - 1)
        BY <1>5 DEF ReturnToSplit
    <3>3. \A i \in 1..(Len(pending) - 1) : pending[i] \in Frame
        BY <3>1, ElementOfSeq
    <3>4. /\ pending' \in Seq(Frame) /\ Len(pending') = Len(pending) - 1
          /\ \A i \in 1..(Len(pending) - 1) : pending'[i] = pending[i]
        BY <3>1, <3>2, <3>3, SubSeqProperties
    <3>5. DOMAIN pending' = 1..(Len(pending) - 1)
        BY <3>4, LenProperties
    <3> QED
        BY <3>1, <3>4, <3>5 DEF WorkInv
  <2> QED
      BY <2>1, <2>2, <2>3, <2>4 DEF WorkInv
<1>6. CASE ReturnToKernel
    BY <1>6 DEF ReturnToKernel, WorkInv, WorkingPc, Entries
<1>7. CASE ReturnToHeap
    BY <1>7 DEF ReturnToHeap, WorkInv, WorkingPc, Entries
<1>8. CASE MergeNext
  <2>1. CASE AbsorbsNext
    <3>1. cur \in Entries /\ next[cur] # cur /\ Entries' = Entries \ {next[cur]}
        BY <1>8, <2>1, MergeNextShape
    <3> QED
        BY <1>8, <2>1, <3>1 DEF MergeNext, WorkInv
  <2>2. CASE ~AbsorbsNext
      BY <1>8, <2>2 DEF MergeNext, WorkInv, WorkingPc, Entries
  <2> QED
      BY <2>1, <2>2
<1>9. CASE MergePrev
  <2>1. CASE AbsorbsPrev
    <3>1. cur \in Entries /\ prev[cur] # cur /\ Entries' = Entries \ {prev[cur]}
        BY <1>9, <2>1, MergePrevShape
    <3> QED
        BY <1>9, <2>1, <3>1 DEF MergePrev, WorkInv
  <2>2. CASE ~AbsorbsPrev
      BY <1>9, <2>2 DEF MergePrev, WorkInv, WorkingPc, Entries
  <2> QED
      BY <2>1, <2>2
<1>10. ASSUME NEW g \in held, pmm_free(g)
       PROVE  WorkInv'
  <2>1. g.entry \in Entries /\ Entries' = Entries
      BY <1>10, EntriesFree
  <2> QED
      BY <1>10, <2>1 DEF pmm_free, Calls, WorkInv
<1> QED
    BY <1>1, <1>2, <1>3, <1>4, <1>5, <1>6, <1>7, <1>8, <1>9, <1>10, NextCases

-----------------------------------------------------------------------------
(* Entries have pages and do not overlap.                                  *)

\* Steps that leave the addresses and the set of entries alone.
LEMMA SpanSame ==
  ASSUME SpanInv, Entries' = Entries, UNCHANGED <<base, length>>
  PROVE  SpanInv'
BY DEF SpanInv, EntriesDisjoint

LEMMA SpanInto ==
  ASSUME TypeOK, SpanInv, NEW b \in Slot, NEW s \in Slot, NEW n \in Nat \ {0},
         NEW t \in {"FREE", "USED"}, NEW r,
         type[b] = "FREE", type[s] = "EMPTY", ~(length[b] <= n),
         SplitInto(b, n, t, r, s)
  PROVE  SpanInv'
<1>1. b \in Entries /\ s \notin Entries /\ Entries' = Entries \cup {s}
    BY EntriesInto
<1>2. \A e \in Entries : base[e] \in Nat /\ length[e] \in Nat /\ length[e] > 0
    BY DEF TypeOK, Entries, SpanInv
<1>3. /\ base'[s] = base[b] + n /\ length'[s] = length[b] - n
      /\ base'[b] = base[b] /\ length'[b] = n
      /\ \A e \in Entries \ {b} : base'[e] = base[e] /\ length'[e] = length[e]
    BY <1>1 DEF TypeOK, SplitInto, LengthsAfterSplit, Entries
<1>4. \A e \in Entries' : length'[e] > 0
    BY <1>1, <1>2, <1>3
<1>5. ASSUME NEW x \in Entries', NEW y \in Entries', x # y
      PROVE  \/ base'[x] + length'[x] <= base'[y]
             \/ base'[y] + length'[y] <= base'[x]
  <2>1. ASSUME NEW e \in Entries \ {b}
        PROVE  \/ base[e] + length[e] <= base[b]
               \/ base[b] + length[b] <= base[e]
      BY <1>1 DEF SpanInv, EntriesDisjoint
  <2>2. CASE x \in Entries \ {b} /\ y \in Entries \ {b}
      BY <1>3, <1>5, <2>2 DEF SpanInv, EntriesDisjoint
  <2>3. CASE {x, y} = {b, s}
      BY <1>1, <1>2, <1>3, <1>5, <2>3
  <2>4. CASE x \in Entries \ {b} /\ y \in {b, s}
      BY <1>1, <1>2, <1>3, <2>1, <2>4
  <2>5. CASE y \in Entries \ {b} /\ x \in {b, s}
      BY <1>1, <1>2, <1>3, <2>1, <2>5
  <2> QED
      BY <1>1, <1>5, <2>2, <2>3, <2>4, <2>5
<1> QED
    BY <1>4, <1>5 DEF SpanInv, EntriesDisjoint

\* An entry grows over a neighbour that leaves the list.
LEMMA SpanMerge ==
  ASSUME TypeOK, SpanInv, NEW c \in Entries, NEW e \in Entries, c # e,
         Entries' = Entries \ {e},
         length' = [length EXCEPT ![c] = length[c] + length[e]],
         \/ base[c] + length[c] = base[e] /\ base' = base
         \/ base[e] + length[e] = base[c] /\ base' = [base EXCEPT ![c] = base[e]]
  PROVE  SpanInv'
<1>1. \A x \in Entries : base[x] \in Nat /\ length[x] \in Nat /\ length[x] > 0
    BY DEF TypeOK, Entries, SpanInv
<1>2. /\ length'[c] = length[c] + length[e]
      /\ \A x \in Entries \ {c, e} : base'[x] = base[x] /\ length'[x] = length[x]
      /\ \/ base[c] + length[c] = base[e] /\ base'[c] = base[c]
         \/ base[e] + length[e] = base[c] /\ base'[c] = base[e]
    BY DEF TypeOK, Entries
<1>3. \A x \in Entries' : length'[x] > 0
    BY <1>1, <1>2
<1>4. ASSUME NEW x \in Entries \ {c, e}
      PROVE  \/ base'[x] + length'[x] <= base'[c]
             \/ base'[c] + length'[c] <= base'[x]
  <2>1. \/ base[x] + length[x] <= base[c]
        \/ base[c] + length[c] <= base[x]
      BY DEF SpanInv, EntriesDisjoint
  <2>2. \/ base[x] + length[x] <= base[e]
        \/ base[e] + length[e] <= base[x]
      BY DEF SpanInv, EntriesDisjoint
  <2> QED
      BY <1>1, <1>2, <2>1, <2>2
<1>5. ASSUME NEW x \in Entries \ {c, e}, NEW y \in Entries \ {c, e}, x # y
      PROVE  \/ base'[x] + length'[x] <= base'[y]
             \/ base'[y] + length'[y] <= base'[x]
    BY <1>2, <1>5 DEF SpanInv, EntriesDisjoint
<1> QED
    BY <1>3, <1>4, <1>5 DEF SpanInv, EntriesDisjoint

LEMMA SpanStep ==
  ASSUME IInv, [Next]_vars
  PROVE  SpanInv'
<1> USE DEF IInv
<1>1. CASE UNCHANGED vars
    BY <1>1, SpanSame DEF Entries, vars
<1>2. CASE SplitStep
  <2>1. CASE HaltStep
      BY <2>1, SpanSame DEF HaltStep, Halt, Entries
  <2>2. ASSUME NEW b \in Slot, type[b] = "FREE", SplitWhole(b)
        PROVE  SpanInv'
      BY <2>2, EntriesWhole, SpanSame DEF SplitWhole
  <2> QED
      BY <1>2, <2>1, <2>2, SplitCases, SpanInto
<1>3. CASE HaltStep
    BY <1>3, SpanSame DEF HaltStep, Halt, Entries
<1>4. CASE AddResv
    BY <1>4, SpanSame DEF AddResv, Entries
<1>5. CASE ReturnToSplit
    BY <1>5, SpanSame, EntriesReturn DEF ReturnToSplit
<1>6. CASE ReturnToKernel
    BY <1>6, SpanSame DEF ReturnToKernel, Entries
<1>7. CASE ReturnToHeap
    BY <1>7, SpanSame DEF ReturnToHeap, Entries
<1>8. CASE MergeNext
  <2>1. CASE AbsorbsNext
      BY <1>8, <2>1, MergeNextShape, SpanMerge DEF MergeNext, AbsorbsNext, Adjoins
  <2>2. CASE ~AbsorbsNext
      BY <1>8, <2>2, SpanSame DEF MergeNext, Entries
  <2> QED
      BY <2>1, <2>2
<1>9. CASE MergePrev
  <2>1. CASE AbsorbsPrev
      BY <1>9, <2>1, MergePrevShape, SpanMerge DEF MergePrev, AbsorbsPrev, Adjoins
  <2>2. CASE ~AbsorbsPrev
      BY <1>9, <2>2, SpanSame DEF MergePrev, Entries
  <2> QED
      BY <2>1, <2>2
<1>10. ASSUME NEW g \in held, pmm_free(g)
       PROVE  SpanInv'
    BY <1>10, EntriesFree, SpanSame DEF pmm_free
<1> QED
    BY <1>1, <1>2, <1>3, <1>4, <1>5, <1>6, <1>7, <1>8, <1>9, <1>10, NextCases

-----------------------------------------------------------------------------
(* The list is doubly linked and in order.                                 *)

LEMMA LinkSame ==
  ASSUME ListSound, Entries' = Entries, UNCHANGED <<base, length, prev, next>>
  PROVE  ListSound'
BY DEF ListSound

LEMMA LinkInto ==
  ASSUME TypeOK, SpanInv, ListSound,
         NEW b \in Slot, NEW s \in Slot, NEW n \in Nat \ {0},
         NEW t \in {"FREE", "USED"}, NEW r,
         type[b] = "FREE", type[s] = "EMPTY", ~(length[b] <= n),
         SplitInto(b, n, t, r, s)
  PROVE  ListSound'
<1>0. NULL \notin Slot
    BY PmmAssumption
<1>1. b \in Entries /\ s \notin Entries /\ Entries' = Entries \cup {s}
    BY EntriesInto
<1>2. /\ \A e \in Entries : e \in Slot /\ base[e] \in Nat /\ length[e] \in Nat
      /\ length[b] > 0
    BY <1>1 DEF TypeOK, Entries, SpanInv
<1>3. /\ base'[s] = base[b] + n /\ length'[s] = length[b] - n
      /\ base'[b] = base[b] /\ length'[b] = n
      /\ \A e \in Entries \ {b} : base'[e] = base[e] /\ length'[e] = length[e]
    BY <1>1 DEF TypeOK, SplitInto, LengthsAfterSplit, Entries
<1>4. /\ next'[s] = next[b] /\ next'[b] = s
      /\ \A e \in Entries \ {b} : next'[e] = next[e]
    BY <1>1 DEF TypeOK, SplitInto, NextAfterSplit, Entries
<1>5. \A e \in Slot : prev'[e] = IF e = s THEN b
                                 ELSE IF e = next[b] THEN s ELSE prev[e]
    BY DEF SplitInto, PrevAfterSplit
<1>6. next[b] # b
  <2>1. SUFFICES ASSUME next[b] = b PROVE FALSE
      OBVIOUS
  <2>2. base[b] + length[b] <= base[b]
      BY <1>0, <1>1, <2>1 DEF ListSound
  <2>3. base[b] \in Nat /\ length[b] \in Nat /\ length[b] > 0
      BY <1>1, <1>2
  <2> QED
      BY <2>2, <2>3
<1>7. ASSUME NEW e \in Entries', next'[e] # NULL
      PROVE  /\ next'[e] \in Entries'
             /\ prev'[next'[e]] = e
             /\ base'[e] + length'[e] <= base'[next'[e]]
  <2>1. CASE e = b
      BY <1>1, <1>2, <1>3, <1>4, <1>5, <2>1
  <2>2. CASE e = s
    <3>1. next[b] \in Entries /\ base[b] + length[b] <= base[next[b]]
        BY <1>1, <1>4, <1>7, <2>2 DEF ListSound
    <3> QED
        BY <1>1, <1>2, <1>3, <1>4, <1>5, <1>6, <2>2, <3>1
  <2>3. CASE e \in Entries \ {b}
    <3>1. /\ next[e] \in Entries /\ prev[next[e]] = e
          /\ base[e] + length[e] <= base[next[e]]
        BY <1>4, <1>7, <2>3 DEF ListSound
    <3>2. next[e] # next[b]
        BY <1>1, <2>3, <3>1, <1>7, <1>4 DEF ListSound
    <3> QED
        BY <1>1, <1>2, <1>3, <1>4, <1>5, <2>3, <3>1, <3>2
  <2> QED
      BY <1>1, <2>1, <2>2, <2>3
<1>8. ASSUME NEW e \in Entries', prev'[e] # NULL
      PROVE  prev'[e] \in Entries' /\ next'[prev'[e]] = e
  <2>1. CASE e = s
      BY <1>1, <1>4, <1>5, <2>1
  <2>2. CASE e # s /\ e = next[b]
      BY <1>1, <1>2, <1>4, <1>5, <2>2
  <2>3. CASE e \in Entries /\ e # next[b]
    <3>1. prev[e] \in Entries /\ next[prev[e]] = e /\ prev'[e] = prev[e]
        BY <1>1, <1>2, <1>5, <1>8, <2>3 DEF ListSound
    <3> QED
        BY <1>1, <1>4, <2>3, <3>1
  <2> QED
      BY <1>1, <2>1, <2>2, <2>3
<1> QED
    BY <1>7, <1>8 DEF ListSound

LEMMA LinkMergeNext ==
  ASSUME IInv, MergeNext, AbsorbsNext
  PROVE  ListSound'
<1> USE DEF IInv
<1> DEFINE e == next[cur]
<1>1. cur \in Entries /\ e \in Entries /\ e # cur /\ Entries' = Entries \ {e}
    BY MergeNextShape
<1>2. \A x \in Entries : x \in Slot /\ base[x] \in Nat /\ length[x] \in Nat
    BY DEF TypeOK, Entries
<1>3. /\ base' = base /\ length'[cur] = length[cur] + length[e]
      /\ \A x \in Entries \ {cur} : length'[x] = length[x]
      /\ base[cur] + length[cur] = base[e]
    BY <1>1, <1>2 DEF TypeOK, MergeNext, AbsorbsNext, Adjoins
<1>4. /\ next'[cur] = next[e]
      /\ \A x \in Entries \ {cur} : next'[x] = next[x]
    BY <1>1, <1>2 DEF TypeOK, MergeNext
<1>5. \A x \in Slot : prev'[x] = IF x = next[e] THEN cur ELSE prev[x]
    BY DEF MergeNext, PrevAfterMerge
<1>6. prev[e] = cur /\ NULL \notin Slot
    BY <1>1, PmmAssumption DEF ListSound, AbsorbsNext
<1>7. ASSUME NEW x \in Entries', next'[x] # NULL
      PROVE  /\ next'[x] \in Entries'
             /\ prev'[next'[x]] = x
             /\ base'[x] + length'[x] <= base'[next'[x]]
  <2>1. CASE x = cur
    <3>1. /\ next[e] \in Entries /\ prev[next[e]] = e
          /\ base[e] + length[e] <= base[next[e]]
        BY <1>1, <1>4, <1>7, <2>1 DEF ListSound
    <3>2. next[e] # e
        BY <1>1, <1>6, <3>1
    <3> QED
        BY <1>1, <1>2, <1>3, <1>4, <1>5, <2>1, <3>1, <3>2
  <2>2. CASE x # cur
    <3>1. /\ next[x] \in Entries /\ prev[next[x]] = x
          /\ base[x] + length[x] <= base[next[x]]
        BY <1>1, <1>4, <1>7, <2>2 DEF ListSound
    <3>2. next[x] # e
        BY <1>6, <2>2, <3>1
    <3>3. next[x] # next[e]
      <4>1. SUFFICES ASSUME next[x] = next[e] PROVE FALSE
          OBVIOUS
      <4>2. next[e] # NULL
          BY <3>1, <4>1, <1>2, <1>6
      <4>3. prev[next[e]] = e
          BY <1>1, <4>2 DEF ListSound
      <4> QED
          BY <1>1, <3>1, <4>1, <4>3
    <3> QED
        BY <1>1, <1>2, <1>3, <1>4, <1>5, <2>2, <3>1, <3>2, <3>3
  <2> QED
      BY <2>1, <2>2
<1>8. ASSUME NEW x \in Entries', prev'[x] # NULL
      PROVE  prev'[x] \in Entries' /\ next'[prev'[x]] = x
  <2>1. CASE x = next[e]
      BY <1>1, <1>2, <1>4, <1>5, <2>1
  <2>2. CASE x # next[e]
    <3>1. prev[x] \in Entries /\ next[prev[x]] = x /\ prev'[x] = prev[x]
        BY <1>1, <1>2, <1>5, <1>8, <2>2 DEF ListSound
    <3>2. prev[x] # e /\ prev[x] # cur
        BY <1>1, <2>2, <3>1
    <3> QED
        BY <1>1, <1>4, <3>1, <3>2
  <2> QED
      BY <2>1, <2>2
<1> QED
    BY <1>7, <1>8 DEF ListSound

LEMMA LinkMergePrev ==
  ASSUME IInv, MergePrev, AbsorbsPrev
  PROVE  ListSound'
<1> USE DEF IInv
<1> DEFINE e == prev[cur]
<1>1. cur \in Entries /\ e \in Entries /\ e # cur /\ Entries' = Entries \ {e}
    BY MergePrevShape
<1>2. \A x \in Entries : x \in Slot /\ base[x] \in Nat /\ length[x] \in Nat
    BY DEF TypeOK, Entries
<1>3. /\ length'[cur] = length[cur] + length[e] /\ base'[cur] = base[e]
      /\ \A x \in Entries \ {cur} : length'[x] = length[x] /\ base'[x] = base[x]
      /\ base[e] + length[e] = base[cur]
    BY <1>1, <1>2 DEF TypeOK, MergePrev, AbsorbsPrev, Adjoins
<1>4. /\ prev'[cur] = prev[e]
      /\ \A x \in Entries \ {cur} : prev'[x] = prev[x]
    BY <1>1, <1>2 DEF TypeOK, MergePrev
<1>5. \A x \in Slot : next'[x] = IF x = prev[e] THEN cur ELSE next[x]
    BY DEF MergePrev, AbsorbsPrev
<1>6. next[e] = cur /\ NULL \notin Slot
    BY <1>1, PmmAssumption DEF ListSound, AbsorbsPrev
<1>7. ASSUME NEW x \in Entries', next'[x] # NULL
      PROVE  /\ next'[x] \in Entries'
             /\ prev'[next'[x]] = x
             /\ base'[x] + length'[x] <= base'[next'[x]]
  <2>1. CASE x = prev[e]
    <3>1. x \in Entries /\ x # cur /\ next[x] = e /\ base[x] + length[x] <= base[e]
      <4>1. next[x] = e
          BY <1>1, <1>2, <1>6, <2>1 DEF ListSound
      <4>2. base[x] + length[x] <= base[e]
          BY <1>1, <1>2, <1>6, <4>1 DEF ListSound
      <4>3. x # cur
        <5>1. base[e] \in Nat /\ length[e] \in Nat /\ length[e] > 0
            BY <1>1, <1>2 DEF SpanInv
        <5>2. base[cur] \in Nat /\ length[cur] \in Nat
            BY <1>1, <1>2
        <5> QED
            BY <1>3, <4>2, <5>1, <5>2
      <4> QED
          BY <1>1, <4>1, <4>2, <4>3
    <3> QED
        BY <1>1, <1>2, <1>3, <1>4, <1>5, <2>1, <3>1
  <2>2. CASE x # prev[e]
    <3>1. /\ next[x] \in Entries /\ prev[next[x]] = x /\ next'[x] = next[x]
          /\ base[x] + length[x] <= base[next[x]]
        BY <1>1, <1>2, <1>5, <1>7, <2>2 DEF ListSound
    <3>2. next[x] # e /\ next[x] # cur
        BY <1>1, <2>2, <3>1
    <3>3. CASE x = cur
      <4>1. base'[x] + length'[x] = base[x] + length[x]
          BY <1>1, <1>2, <1>3, <3>3
      <4> QED
          BY <1>1, <1>3, <1>4, <3>1, <3>2, <4>1
    <3>4. CASE x # cur
        BY <1>1, <1>2, <1>3, <1>4, <3>1, <3>2, <3>4
    <3> QED
        BY <3>3, <3>4
  <2> QED
      BY <2>1, <2>2
<1>8. ASSUME NEW x \in Entries', prev'[x] # NULL
      PROVE  prev'[x] \in Entries' /\ next'[prev'[x]] = x
  <2>1. CASE x = cur
    <3>1. prev[e] \in Entries /\ next[prev[e]] = e /\ prev'[x] = prev[e]
        BY <1>1, <1>4, <1>8, <2>1 DEF ListSound
    <3>2. prev[e] # e
        BY <1>1, <1>6, <3>1
    <3> QED
        BY <1>1, <1>2, <1>5, <2>1, <3>1, <3>2
  <2>2. CASE x # cur
    <3>1. prev[x] \in Entries /\ next[prev[x]] = x /\ prev'[x] = prev[x]
        BY <1>1, <1>4, <1>8, <2>2 DEF ListSound
    <3>2. prev[x] # e
        BY <1>6, <2>2, <3>1
    <3>3. prev[x] # prev[e]
      <4>1. SUFFICES ASSUME prev[x] = prev[e] PROVE FALSE
          OBVIOUS
      <4>2. prev[e] # NULL
          BY <3>1, <4>1, <1>2, <1>6
      <4>3. next[prev[e]] = e
          BY <1>1, <4>2 DEF ListSound
      <4> QED
          BY <1>1, <3>1, <4>1, <4>3
    <3> QED
        BY <1>1, <1>2, <1>5, <3>1, <3>2, <3>3
  <2> QED
      BY <2>1, <2>2
<1> QED
    BY <1>7, <1>8 DEF ListSound

LEMMA LinkStep ==
  ASSUME IInv, [Next]_vars
  PROVE  ListSound'
<1> USE DEF IInv
<1>1. CASE UNCHANGED vars
    BY <1>1, LinkSame DEF Entries, vars, links
<1>2. CASE SplitStep
  <2>1. CASE HaltStep
      BY <2>1, LinkSame DEF HaltStep, Halt, Entries, links
  <2>2. ASSUME NEW b \in Slot, type[b] = "FREE", SplitWhole(b)
        PROVE  ListSound'
      BY <2>2, EntriesWhole, LinkSame DEF SplitWhole, links
  <2> QED
      BY <1>2, <2>1, <2>2, SplitCases, LinkInto
<1>3. CASE HaltStep
    BY <1>3, LinkSame DEF HaltStep, Halt, Entries, links
<1>4. CASE AddResv
    BY <1>4, LinkSame DEF AddResv, Entries, links
<1>5. CASE ReturnToSplit
    BY <1>5, LinkSame, EntriesReturn DEF ReturnToSplit, links
<1>6. CASE ReturnToKernel
    BY <1>6, LinkSame DEF ReturnToKernel, Entries, links
<1>7. CASE ReturnToHeap
    BY <1>7, LinkSame DEF ReturnToHeap, Entries, links
<1>8. CASE MergeNext
  <2>1. CASE ~AbsorbsNext
      BY <1>8, <2>1, LinkSame DEF MergeNext, Entries
  <2> QED
      BY <1>8, <2>1, LinkMergeNext
<1>9. CASE MergePrev
  <2>1. CASE ~AbsorbsPrev
      BY <1>9, <2>1, LinkSame DEF MergePrev, Entries
  <2> QED
      BY <1>9, <2>1, LinkMergePrev
<1>10. ASSUME NEW g \in held, pmm_free(g)
       PROVE  ListSound'
    BY <1>10, EntriesFree, LinkSame DEF pmm_free, links
<1> QED
    BY <1>1, <1>2, <1>3, <1>4, <1>5, <1>6, <1>7, <1>8, <1>9, <1>10, NextCases

-----------------------------------------------------------------------------
(* Nobody but its holder works on a granted entry.                         *)

LEMMA HeldSame ==
  ASSUME HeldInv, UNCHANGED <<type, owner, held, pc, cur, pending>>
  PROVE  HeldInv'
BY DEF HeldInv, HeldEntries

LEMMA HeldHalt ==
  ASSUME HeldInv, HaltStep
  PROVE  HeldInv'
BY DEF HaltStep, Halt, HeldInv, HeldEntries, WorkingPc, client

LEMMA HeldWhole ==
  ASSUME TypeOK, HeldInv, NEW b \in Slot, type[b] = "FREE", SplitWhole(b)
  PROVE  HeldInv'
<1>1. b \notin HeldEntries /\ owner[b] = 0
    BY DEF HeldInv, HeldEntries
<1>2. /\ type'[b] = "USED" /\ \A s \in Slot \ {b} : type'[s] = type[s]
      /\ \A g \in held : g.entry \in Slot
    BY DEF TypeOK, SplitWhole, Grant
<1> QED
    BY <1>1, <1>2 DEF SplitWhole, HeldInv, HeldEntries, client, WorkingPc

LEMMA HeldInto ==
  ASSUME TypeOK, WorkInv, HeldInv, NEW b \in Slot, NEW s \in Slot, NEW n,
         NEW t \in {"FREE", "USED"}, NEW r,
         type[b] = "FREE", type[s] = "EMPTY", SplitInto(b, n, t, r, s)
  PROVE  HeldInv'
<1>1. b \notin HeldEntries /\ s \notin HeldEntries /\ owner[b] = 0
    BY DEF HeldInv, HeldEntries
<1>2. /\ type'[b] \in {t, "USED"} /\ type'[s] = "FREE"
      /\ pc' = "return" => type'[b] = "USED"
      /\ \A x \in Slot \ {b, s} : type'[x] = type[x]
      /\ owner'[s] = 0 /\ \A x \in Slot \ {s} : owner'[x] = owner[x]
      /\ b # s
      /\ \A g \in held : g.entry \in Slot
    BY DEF TypeOK, SplitInto, Grant
<1>3. \A i \in DOMAIN pending : pending[i].block # s => owner'[pending[i].block] = 0
  <2>1. \A i \in DOMAIN pending : pending[i].block \in Slot
      BY DEF WorkInv, Entries
  <2>2. \A i \in DOMAIN pending : owner[pending[i].block] = 0
      BY DEF HeldInv
  <2> QED
      BY <1>2, <2>1, <2>2
<1>4. cur' = b /\ held' = held /\ pending' = pending /\ pc' \in {"addResv", "return"}
    BY DEF SplitInto, client
<1>5. \A i \in DOMAIN pending' :
        pending'[i].block \notin HeldEntries' /\ owner'[pending'[i].block] = 0
    BY <1>2, <1>3, <1>4 DEF HeldInv, HeldEntries
<1>6. \A x \in Slot : type'[x] = "FREE" => owner'[x] = 0
    BY <1>1, <1>2 DEF HeldInv
<1>7. \A g \in held' : type'[g.entry] = "USED" /\ owner'[g.entry] = 0
    BY <1>1, <1>2, <1>4 DEF HeldInv, HeldEntries
<1> QED
    BY <1>1, <1>2, <1>4, <1>5, <1>6, <1>7 DEF HeldInv, HeldEntries

LEMMA HeldStep ==
  ASSUME IInv, [Next]_vars
  PROVE  HeldInv'
<1> USE DEF IInv
<1>g. \A g \in held : g.entry \in Slot
    BY DEF TypeOK, Grant
<1>1. CASE UNCHANGED vars
    BY <1>1, HeldSame DEF vars, client
<1>2. CASE SplitStep
    BY <1>2, SplitCases, HeldHalt, HeldWhole, HeldInto
<1>3. CASE HaltStep
    BY <1>3, HeldHalt
<1>4. CASE AddResv
  <2>1. cur \notin HeldEntries /\ owner[cur] = 0 /\ cur \in Slot
      BY <1>4 DEF AddResv, HeldInv, WorkInv, WorkingPc, Entries
  <2>2. /\ held' = held /\ type' = type /\ owner' = owner /\ cur' = cur
        /\ pc' = "fillResv"
      BY <1>4 DEF AddResv, client
  <2>3. \A i \in DOMAIN pending' :
          pending'[i].block \notin HeldEntries /\ owner[pending'[i].block] = 0
    <3> DEFINE f == [block |-> cur, resv |-> resvs + 1]
    <3>1. f \in Frame
        BY <2>1, PmmAssumption, <1>4 DEF Frame, TypeOK, AddResv, Resv
    <3>2. pending' = Append(pending, f) /\ pending \in Seq(Frame)
        BY <1>4 DEF AddResv, TypeOK
    <3>3. /\ DOMAIN pending = 1..Len(pending) /\ Len(pending) \in Nat
          /\ DOMAIN pending' = 1..(Len(pending) + 1)
        BY <3>1, <3>2, AppendProperties, LenProperties
    <3>4. /\ \A i \in 1..Len(pending) : pending'[i] = pending[i]
          /\ pending'[Len(pending) + 1] = f
        BY <3>1, <3>2, AppendProperties
    <3> QED
        BY <2>1, <3>3, <3>4 DEF HeldInv
  <2> QED
      BY <2>1, <2>2, <2>3 DEF HeldInv, HeldEntries
<1>5. CASE ReturnToSplit
  <2> DEFINE f == pending[Len(pending)]
  <2>1. /\ cur \notin HeldEntries /\ owner[cur] = 0 /\ cur \in Slot
        /\ f.block \in Slot /\ f.block \notin HeldEntries /\ owner[f.block] = 0
      BY <1>5, FrameTop DEF ReturnToSplit, HeldInv, WorkInv, WorkingPc, Entries
  <2>2. /\ held' = held /\ owner' = owner /\ cur' = f.block /\ pc' = "return"
      BY <1>5 DEF ReturnToSplit, client
  <2>3. /\ type'[f.block] = "USED"
        /\ \A x \in Slot : type'[x] \in {"USED", "META", "EMPTY", type[x]}
        /\ \A x \in Slot : x \notin {f.block, cur} /\ type[x] # "GARBAGE"
                             => type'[x] = type[x]
    <3>1. PICK look \in SUBSET FreshSlots(base[cur]) :
            type' = [s \in Slot |-> IF s = f.block THEN "USED"
                                    ELSE IF s = cur THEN "META"
                                    ELSE IF s \in look THEN "EMPTY" ELSE type[s]]
        BY <1>5 DEF ReturnToSplit
    <3> QED
        BY <2>1, <3>1 DEF FreshSlots
  <2>4. \A i \in DOMAIN pending' :
          pending'[i].block \notin HeldEntries /\ owner[pending'[i].block] = 0
    <3>1. /\ pending \in Seq(Frame) /\ DOMAIN pending = 1..Len(pending)
          /\ Len(pending) \in 1..Len(pending)
        BY <1>5, LenProperties, EmptySeq DEF TypeOK, ReturnToSplit
    <3>2. pending' = SubSeq(pending, 1, Len(pending) - 1)
        BY <1>5 DEF ReturnToSplit
    <3>3. \A i \in 1..(Len(pending) - 1) : pending[i] \in Frame
        BY <3>1, ElementOfSeq
    <3>4. /\ pending' \in Seq(Frame) /\ Len(pending') = Len(pending) - 1
          /\ \A i \in 1..(Len(pending) - 1) : pending'[i] = pending[i]
        BY <3>1, <3>2, <3>3, SubSeqProperties
    <3>5. DOMAIN pending' = 1..(Len(pending) - 1)
        BY <3>4, LenProperties
    <3> QED
        BY <3>1, <3>4, <3>5 DEF HeldInv
  <2>5. \A g \in held : type'[g.entry] = "USED"
      BY <1>g, <2>1, <2>3 DEF HeldInv, HeldEntries
  <2>6. \A x \in Slot : type'[x] = "FREE" => type[x] = "FREE"
      BY <2>3
  <2> QED
      BY <2>1, <2>2, <2>3, <2>4, <2>5, <2>6 DEF HeldInv, HeldEntries
<1>6. CASE ReturnToKernel
  <2>1. cur \notin HeldEntries /\ owner[cur] = 0 /\ type[cur] = "USED"
      BY <1>6 DEF ReturnToKernel, HeldInv, WorkingPc
  <2> DEFINE g == [entry |-> cur, base |-> base[cur],
                   len |-> IF caller.fn = "pmm_alloc" THEN caller.len
                           ELSE length[cur]]
  <2>2. g.entry = cur /\ held' = held \cup {g}
      BY <1>6 DEF ReturnToKernel
  <2>3. /\ type' = type /\ owner' = owner /\ pc' = "idle" /\ pending' = <<>>
        /\ pending = <<>>
      BY <1>6 DEF ReturnToKernel
  <2>4. \A h \in held : h.entry # cur
      BY <2>1 DEF HeldEntries
  <2> QED
      BY <2>1, <2>2, <2>3, <2>4 DEF HeldInv, WorkingPc
<1>7. CASE ReturnToHeap
  <2>1. cur \notin HeldEntries /\ type[cur] = "USED" /\ cur \in Slot
      BY <1>7 DEF ReturnToHeap, HeldInv, WorkInv, WorkingPc, Entries
  <2>2. /\ type' = type /\ held' = held /\ pending' = <<>> /\ pending = <<>>
        /\ \/ pc' = "idle"
           \/ pc' = "mergeNext" /\ cur' = cur
        /\ \A x \in Slot \ {cur} : owner'[x] = owner[x]
      BY <1>7 DEF ReturnToHeap, TypeOK
  <2>3. \A g \in held : owner'[g.entry] = 0 /\ type[g.entry] = "USED"
      BY <1>g, <2>1, <2>2 DEF HeldInv, HeldEntries
  <2>4. \A x \in Slot : type[x] = "FREE" => owner'[x] = 0
      BY <2>1, <2>2 DEF HeldInv
  <2> QED
      BY <2>1, <2>2, <2>3, <2>4 DEF HeldInv, HeldEntries, WorkingPc
<1>8. CASE MergeNext
  <2>1. CASE AbsorbsNext
    <3> DEFINE e == next[cur]
    <3>1. cur \in Slot /\ e \in Slot /\ cur \notin HeldEntries /\ pending = <<>>
        BY <1>8, <2>1, MergeNextShape
        DEF MergeNext, HeldInv, WorkInv, WorkingPc, Entries
    <3>2. e \notin HeldEntries
        BY <2>1, <3>1 DEF AbsorbsNext, Alike, HeldInv, HeldEntries
    <3>3. /\ type' = [type EXCEPT ![e] = "EMPTY"]
          /\ UNCHANGED <<pc, owner, cur, pending, held>>
        BY <1>8, <2>1 DEF MergeNext, Drop, client
    <3>4. \A x \in Slot : type'[x] = IF x = e THEN "EMPTY" ELSE type[x]
        BY <3>1, <3>3 DEF TypeOK
    <3>5. \A g \in held : type'[g.entry] = "USED" /\ owner[g.entry] = 0
        BY <1>g, <3>2, <3>4 DEF HeldInv, HeldEntries
    <3> QED
        BY <1>8, <3>1, <3>3, <3>4, <3>5 DEF HeldInv, HeldEntries, MergeNext
  <2>2. CASE ~AbsorbsNext
      BY <1>8, <2>2 DEF MergeNext, HeldInv, HeldEntries, WorkingPc, client
  <2> QED
      BY <2>1, <2>2
<1>9. CASE MergePrev
  <2>1. CASE AbsorbsPrev
    <3> DEFINE e == prev[cur]
    <3>1. cur \in Slot /\ e \in Slot /\ cur \notin HeldEntries /\ pending = <<>>
        BY <1>9, <2>1, MergePrevShape
        DEF MergePrev, HeldInv, WorkInv, WorkingPc, Entries
    <3>2. e \notin HeldEntries
        BY <2>1, <3>1 DEF AbsorbsPrev, Alike, HeldInv, HeldEntries
    <3>3. /\ type' = [type EXCEPT ![e] = "EMPTY"]
          /\ UNCHANGED <<pc, owner, cur, pending, held>>
        BY <1>9, <2>1 DEF MergePrev, Drop, client
    <3>4. \A x \in Slot : type'[x] = IF x = e THEN "EMPTY" ELSE type[x]
        BY <3>1, <3>3 DEF TypeOK
    <3>5. \A g \in held : type'[g.entry] = "USED" /\ owner[g.entry] = 0
        BY <1>g, <3>2, <3>4 DEF HeldInv, HeldEntries
    <3> QED
        BY <1>9, <3>1, <3>3, <3>4, <3>5 DEF HeldInv, HeldEntries, MergePrev
  <2>2. CASE ~AbsorbsPrev
      BY <1>9, <2>2 DEF MergePrev, HeldInv, HeldEntries, WorkingPc, client
  <2> QED
      BY <2>1, <2>2
<1>10. ASSUME NEW g \in held, pmm_free(g)
       PROVE  HeldInv'
  <2>1. /\ g.entry \in Slot /\ owner[g.entry] = 0
        /\ pending = <<>> /\ pending' = pending
      BY <1>10, <1>g DEF HeldInv, WorkInv, pmm_free, Calls
  <2>2. /\ type' = [type EXCEPT ![g.entry] = "FREE"] /\ owner' = owner
        /\ held' = held \ {g} /\ cur' = g.entry /\ pc' = "mergeNext"
      BY <1>10 DEF pmm_free
  <2>3. \A x \in Slot : type'[x] = IF x = g.entry THEN "FREE" ELSE type[x]
      BY <2>1, <2>2 DEF TypeOK
  <2>4. \A h \in held' : h.entry # g.entry
      BY <2>2 DEF HeldInv
  <2> QED
      BY <1>g, <2>1, <2>2, <2>3, <2>4 DEF HeldInv, HeldEntries
<1> QED
    BY <1>1, <1>2, <1>3, <1>4, <1>5, <1>6, <1>7, <1>8, <1>9, <1>10, NextCases

-----------------------------------------------------------------------------
(* The initial states.                                                     *)

LEMMA InitInv == Init => IInv
<1> SUFFICES ASSUME Init PROVE IInv
    OBVIOUS
<1>0. TypeOK
    BY InitType
<1> PICK t \in Tables : InitTable(t)
    BY DEF Init
<1> DEFINE k == Len(t.entries)
           E(i) == t.entries[i]
<1>t. /\ k \in Nat /\ k > 0
      /\ \A i \in 1..k : /\ E(i).type \in EntryType
                         /\ E(i).base \in Nat /\ E(i).length \in Nat \ {0}
      /\ \A i, j \in 1..k : i < j => E(i).base + E(i).length <= E(j).base
    BY TableFacts, PmmAssumption
<1>1. \A s \in Entries : /\ s \in Slot /\ s[1] = t.land
                         /\ s[2] \in 0..(k - 1) /\ s[2] + 1 \in 1..k
                         /\ s = <<t.land, s[2]>>
  <2>1. SUFFICES ASSUME NEW s \in Slot, type[s] \in EntryType
                 PROVE  /\ s[1] = t.land
                        /\ s[2] \in 0..(k - 1) /\ s[2] + 1 \in 1..k
                        /\ s = <<t.land, s[2]>>
      BY DEF Entries
  <2>2. Live(t, s)
      BY <2>1 DEF InitTable, EntryType
  <2>3. s[2] \in 0..(MaxCapacity - 1) /\ s = <<s[1], s[2]>>
      BY DEF Slot
  <2> QED
      BY <1>t, <2>2, <2>3, PmmAssumption DEF Live
<1>2. \A s \in Entries : base[s] = E(s[2] + 1).base /\ length[s] = E(s[2] + 1).length
    BY <1>1 DEF InitTable, Live, EntryOf
<1>3. SpanInv
  <2>1. \A s \in Entries : length[s] > 0
      BY <1>1, <1>2, <1>t
  <2>2. ASSUME NEW a \in Entries, NEW b \in Entries, a # b
        PROVE  \/ base[a] + length[a] <= base[b]
               \/ base[b] + length[b] <= base[a]
    <3>1. a[2] # b[2]
        BY <1>1, <2>2
    <3>2. a[2] + 1 < b[2] + 1 \/ b[2] + 1 < a[2] + 1
        BY <1>1, <3>1
    <3> QED
        BY <1>1, <1>2, <1>t, <3>2
  <2> QED
      BY <2>1, <2>2 DEF SpanInv, EntriesDisjoint
<1>4. ListSound
  <2>1. \A i \in 0..(k - 1) : <<t.land, i>> \in Slot /\ Live(t, <<t.land, i>>)
      BY TableFacts, PmmAssumption DEF Slot, Live
  <2>2. \A i \in 0..(k - 1) : <<t.land, i>> \in Entries
    <3>1. \A i \in 0..(k - 1) : type[<<t.land, i>>] = E(i + 1).type
        BY <2>1 DEF InitTable, EntryOf
    <3> QED
        BY <1>t, <2>1, <3>1 DEF Entries
  <2>3. ASSUME NEW s \in Entries, next[s] # NULL
        PROVE  /\ next[s] \in Entries /\ prev[next[s]] = s
               /\ base[s] + length[s] <= base[next[s]]
    <3> DEFINE n == <<t.land, s[2] + 1>>
    <3>1. s[2] + 1 < k /\ next[s] = n
        BY <1>1, <2>3 DEF InitTable
    <3>2. s[2] + 1 \in 0..(k - 1) /\ n \in Entries /\ Live(t, n)
        BY <1>1, <2>1, <2>2, <3>1, <1>t
    <3>3. prev[n] = <<t.land, s[2]>>
        BY <1>1, <2>1, <3>2 DEF InitTable
    <3>4. base[n] = E(s[2] + 2).base /\ s[2] + 2 \in 1..k
        BY <1>1, <1>2, <3>1, <3>2, <1>t
    <3>5. E(s[2] + 1).base + E(s[2] + 1).length <= E(s[2] + 2).base
        BY <1>1, <1>t, <3>4
    <3> QED
        BY <1>1, <1>2, <3>1, <3>2, <3>3, <3>4, <3>5
  <2>4. ASSUME NEW s \in Entries, prev[s] # NULL
        PROVE  prev[s] \in Entries /\ next[prev[s]] = s
    <3> DEFINE p == <<t.land, s[2] - 1>>
    <3>1. s[2] > 0 /\ prev[s] = p
        BY <1>1, <2>4 DEF InitTable
    <3>2. s[2] - 1 \in 0..(k - 1) /\ p \in Entries /\ Live(t, p)
        BY <1>1, <2>1, <2>2, <3>1, <1>t
    <3>3. next[p] = <<t.land, s[2]>>
        BY <1>1, <2>1, <3>2, <1>t DEF InitTable
    <3> QED
        BY <1>1, <3>1, <3>2, <3>3
  <2> QED
      BY <2>3, <2>4 DEF ListSound
<1>5. WorkInv /\ HeldInv
  <2>1. /\ pc = "idle" /\ pending = <<>> /\ held = {}
        /\ \A s \in Slot : owner[s] = 0
      BY DEF Init, InitTable
  <2> QED
      BY <2>1 DEF WorkInv, HeldInv, HeldEntries, WorkingPc
<1> QED
    BY <1>0, <1>3, <1>4, <1>5 DEF IInv

-----------------------------------------------------------------------------
(* The invariants.                                                         *)

\* The inductive invariant holds of every behaviour of the manager.
THEOREM InvHolds == Spec => []IInv
<1>1. Init => IInv
    BY InitInv
<1>2. IInv /\ [Next]_vars => IInv'
    BY TypeStep, WorkStep, SpanStep, LinkStep, HeldStep DEF IInv
<1> QED
    BY <1>1, <1>2, PTL DEF Spec

\* Every variable of the memory manager keeps to its type: a walk of the list
\* or of a table never leaves the slots.
THEOREM TypeCorrect == Spec => []TypeOK
<1>1. IInv => TypeOK
    BY DEF IInv
<1> QED
    BY <1>1, InvHolds, PTL

\* No two entries ever claim a page, whatever pmm_split and the merges did, and
\* however often a table was extended.
THEOREM EntriesNeverOverlap == Spec => []EntriesDisjoint
<1>1. IInv => EntriesDisjoint
    BY DEF IInv, SpanInv
<1> QED
    BY <1>1, InvHolds, PTL

\* The list of entries is doubly linked and in the order of addresses in every
\* state, in the middle of a call as well.
THEOREM ListAlwaysSound == Spec => []ListSound
<1>1. IInv => ListSound
    BY DEF IInv
<1> QED
    BY <1>1, InvHolds, PTL

-----------------------------------------------------------------------------
(* No call loses a page or makes one up.                                   *)

LEMMA PagesSplit ==
  ASSUME NEW b \in Nat, NEW m \in Nat, NEW n \in Nat
  PROVE  PagesOf(b, m + n) = PagesOf(b, m) \cup PagesOf(b + m, n)
BY DEF PagesOf

LEMMA CoverSame ==
  ASSUME Entries' = Entries, UNCHANGED <<base, length>>
  PROVE  Covered' = Covered
BY DEF Covered

LEMMA CoverInto ==
  ASSUME TypeOK, NEW b \in Slot, NEW s \in Slot, NEW n \in Nat \ {0},
         NEW t \in {"FREE", "USED"}, NEW r,
         type[b] = "FREE", type[s] = "EMPTY", ~(length[b] <= n),
         SplitInto(b, n, t, r, s)
  PROVE  Covered' = Covered
<1> DEFINE P(e) == PagesOf(base[e], length[e])
           Q(e) == PagesOf(base'[e], length'[e])
<1>1. b \in Entries /\ s \notin Entries /\ Entries' = Entries \cup {s}
    BY EntriesInto
<1>2. /\ base'[s] = base[b] + n /\ length'[s] = length[b] - n
      /\ base'[b] = base[b] /\ length'[b] = n
      /\ \A e \in Entries \ {b} : base'[e] = base[e] /\ length'[e] = length[e]
    BY <1>1 DEF TypeOK, SplitInto, LengthsAfterSplit, Entries
<1>3. P(b) = Q(b) \cup Q(s)
  <2>1. base[b] \in Nat /\ length[b] \in Nat
      BY DEF TypeOK
  <2>2. length[b] - n \in Nat /\ length[b] = n + (length[b] - n)
      BY <2>1
  <2>3. PagesOf(base[b], n + (length[b] - n))
          = PagesOf(base[b], n) \cup PagesOf(base[b] + n, length[b] - n)
      BY <2>1, <2>2, PagesSplit
  <2> QED
      BY <1>2, <2>2, <2>3
<1>4. \A e \in Entries \ {b} : P(e) = Q(e)
    BY <1>2
<1>5. UNION {Q(e) : e \in Entries \cup {s}} = UNION {P(e) : e \in Entries}
  <2> HIDE DEF P, Q
  <2> QED
      BY <1>1, <1>3, <1>4
<1> QED
    BY <1>1, <1>5 DEF Covered

LEMMA CoverMerge ==
  ASSUME TypeOK, NEW c \in Entries, NEW e \in Entries, c # e,
         Entries' = Entries \ {e},
         length' = [length EXCEPT ![c] = length[c] + length[e]],
         \/ base[c] + length[c] = base[e] /\ base' = base
         \/ base[e] + length[e] = base[c] /\ base' = [base EXCEPT ![c] = base[e]]
  PROVE  Covered' = Covered
<1> DEFINE P(x) == PagesOf(base[x], length[x])
           Q(x) == PagesOf(base'[x], length'[x])
<1>1. \A x \in Entries : base[x] \in Nat /\ length[x] \in Nat
    BY DEF TypeOK, Entries
<1>2. /\ length'[c] = length[c] + length[e]
      /\ \A x \in Entries \ {c, e} : base'[x] = base[x] /\ length'[x] = length[x]
      /\ \/ base[c] + length[c] = base[e] /\ base'[c] = base[c]
         \/ base[e] + length[e] = base[c] /\ base'[c] = base[e]
    BY DEF TypeOK, Entries
<1>3. Q(c) = P(c) \cup P(e)
  <2>1. length[c] + length[e] = length[e] + length[c]
      BY <1>1
  <2>2. CASE base[c] + length[c] = base[e] /\ base'[c] = base[c]
      BY <1>1, <1>2, <2>2, PagesSplit
  <2>3. CASE base[e] + length[e] = base[c] /\ base'[c] = base[e]
      BY <1>1, <1>2, <2>1, <2>3, PagesSplit
  <2> QED
      BY <1>2, <2>2, <2>3
<1>4. \A x \in Entries \ {c, e} : P(x) = Q(x)
    BY <1>2
<1>5. UNION {Q(x) : x \in Entries \ {e}} = UNION {P(x) : x \in Entries}
  <2> HIDE DEF P, Q
  <2> QED
      BY <1>3, <1>4
<1> QED
    BY <1>5 DEF Covered

LEMMA CoverStep ==
  ASSUME IInv, [Next]_vars
  PROVE  Covered' = Covered
<1> USE DEF IInv
<1>1. CASE UNCHANGED vars
    BY <1>1, CoverSame DEF Entries, vars
<1>2. CASE SplitStep
  <2>1. CASE HaltStep
      BY <2>1, CoverSame DEF HaltStep, Halt, Entries
  <2>2. ASSUME NEW b \in Slot, type[b] = "FREE", SplitWhole(b)
        PROVE  Covered' = Covered
      BY <2>2, EntriesWhole, CoverSame DEF SplitWhole
  <2> QED
      BY <1>2, <2>1, <2>2, SplitCases, CoverInto
<1>3. CASE HaltStep
    BY <1>3, CoverSame DEF HaltStep, Halt, Entries
<1>4. CASE AddResv
    BY <1>4, CoverSame DEF AddResv, Entries
<1>5. CASE ReturnToSplit
    BY <1>5, CoverSame, EntriesReturn DEF ReturnToSplit
<1>6. CASE ReturnToKernel
    BY <1>6, CoverSame DEF ReturnToKernel, Entries
<1>7. CASE ReturnToHeap
    BY <1>7, CoverSame DEF ReturnToHeap, Entries
<1>8. CASE MergeNext
  <2>1. CASE AbsorbsNext
      BY <1>8, <2>1, MergeNextShape, CoverMerge DEF MergeNext, AbsorbsNext, Adjoins
  <2>2. CASE ~AbsorbsNext
      BY <1>8, <2>2, CoverSame DEF MergeNext, Entries
  <2> QED
      BY <2>1, <2>2
<1>9. CASE MergePrev
  <2>1. CASE AbsorbsPrev
      BY <1>9, <2>1, MergePrevShape, CoverMerge DEF MergePrev, AbsorbsPrev, Adjoins
  <2>2. CASE ~AbsorbsPrev
      BY <1>9, <2>2, CoverSame DEF MergePrev, Entries
  <2> QED
      BY <2>1, <2>2
<1>10. ASSUME NEW g \in held, pmm_free(g)
       PROVE  Covered' = Covered
    BY <1>10, EntriesFree, CoverSame DEF pmm_free
<1> QED
    BY <1>1, <1>2, <1>3, <1>4, <1>5, <1>6, <1>7, <1>8, <1>9, <1>10, NextCases

\* The entries tile the same pages for ever: splits, merges and table
\* extensions neither lose a page nor claim a new one.
THEOREM NoPageLost == Spec => PagesConserved
<1>1. IInv /\ [Next]_vars => [Covered' = Covered]_vars
    BY CoverStep
<1> QED
    BY <1>1, InvHolds, PTL DEF Spec, PagesConserved

-----------------------------------------------------------------------------
(* Before the first extension of a table: the counter of the table, the    *)
(* room in it, the grants, the merging of free memory, and PageAllocator.  *)

-----------------------------------------------------------------------------
(* The steps there are before the first extension.                         *)

LEMMA IInvStep ==
  ASSUME IInv, [Next]_vars
  PROVE  IInv'
<1>1. TypeOK'
    BY TypeStep DEF IInv
<1>2. WorkInv' /\ SpanInv' /\ ListSound' /\ HeldInv'
    BY WorkStep, SpanStep, LinkStep, HeldStep
<1> QED
    BY <1>1, <1>2 DEF IInv

LEMMA ResvsKept ==
  ASSUME IInv, [Next]_vars, resvs' = 0
  PROVE  resvs = 0
<1>0. TypeOK
    BY DEF IInv
<1>t. resvs \in Nat
    BY <1>0, PmmAssumption DEF TypeOK, Resv
<1>1. CASE SplitStep
    BY <1>1, SplitCases DEF HaltStep, Halt, SplitWhole, SplitInto, resvars
<1>2. CASE AddResv
    BY <1>t, <1>2 DEF AddResv
<1>3. ASSUME NEW g \in held, pmm_free(g)
      PROVE  resvs = 0
    BY <1>3 DEF pmm_free, resvars
<1> QED
    BY <1>0, <1>t, <1>1, <1>2, <1>3, NextCases
    DEF vars, resvars, HaltStep, Halt, ReturnToSplit, ReturnToKernel, ReturnToHeap,
        MergeNext, MergePrev

\* A call of the kernel that splits a block.
CallSplit ==
  \E b \in FreeListed, n \in Nat \ {0}, t \in {"FREE", "USED"} :
    /\ pc = "idle"
    /\ pmm_split(b, n, t)
    /\ caller'.fn = "pmm_alloc" => n = caller'.len /\ length[b] >= n
    /\ ~HeapUp => t = "FREE"

\* A call that finds nothing it can use, and the kalloc of a reservation before
\* there is a heap.
CallFaults ==
  /\ pc \in {"idle", "addResv"}
  /\ pc = "addResv" => ~HeapUp
  /\ Halt("fault")

LEMMA TableCases ==
  ASSUME TypeOK, TableInv, [Next]_vars, resvs = 0, resvs' = 0
  PROVE  \/ UNCHANGED vars
         \/ CallSplit \/ CallFaults
         \/ ReturnToKernel \/ ReturnToHeap
         \/ MergeNext \/ MergePrev
         \/ \E g \in held : pmm_free(g)
<1>s. Sizes \subseteq Nat \ {0}
    BY PmmAssumption
<1>c. ASSUME NEW fn, NEW n, Calls(fn, n)
      PROVE  pc = "idle" /\ caller'.fn = fn /\ caller'.len = n
    BY <1>c DEF Calls
<1>1. ASSUME NEW n \in Sizes, pmm_alloc(n) PROVE CallSplit
  <2>1. PICK b \in FreeListed : BestFit(b, n) /\ pmm_split(b, n, "FREE")
      BY <1>1 DEF pmm_alloc
  <2> QED
      BY <1>1, <1>s, <1>c, <2>1 DEF pmm_alloc, BestFit, CallSplit
<1>2. ASSUME NEW n \in Sizes, pmm_allocMost(n) PROVE CallSplit
    BY <1>2, <1>s, <1>c DEF pmm_allocMost, CallSplit
<1>3. CASE InitKernelHeap
    BY <1>3, <1>c DEF InitKernelHeap, CallSplit, CallFaults
<1>4. ASSUME NEW a \in Page \cup {NULL}, NEW m \in Sizes, NEW n \in Sizes,
             HeapExpand(a, m, n)
      PROVE  CallSplit \/ CallFaults
    BY <1>4, <1>s, <1>c DEF HeapExpand, CallSplit, CallFaults
<1>5. CASE AddResvTooEarly
    BY <1>5 DEF AddResvTooEarly, CallFaults
<1>6. ~FillResv /\ ~ReturnToSplit /\ ~AddResv
    BY DEF TableInv, FillResv, ReturnToSplit, AddResv
<1> QED
    BY <1>1, <1>2, <1>3, <1>4, <1>5, <1>6 DEF Next, Continue

\* What a split does while there is one table.
LEMMA CallSplitCases ==
  ASSUME TypeOK, TableInv, CallSplit
  PROVE  \/ \E how \in {"fault", "panic"} :
              Halt(how) /\ (how = "panic" => Taking = {})
         \/ \E b \in Slot :
              /\ type[b] = "FREE" /\ SplitWhole(b)
              /\ caller'.fn = "pmm_alloc" => length[b] = caller'.len
         \/ \E b, s \in Slot, n \in Nat \ {0}, t \in {"FREE", "USED"} :
              /\ type[b] = "FREE" /\ s \in FirstEmpty(0) /\ 0 \in Taking
              /\ ~(length[b] <= n)
              /\ SplitInto(b, n, t, 0, s)
              /\ caller'.fn = "pmm_alloc" => n = caller'.len
              /\ ~HeapUp => t = "FREE"
<1> PICK b \in FreeListed, n \in Nat \ {0}, t \in {"FREE", "USED"} :
         /\ pmm_split(b, n, t)
         /\ caller'.fn = "pmm_alloc" => n = caller'.len /\ length[b] >= n
         /\ ~HeapUp => t = "FREE"
    BY DEF CallSplit
<1>1. b \in Slot /\ type[b] = "FREE" /\ length[b] \in Nat
    BY ListedFree DEF TypeOK
<1>2. CASE length[b] <= n
  <2>1. SplitWhole(b)
      BY <1>2 DEF pmm_split
  <2>2. caller'.fn = "pmm_alloc" => length[b] = n
      BY <1>1, <1>2
  <2> QED
      BY <1>1, <2>1, <2>2
<1>3. ASSUME ~(length[b] <= n), NEW r \in Chain, NEW s \in Slot, TakesFrom(r),
             s \in FirstEmpty(r), SplitInto(b, n, t, r, s)
      PROVE  r = 0 /\ 0 \in Taking
    BY <1>3 DEF Chain, TableInv, TakesFrom
<1>4. ASSUME ~(length[b] <= n)
      PROVE  \/ \E how \in {"fault", "panic"} :
                  Halt(how) /\ (how = "panic" => Taking = {})
             \/ \E s \in Slot : /\ s \in FirstEmpty(0) /\ 0 \in Taking
                                /\ SplitInto(b, n, t, 0, s)
    BY <1>3, <1>4 DEF pmm_split
<1> QED
    BY <1>1, <1>2, <1>4

-----------------------------------------------------------------------------
(* What the steps do to the entries.                                       *)

Same(e) == type'[e] = type[e] /\ base'[e] = base[e] /\ length'[e] = length[e]

LEMMA WholeShape ==
  ASSUME TypeOK, NEW b \in Slot, type[b] = "FREE", SplitWhole(b)
  PROVE  /\ b \in Entries /\ Entries' = Entries
         /\ type'[b] = "USED"
         /\ \A x \in Slot \ {b} : Same(x)
<1>1. type \in [Slot -> SlotType] /\ type' = [type EXCEPT ![b] = "USED"]
    BY DEF TypeOK, SplitWhole
<1> QED
    BY <1>1, EntriesWhole DEF SplitWhole, Same

LEMMA IntoShape ==
  ASSUME TypeOK, NEW b \in Slot, NEW s \in Slot, NEW n \in Nat \ {0},
         NEW t \in {"FREE", "USED"},
         type[b] = "FREE", s \in FirstEmpty(0), 0 \in Taking,
         SplitInto(b, n, t, 0, s)
  PROVE  /\ type[s] = "EMPTY" /\ s \in TableSlots(0)
         /\ b \in Entries /\ s \notin Entries /\ b # s /\ Entries' = Entries \cup {s}
         /\ type'[s] = "FREE"
         /\ type'[b] = IF pc' = "addResv" THEN t ELSE "USED"
         /\ base'[b] = base[b] /\ length'[b] = n
         /\ base'[s] = base[b] + n /\ length'[s] = length[b] - n
         /\ \A x \in Slot \ {b, s} : Same(x)
         /\ owner'[s] = 0 /\ \A x \in Slot \ {s} : owner'[x] = owner[x]
         /\ pc' \in {"addResv", "return"} /\ cur' = b
<1>1. type[s] = "EMPTY" /\ s \in TableSlots(0)
    BY DEF FirstEmpty, EmptySlots
<1>2. b \in Entries /\ s \notin Entries /\ b # s /\ Entries' = Entries \cup {s}
    BY <1>1, EntriesInto
<1>3. /\ type \in [Slot -> SlotType] /\ owner \in [Slot -> {0, HEAP}]
      /\ base \in [Slot -> Nat] /\ length \in [Slot -> Nat]
    BY DEF TypeOK
<1>4. /\ type' = [type EXCEPT ![s] = "FREE", ![b] = IF ResvToAdd THEN t ELSE "USED"]
      /\ pc' = IF ResvToAdd THEN "addResv" ELSE "return"
      /\ base' = [base EXCEPT ![s] = base[b] + n]
      /\ length' = [length EXCEPT ![s] = length[b] - n, ![b] = n]
      /\ owner' = [owner EXCEPT ![s] = 0]
      /\ cur' = b
    BY DEF SplitInto, LengthsAfterSplit
<1>5. /\ type'[s] = "FREE"
      /\ type'[b] = IF pc' = "addResv" THEN t ELSE "USED"
      /\ \A x \in Slot \ {b, s} : type'[x] = type[x]
    BY <1>2, <1>3, <1>4
<1>6. /\ base'[b] = base[b] /\ length'[b] = n
      /\ base'[s] = base[b] + n /\ length'[s] = length[b] - n
      /\ \A x \in Slot \ {b, s} : base'[x] = base[x] /\ length'[x] = length[x]
    BY <1>2, <1>3, <1>4
<1>7. owner'[s] = 0 /\ \A x \in Slot \ {s} : owner'[x] = owner[x]
    BY <1>3, <1>4
<1> QED
    BY <1>1, <1>2, <1>4, <1>5, <1>6, <1>7 DEF Same

\* The running merge absorbs the entry e.
Absorbs(e) ==
  \/ MergeNext /\ AbsorbsNext /\ e = next[cur]
  \/ MergePrev /\ AbsorbsPrev /\ e = prev[cur]

LEMMA AbsorbShape ==
  ASSUME IInv, NEW e, Absorbs(e)
  PROVE  /\ cur \in Entries /\ e \in Entries /\ e # cur
         /\ Entries' = Entries \ {e}
         /\ Alike(e, cur)
         /\ type'[e] = "EMPTY" /\ type'[cur] = type[cur]
         /\ length'[cur] = length[cur] + length[e]
         /\ \/ base[cur] + length[cur] = base[e] /\ base'[cur] = base[cur]
            \/ base[e] + length[e] = base[cur] /\ base'[cur] = base[e]
         /\ \A x \in Slot \ {cur, e} : Same(x)
         /\ numEntries' = [numEntries EXCEPT ![parent[e]] = @ - 1]
         /\ pc \in {"mergeNext", "mergePrev"}
         /\ UNCHANGED <<parent, owner, rentry, capacity, resvNext, resvs, pc, cur,
                        caller, pending, held, heapPages>>
<1>1. TypeOK /\ WorkInv /\ SpanInv /\ ListSound
    BY DEF IInv
<1>2. /\ type \in [Slot -> SlotType]
      /\ base \in [Slot -> Nat] /\ length \in [Slot -> Nat]
    BY <1>1 DEF TypeOK
<1>3. CASE MergeNext /\ AbsorbsNext /\ e = next[cur]
  <2>1. cur \in Entries /\ e \in Entries /\ e # cur /\ Entries' = Entries \ {e}
      BY <1>1, <1>3, MergeNextShape
  <2>2. cur \in Slot /\ e \in Slot
      BY <2>1 DEF Entries
  <2>3. /\ length' = [length EXCEPT ![cur] = @ + length[e]] /\ base' = base
        /\ type' = [type EXCEPT ![e] = "EMPTY"]
        /\ numEntries' = [numEntries EXCEPT ![parent[e]] = @ - 1]
      BY <1>3 DEF MergeNext, Drop
  <2>4. Alike(e, cur) /\ base[cur] + length[cur] = base[e]
      BY <1>3 DEF AbsorbsNext, Adjoins
  <2>5. /\ type'[e] = "EMPTY" /\ type'[cur] = type[cur]
        /\ \A x \in Slot \ {cur, e} : Same(x)
        /\ length'[cur] = length[cur] + length[e] /\ base'[cur] = base[cur]
      BY <1>2, <2>1, <2>2, <2>3 DEF Same
  <2> QED
      BY <1>3, <2>1, <2>3, <2>4, <2>5 DEF MergeNext, client
<1>4. CASE MergePrev /\ AbsorbsPrev /\ e = prev[cur]
  <2>1. cur \in Entries /\ e \in Entries /\ e # cur /\ Entries' = Entries \ {e}
      BY <1>1, <1>4, MergePrevShape
  <2>2. cur \in Slot /\ e \in Slot
      BY <2>1 DEF Entries
  <2>3. /\ length' = [length EXCEPT ![cur] = @ + length[e]]
        /\ base' = [base EXCEPT ![cur] = base[e]]
        /\ type' = [type EXCEPT ![e] = "EMPTY"]
        /\ numEntries' = [numEntries EXCEPT ![parent[e]] = @ - 1]
      BY <1>4 DEF MergePrev, Drop
  <2>4. Alike(e, cur) /\ base[e] + length[e] = base[cur]
      BY <1>4 DEF AbsorbsPrev, Adjoins
  <2>5. /\ type'[e] = "EMPTY" /\ type'[cur] = type[cur]
        /\ \A x \in Slot \ {cur, e} : Same(x)
        /\ length'[cur] = length[cur] + length[e] /\ base'[cur] = base[e]
      BY <1>2, <2>1, <2>2, <2>3 DEF Same
  <2> QED
      BY <1>4, <2>1, <2>3, <2>4, <2>5 DEF MergePrev, client
<1> QED
    BY <1>3, <1>4 DEF Absorbs

\* A merge that ends leaves the entries alone.
LEMMA MergeEnds ==
  ASSUME MergeNext \/ MergePrev
  PROVE  \/ \E e : Absorbs(e)
         \/ /\ \/ MergeNext /\ ~AbsorbsNext /\ pc' = "mergePrev" /\ cur' = cur
               \/ MergePrev /\ ~AbsorbsPrev /\ pc' = "idle" /\ cur' = NULL
            /\ Entries' = Entries
            /\ UNCHANGED <<type, base, length, prev, next, numEntries, parent, owner,
                           rentry, capacity, resvNext, resvs, pending, held, heapPages>>
<1>1. CASE MergeNext /\ AbsorbsNext
    BY <1>1 DEF Absorbs
<1>2. CASE MergePrev /\ AbsorbsPrev
    BY <1>2 DEF Absorbs
<1>3. CASE MergeNext /\ ~AbsorbsNext
    BY <1>3 DEF MergeNext, Entries, client
<1>4. CASE MergePrev /\ ~AbsorbsPrev
    BY <1>4 DEF MergePrev, Entries, client
<1> QED
    BY <1>1, <1>2, <1>3, <1>4

LEMMA FreeShape ==
  ASSUME TypeOK, HeldInv, NEW g \in held, pmm_free(g)
  PROVE  /\ g.entry \in Entries /\ Entries' = Entries
         /\ type[g.entry] = "USED" /\ owner[g.entry] = 0
         /\ type'[g.entry] = "FREE"
         /\ \A x \in Slot \ {g.entry} : Same(x)
         /\ pc = "idle" /\ pc' = "mergeNext" /\ cur' = g.entry
         /\ held' = held \ {g}
         /\ UNCHANGED <<base, length, prev, next, numEntries, parent, owner, rentry,
                        capacity, resvNext, resvs, pending, heapPages>>
<1>1. g.entry \in Slot /\ type[g.entry] = "USED" /\ owner[g.entry] = 0
    BY DEF TypeOK, Grant, HeldInv
<1>2. type \in [Slot -> SlotType] /\ type' = [type EXCEPT ![g.entry] = "FREE"]
    BY DEF TypeOK, pmm_free
<1> QED
    BY <1>1, <1>2, EntriesFree DEF pmm_free, Calls, Same, links, resvars

-----------------------------------------------------------------------------
(* The one table and its entry.                                            *)

LEMMA InitTableInv == Init => TableInv
<1> SUFFICES ASSUME Init PROVE TableInv
    OBVIOUS
<1> PICK t \in Tables : InitTable(t)
    BY DEF Init
<1> DEFINE m == <<t.land, t.meta - 1>>
<1>1. /\ t.land \in TableArea /\ t.meta \in 1..Len(t.entries)
      /\ Len(t.entries) \in Nat /\ Len(t.entries) <= MaxCapacity
    BY TableFacts, PmmAssumption
<1>2. t.entries[t.meta].base = t.land /\ t.entries[t.meta].type = "META"
    BY PmmAssumption DEF IsTable
<1>3. t.meta - 1 \in 0..(MaxCapacity - 1) /\ t.meta - 1 < Len(t.entries)
    BY <1>1, PmmAssumption
<1>4. m \in Slot /\ Live(t, m) /\ m[2] + 1 = t.meta
    BY <1>1, <1>3 DEF Slot, Live
<1>5. type[m] = "META" /\ base[m] = t.land /\ owner[m] = 0
    BY <1>2, <1>4 DEF InitTable, EntryOf
<1>6. rentry[0] = m /\ \A r \in Resv : rentry[r] # NULL => r = 0
    BY PmmAssumption DEF InitTable, Resv
<1>7. m \in Entries
    BY <1>4, <1>5 DEF Entries, EntryType
<1> QED
    BY <1>1, <1>5, <1>6, <1>7 DEF Init, TableInv, WorkingPc

LEMMA TableStep ==
  ASSUME IInv, TableInv, [Next]_vars, resvs = 0, resvs' = 0
  PROVE  TableInv'
<1>t. TypeOK /\ HeldInv /\ WorkInv
    BY DEF IInv
<1> DEFINE m == rentry[0]
<1>m. m \in Slot /\ m \in Entries /\ type[m] = "META"
    BY DEF TableInv, Entries
<1>1. CASE UNCHANGED vars
    BY <1>1 DEF TableInv, vars, resvars, Entries
<1>2. CASE CallSplit
  <2>1. ASSUME NEW how \in {"fault", "panic"}, Halt(how)
        PROVE  TableInv'
      BY <2>1 DEF Halt, TableInv, resvars, Entries, WorkingPc
  <2>2. ASSUME NEW b \in Slot, type[b] = "FREE", SplitWhole(b)
        PROVE  TableInv'
    <3>1. /\ b # m /\ Entries' = Entries /\ type'[b] = "USED"
          /\ \A x \in Slot \ {b} : Same(x)
        BY <1>t, <1>m, <2>2, WholeShape
    <3>2. type'[m] = "META" /\ base'[m] = base[m]
        BY <1>m, <3>1 DEF Same
    <3> QED
        BY <2>2, <3>1, <3>2 DEF TableInv, SplitWhole, resvars
  <2>3. ASSUME NEW b \in Slot, NEW s \in Slot, NEW n \in Nat \ {0},
               NEW t \in {"FREE", "USED"}, type[b] = "FREE", s \in FirstEmpty(0),
               0 \in Taking, SplitInto(b, n, t, 0, s)
        PROVE  TableInv'
    <3>1. /\ type[s] = "EMPTY" /\ Entries' = Entries \cup {s}
          /\ type'[b] \in {"FREE", "USED"}
          /\ \A x \in Slot \ {b, s} : Same(x)
          /\ \A x \in Slot \ {s} : owner'[x] = owner[x]
          /\ pc' \in {"addResv", "return"} /\ cur' = b
        BY <1>t, <2>3, IntoShape
    <3>2. type'[m] = "META" /\ base'[m] = base[m] /\ owner'[m] = owner[m]
        BY <1>m, <2>3, <3>1 DEF Same
    <3> QED
        BY <2>3, <3>1, <3>2 DEF TableInv, SplitInto
  <2> QED
      BY <1>2, <1>t, <2>1, <2>2, <2>3, CallSplitCases
<1>3. CASE CallFaults
    BY <1>3 DEF CallFaults, Halt, TableInv, resvars, Entries, WorkingPc
<1>4. CASE ReturnToKernel
    BY <1>4 DEF ReturnToKernel, TableInv, resvars, Entries, WorkingPc
<1>5. CASE ReturnToHeap
  <2>1. cur \in Slot /\ cur # m
      BY <1>5, <1>m, <1>t DEF ReturnToHeap, WorkInv, HeldInv, WorkingPc, Entries
  <2>2. owner'[m] = owner[m] /\ Entries' = Entries
      BY <1>5, <1>m, <1>t, <2>1 DEF ReturnToHeap, TypeOK, Entries
  <2> QED
      BY <1>5, <2>2 DEF ReturnToHeap, TableInv, resvars, WorkingPc
<1>6. CASE MergeNext \/ MergePrev
  <2>1. ASSUME NEW e, Absorbs(e)
        PROVE  TableInv'
    <3>1. /\ Alike(e, cur) /\ e \in Slot /\ cur \in Slot
          /\ Entries' = Entries \ {e} /\ type'[cur] = type[cur]
          /\ \A x \in Slot \ {cur, e} : Same(x)
          /\ pc \in {"mergeNext", "mergePrev"}
          /\ UNCHANGED <<owner, rentry, resvNext, pc, cur, pending>>
        BY <2>1, AbsorbShape DEF Entries
    <3>2. cur # m /\ e # m
        BY <3>1 DEF TableInv, WorkingPc, Alike
    <3>3. type'[m] = "META" /\ base'[m] = base[m] /\ m \in Entries'
        BY <1>m, <3>1, <3>2 DEF Same
    <3> QED
        BY <3>1, <3>3 DEF TableInv
  <2>2. CASE \A e : ~Absorbs(e)
    <3>1. /\ Entries' = Entries
          /\ \/ pc' = "mergePrev" /\ pc = "mergeNext" /\ cur' = cur
             \/ pc' = "idle"
          /\ UNCHANGED <<type, base, owner, rentry, resvNext, pending>>
        BY <1>6, <2>2, MergeEnds DEF MergeNext
    <3> QED
        BY <3>1 DEF TableInv, WorkingPc
  <2> QED
      BY <2>1, <2>2
<1>7. ASSUME NEW g \in held, pmm_free(g)
      PROVE  TableInv'
  <2>1. /\ Entries' = Entries /\ g.entry \in Slot
        /\ type[g.entry] = "USED" /\ type'[g.entry] = "FREE"
        /\ \A x \in Slot \ {g.entry} : Same(x)
        /\ pc' = "mergeNext" /\ cur' = g.entry
        /\ UNCHANGED <<owner, rentry, resvNext, pending>>
      BY <1>7, <1>t, FreeShape DEF Entries
  <2>2. type'[m] = "META" /\ base'[m] = base[m]
      BY <1>m, <2>1 DEF Same
  <2> QED
      BY <2>1, <2>2 DEF TableInv
<1> QED
    BY <1>t, <1>1, <1>2, <1>3, <1>4, <1>5, <1>6, <1>7, TableCases

-----------------------------------------------------------------------------
(* Grants keep what they were given.                                       *)

LEMMA InitGrantInv == Init => GrantInv
BY DEF Init, GrantInv

\* A page the heap has stays in an entry of the heap.
LEMMA HeapPagesSame ==
  ASSUME GrantInv, Entries \subseteq Entries', heapPages' = heapPages,
         \A e \in Entries : type[e] = "USED" /\ owner[e] = HEAP =>
           Same(e) /\ owner'[e] = owner[e]
  PROVE  \A p \in heapPages' : \E e \in Entries' :
           type'[e] = "USED" /\ owner'[e] = HEAP /\ p \in PagesOf(base'[e], length'[e])
<1> TAKE p \in heapPages'
<1>1. PICK e \in Entries :
        type[e] = "USED" /\ owner[e] = HEAP /\ p \in PagesOf(base[e], length[e])
    BY DEF GrantInv
<1>2. type'[e] = "USED" /\ owner'[e] = HEAP /\ p \in PagesOf(base'[e], length'[e])
    BY <1>1 DEF Same
<1> QED
    BY <1>2

LEMMA GrantAbsorb ==
  ASSUME IInv, TableInv, GrantInv, NEW e, Absorbs(e)
  PROVE  GrantInv'
<1>t. TypeOK /\ HeldInv
    BY DEF IInv
<1>a. /\ cur \in Entries /\ e \in Entries /\ e # cur /\ Entries' = Entries \ {e}
      /\ Alike(e, cur)
      /\ type'[cur] = type[cur] /\ length'[cur] = length[cur] + length[e]
      /\ \/ base[cur] + length[cur] = base[e] /\ base'[cur] = base[cur]
         \/ base[e] + length[e] = base[cur] /\ base'[cur] = base[e]
      /\ \A x \in Slot \ {cur, e} : Same(x)
      /\ pc \in {"mergeNext", "mergePrev"}
      /\ UNCHANGED <<owner, pc, held, heapPages>>
    BY AbsorbShape
<1>b. cur \in Slot /\ e \in Slot /\ type[cur] \in {"FREE", "USED"}
    BY <1>a DEF Entries, TableInv, WorkingPc
<1>1. \A g \in held : base'[g.entry] = g.base /\ length'[g.entry] = g.len
  <2> TAKE g \in held
  <2>1. g.entry \in Slot /\ g.entry # cur
      BY <1>a, <1>t DEF TypeOK, Grant, HeldInv, HeldEntries, WorkingPc
  <2>2. g.entry # e
      BY <1>a, <1>t DEF HeldInv, Alike
  <2> QED
      BY <1>a, <2>1, <2>2 DEF Same, GrantInv
<1>2. ASSUME NEW p \in heapPages
      PROVE  \E x \in Entries' :
               type'[x] = "USED" /\ owner'[x] = HEAP /\ p \in PagesOf(base'[x], length'[x])
  <2>1. PICK x \in Entries :
          type[x] = "USED" /\ owner[x] = HEAP /\ p \in PagesOf(base[x], length[x])
      BY DEF GrantInv
  <2>2. CASE x \notin {cur, e}
    <3>1. Same(x) /\ x \in Entries'
        BY <1>a, <2>2 DEF Entries
    <3> QED
        BY <1>a, <2>1, <3>1 DEF Same
  <2>3. CASE x \in {cur, e}
    <3>1. owner[cur] = HEAP /\ type[cur] = "USED"
        BY <1>a, <1>b, <1>t, <2>1, <2>3 DEF Alike, HeldInv, HEAP
    <3>2. p \in PagesOf(base'[cur], length'[cur])
      <4>1. /\ base[cur] \in Nat /\ length[cur] \in Nat
            /\ base[e] \in Nat /\ length[e] \in Nat
          BY <1>b, <1>t DEF TypeOK
      <4> QED
          BY <1>a, <2>1, <2>3, <4>1 DEF PagesOf
    <3>3. cur \in Entries' /\ owner'[cur] = HEAP /\ type'[cur] = "USED"
        BY <1>a, <3>1
    <3> QED
        BY <3>2, <3>3
  <2> QED
      BY <2>2, <2>3
<1> QED
    BY <1>a, <1>1, <1>2 DEF GrantInv

LEMMA GrantStep ==
  ASSUME IInv, TableInv, GrantInv, [Next]_vars, resvs = 0, resvs' = 0
  PROVE  GrantInv'
<1>t. TypeOK /\ HeldInv /\ WorkInv
    BY DEF IInv
<1>g. \A g \in held : g.entry \in Slot /\ type[g.entry] = "USED" /\ owner[g.entry] = 0
    BY <1>t DEF TypeOK, Grant, HeldInv
<1>1. CASE UNCHANGED vars
    BY <1>1 DEF GrantInv, vars, client, Entries, HeapUp
<1>2. CASE CallSplit
  <2>1. ASSUME NEW how \in {"fault", "panic"}, Halt(how)
        PROVE  GrantInv'
      BY <2>1 DEF Halt, GrantInv, client, Entries
  <2>2. ASSUME NEW b \in Slot, type[b] = "FREE", SplitWhole(b),
               caller'.fn = "pmm_alloc" => length[b] = caller'.len
        PROVE  GrantInv'
    <3>1. Entries' = Entries /\ \A x \in Slot \ {b} : Same(x)
        BY <1>t, <2>2, WholeShape
    <3>2. /\ pc' = "return" /\ cur' = b
          /\ UNCHANGED <<base, length, owner, held, heapPages>>
        BY <2>2 DEF SplitWhole, client
    <3>3. \A p \in heapPages' : \E e \in Entries' :
            type'[e] = "USED" /\ owner'[e] = HEAP /\ p \in PagesOf(base'[e], length'[e])
        BY <2>2, <3>1, <3>2, HeapPagesSame DEF Entries
    <3> QED
        BY <2>2, <3>2, <3>3 DEF GrantInv
  <2>3. ASSUME NEW b \in Slot, NEW s \in Slot, NEW n \in Nat \ {0},
               NEW t \in {"FREE", "USED"}, type[b] = "FREE", s \in FirstEmpty(0),
               0 \in Taking, SplitInto(b, n, t, 0, s),
               caller'.fn = "pmm_alloc" => n = caller'.len,
               ~HeapUp => t = "FREE"
        PROVE  GrantInv'
    <3>1. /\ type[s] = "EMPTY" /\ Entries' = Entries \cup {s}
          /\ type'[b] = IF pc' = "addResv" THEN t ELSE "USED"
          /\ length'[b] = n
          /\ \A x \in Slot \ {b, s} : Same(x)
          /\ \A x \in Slot \ {s} : owner'[x] = owner[x]
          /\ pc' \in {"addResv", "return"} /\ cur' = b
        BY <1>t, <2>3, IntoShape
    <3>2. held' = held /\ heapPages' = heapPages
        BY <2>3 DEF SplitInto, client
    <3>3. \A p \in heapPages' : \E e \in Entries' :
            type'[e] = "USED" /\ owner'[e] = HEAP /\ p \in PagesOf(base'[e], length'[e])
        BY <2>3, <3>1, <3>2, HeapPagesSame DEF Entries
    <3>4. \A g \in held' : base'[g.entry] = g.base /\ length'[g.entry] = g.len
        BY <1>g, <2>3, <3>1, <3>2 DEF GrantInv, Same
    <3> QED
        BY <2>3, <3>1, <3>2, <3>3, <3>4 DEF GrantInv, HeapUp
  <2> QED
      BY <1>2, <1>t, <2>1, <2>2, <2>3, CallSplitCases
<1>3. CASE CallFaults
    BY <1>3 DEF CallFaults, Halt, GrantInv, client, Entries
<1>4. CASE ReturnToKernel
  <2> DEFINE g == [entry |-> cur, base |-> base[cur],
                   len |-> IF caller.fn = "pmm_alloc" THEN caller.len
                           ELSE length[cur]]
  <2>1. held' = held \cup {g} /\ g.len = length[cur]
      BY <1>4 DEF ReturnToKernel, GrantInv
  <2>2. \A h \in held' : base[h.entry] = h.base /\ length[h.entry] = h.len
      BY <2>1 DEF GrantInv
  <2> QED
      BY <1>4, <2>2 DEF ReturnToKernel, GrantInv, Entries
<1>5. CASE ReturnToHeap
  <2>1. /\ cur \in Entries /\ cur \in Slot /\ type[cur] = "USED" /\ owner[cur] = 0
      BY <1>5, <1>t DEF ReturnToHeap, WorkInv, HeldInv, WorkingPc, Entries
  <2>2. /\ owner' = [owner EXCEPT ![cur] = HEAP] /\ Entries' = Entries
        /\ UNCHANGED <<type, base, length, held>>
        /\ heapPages' = heapPages \cup PagesOf(base[cur], length[cur])
        /\ pc' \in {"idle", "mergeNext"}
      BY <1>5 DEF ReturnToHeap, Entries
  <2>3. owner'[cur] = HEAP /\ \A x \in Slot \ {cur} : owner'[x] = owner[x]
      BY <1>t, <2>1, <2>2 DEF TypeOK
  <2>4. ASSUME NEW p \in heapPages'
        PROVE  \E e \in Entries : /\ type[e] = "USED" /\ owner'[e] = HEAP
                                  /\ p \in PagesOf(base[e], length[e])
    <3>1. CASE p \in heapPages
      <4>1. PICK e \in Entries : /\ type[e] = "USED" /\ owner[e] = HEAP
                                 /\ p \in PagesOf(base[e], length[e])
          BY <3>1 DEF GrantInv
      <4> QED
          BY <2>1, <2>3, <4>1 DEF Entries, HEAP
    <3>2. CASE p \in PagesOf(base[cur], length[cur])
        BY <2>1, <2>3, <3>2
    <3> QED
        BY <2>2, <2>4, <3>1, <3>2
  <2> QED
      BY <2>2, <2>4 DEF GrantInv
<1>6. CASE MergeNext \/ MergePrev
  <2>1. CASE \A e : ~Absorbs(e)
    <3>1. /\ Entries' = Entries /\ pc' \in {"mergePrev", "idle"}
          /\ UNCHANGED <<type, base, length, owner, held, heapPages>>
        BY <1>6, <2>1, MergeEnds
    <3> QED
        BY <3>1 DEF GrantInv
  <2> QED
      BY <2>1, GrantAbsorb
<1>7. ASSUME NEW g \in held, pmm_free(g)
      PROVE  GrantInv'
  <2>1. /\ Entries' = Entries /\ g.entry \in Slot /\ owner[g.entry] = 0
        /\ \A x \in Slot \ {g.entry} : Same(x)
        /\ pc' = "mergeNext" /\ held' = held \ {g}
        /\ UNCHANGED <<base, length, owner, heapPages>>
      BY <1>7, <1>t, FreeShape DEF Entries
  <2>2. \A p \in heapPages' : \E e \in Entries' :
          type'[e] = "USED" /\ owner'[e] = HEAP /\ p \in PagesOf(base'[e], length'[e])
      BY <2>1, HeapPagesSame DEF Entries, HEAP
  <2> QED
      BY <2>1, <2>2 DEF GrantInv
<1> QED
    BY <1>t, <1>1, <1>2, <1>3, <1>4, <1>5, <1>6, <1>7, TableCases

\* What the invariants say of grants, in the words of GrantsIntact.
LEMMA GrantsFollow ==
  ASSUME IInv, TableInv, GrantInv
  PROVE  GrantsIntact
<1>t. TypeOK /\ HeldInv /\ SpanInv
    BY DEF IInv
<1> DEFINE m == rentry[0]
<1>1. TablePages = PagesOf(base[m], length[m]) /\ m # NULL
  <2>1. m \in Slot /\ 0 \in Resv /\ NULL \notin Slot
      BY PmmAssumption DEF TableInv, Entries, Resv
  <2>2. {q \in Resv : rentry[q] # NULL} = {0}
      BY <2>1 DEF TableInv
  <2> QED
      BY <2>1, <2>2 DEF TablePages
<1>2. ASSUME NEW x \in Entries, NEW y \in Entries, x # y
      PROVE  PagesOf(base[x], length[x]) \cap PagesOf(base[y], length[y]) = {}
  <2>1. /\ base[x] \in Nat /\ length[x] \in Nat /\ base[y] \in Nat /\ length[y] \in Nat
      BY <1>t DEF TypeOK, Entries
  <2>2. base[x] + length[x] <= base[y] \/ base[y] + length[y] <= base[x]
      BY <1>2, <1>t DEF SpanInv, EntriesDisjoint
  <2> QED
      BY <2>1, <2>2 DEF PagesOf
<1>3. ASSUME NEW g \in held
      PROVE  /\ type[g.entry] = "USED" /\ base[g.entry] = g.base
             /\ length[g.entry] = g.len
             /\ PagesOf(g.base, g.len) \cap (heapPages \cup TablePages) = {}
  <2>1. /\ type[g.entry] = "USED" /\ owner[g.entry] = 0 /\ g.entry \in Entries
        /\ base[g.entry] = g.base /\ length[g.entry] = g.len
      BY <1>t DEF TypeOK, Grant, HeldInv, GrantInv, Entries, EntryType
  <2>2. PagesOf(g.base, g.len) \cap TablePages = {}
      BY <1>1, <1>2, <2>1 DEF TableInv
  <2>3. ASSUME NEW p \in heapPages
        PROVE  p \notin PagesOf(g.base, g.len)
    <3>1. PICK e \in Entries : owner[e] = HEAP /\ p \in PagesOf(base[e], length[e])
        BY DEF GrantInv
    <3> QED
        BY <1>2, <2>1, <3>1 DEF HEAP
  <2> QED
      BY <2>1, <2>2, <2>3
<1> QED
    BY <1>3 DEF GrantsIntact, GrantInv

\* Until a table is extended for the first time, a grant keeps its entry, its
\* address and exactly its length, the heap keeps its pages, and neither shares
\* a page with the other or with the table.
THEOREM GrantsStayIntact == Spec => [](resvs = 0 => GrantsIntact)
<1> DEFINE I == IInv /\ (resvs = 0 => TableInv /\ GrantInv)
<1>1. Init => I
    BY InitInv, InitTableInv, InitGrantInv
<1>2. I /\ [Next]_vars => I'
    BY IInvStep, ResvsKept, TableStep, GrantStep
<1>3. I => (resvs = 0 => GrantsIntact)
    BY GrantsFollow
<1> HIDE DEF I
<1> QED
    BY <1>1, <1>2, <1>3, PTL DEF Spec

-----------------------------------------------------------------------------
(* The counter of the table.                                               *)

LEMMA EntriesFinite == IsFiniteSet(Slot) /\ IsFiniteSet(Entries)
<1>1. IsFiniteSet(TableArea)
  <2>1. IsFiniteSet(Page)
      BY FS_Interval, PmmAssumption DEF Page
  <2>2. TableArea \in SUBSET Page
      BY PmmAssumption
  <2> QED
      BY <2>1, <2>2, FS_Subset
<1>2. IsFiniteSet(0..(MaxCapacity - 1))
    BY FS_Interval, PmmAssumption
<1>3. IsFiniteSet(Slot)
    BY <1>1, <1>2, FS_Product DEF Slot
<1> QED
    BY <1>3, FS_Subset DEF Entries

\* The entries setupMemoryMap leaves, slot by slot.
LEMMA InitEntries ==
  ASSUME NEW t \in Tables, InitTable(t)
  PROVE  LET k == Len(t.entries) IN
         /\ Entries = {<<t.land, i>> : i \in 0..(k - 1)}
         /\ \A i \in 0..(k - 1) :
              LET s == <<t.land, i>> IN
              /\ s \in Slot
              /\ type[s] = t.entries[i + 1].type
              /\ base[s] = t.entries[i + 1].base
              /\ length[s] = t.entries[i + 1].length
              /\ next[s] = IF i + 1 < k THEN <<t.land, i + 1>> ELSE NULL
<1> DEFINE k == Len(t.entries)
<1>1. /\ k \in Nat /\ k <= MaxCapacity /\ t.land \in TableArea
      /\ \A i \in 1..k : t.entries[i].type \in EntryType
    BY TableFacts, PmmAssumption
<1>2. ASSUME NEW i \in 0..(k - 1)
      PROVE  LET s == <<t.land, i>> IN
             /\ s \in Slot
             /\ type[s] = t.entries[i + 1].type
             /\ base[s] = t.entries[i + 1].base
             /\ length[s] = t.entries[i + 1].length
             /\ next[s] = IF i + 1 < k THEN <<t.land, i + 1>> ELSE NULL
  <2> DEFINE s == <<t.land, i>>
  <2>1. s \in Slot /\ Live(t, s) /\ s[1] = t.land /\ s[2] = i
      BY <1>1, PmmAssumption DEF Slot, Live
  <2> QED
      BY <2>1 DEF InitTable, EntryOf
<1>3. ASSUME NEW i \in 0..(k - 1)
      PROVE  <<t.land, i>> \in Entries
  <2>1. i + 1 \in 1..k
      BY <1>1
  <2> QED
      BY <1>1, <1>2, <2>1 DEF Entries
<1>4. ASSUME NEW s \in Entries
      PROVE  s[2] \in 0..(k - 1) /\ s = <<t.land, s[2]>>
  <2>1. Live(t, s) /\ s \in Slot
      BY DEF InitTable, Entries, EntryType
  <2>2. s[2] \in 0..(MaxCapacity - 1) /\ s = <<s[1], s[2]>>
      BY <2>1 DEF Slot
  <2> QED
      BY <1>1, <2>1, <2>2, PmmAssumption DEF Live
<1> QED
    BY <1>2, <1>3, <1>4

LEMMA InitCountInv == Init => CountInv
<1> SUFFICES ASSUME Init PROVE CountInv
    OBVIOUS
<1> PICK t \in Tables : InitTable(t)
    BY DEF Init
<1> DEFINE k == Len(t.entries)
           f == [i \in 1..k |-> <<t.land, i - 1>>]
<1>1. k \in Nat
    BY TableFacts, PmmAssumption
<1>2. Entries = {<<t.land, i>> : i \in 0..(k - 1)}
    BY InitEntries
<1>3. f \in Bijection(1..k, Entries)
  <2>1. f \in [1..k -> Entries]
      BY <1>1, <1>2
  <2>2. \A i, j \in 1..k : f[i] = f[j] => i = j
      BY <1>1
  <2>3. \A s \in Entries : \E i \in 1..k : f[i] = s
    <3> TAKE s \in Entries
    <3>1. PICK i \in 0..(k - 1) : s = <<t.land, i>>
        BY <1>2
    <3>2. i + 1 \in 1..k /\ f[i + 1] = s
        BY <1>1, <3>1
    <3> QED
        BY <3>2
  <2> QED
      BY <2>1, <2>2, <2>3 DEF Bijection, Injection, IsInjective, Surjection
<1>4. ExistsBijection(1..k, Entries)
    BY <1>3 DEF ExistsBijection
<1>5. IsFiniteSet(1..k) /\ Cardinality(1..k) = k
    BY <1>1, FS_Interval
<1>6. Cardinality(Entries) = k
    BY <1>4, <1>5, FS_Bijection
<1> QED
    BY <1>6, PmmAssumption DEF InitTable, CountInv, Resv

LEMMA CountStep ==
  ASSUME IInv, TableInv, CountInv, [Next]_vars, resvs = 0, resvs' = 0
  PROVE  CountInv'
<1>t. TypeOK /\ HeldInv /\ numEntries \in [Resv -> Int] /\ 0 \in Resv
    BY PmmAssumption DEF IInv, TypeOK, Resv
<1>f. IsFiniteSet(Entries) /\ Cardinality(Entries) \in Nat
    BY EntriesFinite, FS_CardinalityType
<1>1. CASE UNCHANGED vars
    BY <1>1 DEF CountInv, vars, resvars, Entries
<1>2. CASE CallSplit
  <2>1. ASSUME NEW how \in {"fault", "panic"}, Halt(how)
        PROVE  CountInv'
      BY <2>1 DEF Halt, CountInv, resvars, Entries
  <2>2. ASSUME NEW b \in Slot, type[b] = "FREE", SplitWhole(b)
        PROVE  CountInv'
      BY <1>t, <2>2, WholeShape DEF SplitWhole, CountInv, resvars
  <2>3. ASSUME NEW b \in Slot, NEW s \in Slot, NEW n \in Nat \ {0},
               NEW t \in {"FREE", "USED"}, type[b] = "FREE", s \in FirstEmpty(0),
               0 \in Taking, SplitInto(b, n, t, 0, s)
        PROVE  CountInv'
    <3>1. s \notin Entries /\ Entries' = Entries \cup {s}
        BY <1>t, <2>3, IntoShape
    <3>2. Cardinality(Entries') = Cardinality(Entries) + 1
        BY <1>f, <3>1, FS_AddElement
    <3>3. numEntries'[0] = numEntries[0] + 1
        BY <1>t, <2>3 DEF SplitInto
    <3>4. \A x \in Slot : parent'[x] = 0
        BY <2>3 DEF SplitInto, CountInv
    <3> QED
        BY <3>2, <3>3, <3>4 DEF CountInv
  <2> QED
      BY <1>2, <1>t, <2>1, <2>2, <2>3, CallSplitCases
<1>3. CASE CallFaults
    BY <1>3 DEF CallFaults, Halt, CountInv, resvars, Entries
<1>4. CASE ReturnToKernel
    BY <1>4 DEF ReturnToKernel, CountInv, resvars, Entries
<1>5. CASE ReturnToHeap
    BY <1>5 DEF ReturnToHeap, CountInv, resvars, Entries
<1>6. CASE MergeNext \/ MergePrev
  <2>1. ASSUME NEW e, Absorbs(e)
        PROVE  CountInv'
    <3>1. /\ e \in Entries /\ e \in Slot /\ Entries' = Entries \ {e} /\ parent' = parent
          /\ numEntries' = [numEntries EXCEPT ![parent[e]] = @ - 1]
        BY <2>1, AbsorbShape DEF Entries
    <3>2. Cardinality(Entries') = Cardinality(Entries) - 1
        BY <1>f, <3>1, FS_RemoveElement
    <3>3. numEntries'[0] = numEntries[0] - 1
        BY <1>t, <3>1 DEF CountInv
    <3> QED
        BY <3>1, <3>2, <3>3 DEF CountInv
  <2>2. CASE \A e : ~Absorbs(e)
      BY <1>6, <2>2, MergeEnds DEF CountInv
  <2> QED
      BY <2>1, <2>2
<1>7. ASSUME NEW g \in held, pmm_free(g)
      PROVE  CountInv'
    BY <1>t, <1>7, FreeShape DEF CountInv
<1> QED
    BY <1>t, <1>1, <1>2, <1>3, <1>4, <1>5, <1>6, <1>7, TableCases

\* Until a table is extended, the counter pmm_split trusts to find room is the
\* number of slots taken, through every split and merge.
THEOREM CounterExact == Spec => []SlotsCounted
<1> DEFINE I == IInv /\ (resvs = 0 => TableInv /\ CountInv)
<1>1. Init => I
    BY InitInv, InitTableInv, InitCountInv
<1>2. I /\ [Next]_vars => I'
    BY IInvStep, ResvsKept, TableStep, CountStep
<1>3. I => SlotsCounted
    BY DEF CountInv, SlotsCounted
<1> HIDE DEF I
<1> QED
    BY <1>1, <1>2, <1>3, PTL DEF Spec

-----------------------------------------------------------------------------
(* The room in the table.                                                  *)

\* The entry of the table is nobody's to change.
LEMMA TableStays ==
  ASSUME IInv, TableInv, [Next]_vars, resvs = 0, resvs' = 0
  PROVE  TableSlots(0)' = TableSlots(0) /\ capacity' = capacity
<1>t. TypeOK /\ HeldInv
    BY DEF IInv
<1> DEFINE m == rentry[0]
<1>m. m \in Slot /\ type[m] = "META"
    BY DEF TableInv, Entries
<1>1. rentry' = rentry /\ capacity' = capacity /\ base'[m] = base[m]
  <2>1. CASE UNCHANGED vars
      BY <2>1 DEF vars, resvars
  <2>2. CASE CallSplit
    <3>1. ASSUME NEW how \in {"fault", "panic"}, Halt(how)
          PROVE  rentry' = rentry /\ capacity' = capacity /\ base' = base
        BY <3>1 DEF Halt, resvars
    <3>2. ASSUME NEW b \in Slot, SplitWhole(b)
          PROVE  rentry' = rentry /\ capacity' = capacity /\ base' = base
        BY <3>2 DEF SplitWhole, resvars
    <3>3. ASSUME NEW b \in Slot, NEW s \in Slot, NEW n \in Nat \ {0},
                 NEW t \in {"FREE", "USED"}, type[b] = "FREE", s \in FirstEmpty(0),
                 0 \in Taking, SplitInto(b, n, t, 0, s)
          PROVE  rentry' = rentry /\ capacity' = capacity /\ base'[m] = base[m]
      <4>1. m # b /\ m # s /\ \A x \in Slot \ {b, s} : Same(x)
          BY <1>t, <1>m, <3>3, IntoShape
      <4> QED
          BY <1>m, <3>3, <4>1 DEF SplitInto, Same
    <3> QED
        BY <1>t, <2>2, <3>1, <3>2, <3>3, CallSplitCases
  <2>3. CASE CallFaults \/ ReturnToKernel \/ ReturnToHeap
      BY <2>3 DEF CallFaults, Halt, ReturnToKernel, ReturnToHeap, resvars
  <2>4. CASE MergeNext \/ MergePrev
    <3>1. ASSUME NEW e, Absorbs(e)
          PROVE  rentry' = rentry /\ capacity' = capacity /\ base'[m] = base[m]
      <4>1. /\ Alike(e, cur) /\ \A x \in Slot \ {cur, e} : Same(x)
            /\ pc \in {"mergeNext", "mergePrev"}
            /\ rentry' = rentry /\ capacity' = capacity
          BY <3>1, AbsorbShape
      <4>2. cur # m /\ e # m
          BY <4>1 DEF TableInv, WorkingPc, Alike
      <4> QED
          BY <1>m, <4>1, <4>2 DEF Same
    <3> QED
        BY <2>4, <3>1, MergeEnds
  <2>5. ASSUME NEW g \in held, pmm_free(g)
        PROVE  rentry' = rentry /\ capacity' = capacity /\ base' = base
      BY <1>t, <2>5, FreeShape
  <2> QED
      BY <1>t, <2>1, <2>2, <2>3, <2>4, <2>5, TableCases
<1> QED
    BY <1>1 DEF TableSlots

LEMMA InitRoomInv ==
  ASSUME RoomyTables
  PROVE  Init => RoomInv
<1> SUFFICES ASSUME Init PROVE RoomInv
    OBVIOUS
<1> PICK t \in Tables : InitTable(t)
    BY DEF Init
<1> DEFINE k == Len(t.entries)
<1>1. k \in Nat /\ k + 2 <= t.capacity /\ t.capacity \in Nat /\ pc = "idle"
    BY TableFacts, PmmAssumption DEF Init, RoomyTables, IsRoomy
<1>2. /\ numEntries[0] = k /\ capacity[0] = t.capacity
      /\ rentry[0] = <<t.land, t.meta - 1>>
    BY PmmAssumption DEF InitTable, Resv
<1>3. base[rentry[0]] = t.land
  <2>1. t.meta \in 1..k /\ t.entries[t.meta].base = t.land
      BY TableFacts, PmmAssumption DEF IsTable
  <2>2. t.meta - 1 \in 0..(k - 1) /\ t.meta - 1 + 1 = t.meta
      BY <1>1, <2>1
  <2> QED
      BY <1>2, <2>1, <2>2, InitEntries
<1>4. TableSlots(0) = {t.land} \X (0..(t.capacity - 1))
    BY <1>2, <1>3 DEF TableSlots
<1>5. Entries \subseteq TableSlots(0)
  <2>1. Entries = {<<t.land, i>> : i \in 0..(k - 1)}
      BY InitEntries
  <2> QED
      BY <1>1, <1>4, <2>1
<1>6. ASSUME NEW s \in Slot, s \in TableSlots(0)
      PROVE  type[s] \in EntryType \cup {"EMPTY"}
  <2>1. s[1] = t.land /\ s[2] < t.capacity
      BY <1>1, <1>4, <1>6
  <2>2. CASE Live(t, s)
    <3>1. s[2] + 1 \in 1..k
        BY <1>1, <2>2, SlotParts, PmmAssumption DEF Live
    <3>2. type[s] = t.entries[s[2] + 1].type
        BY <2>2 DEF InitTable, EntryOf
    <3> QED
        BY <3>1, <3>2, TableFacts
  <2>3. CASE ~Live(t, s)
      BY <2>1, <2>3 DEF InitTable
  <2> QED
      BY <2>2, <2>3
<1> QED
    BY <1>1, <1>2, <1>5, <1>6 DEF RoomInv

\* While the counter is below the capacity there is an empty slot.
LEMMA SlotLeft ==
  ASSUME TypeOK, TableInv, CountInv, RoomInv
  PROVE  EmptySlots(0) # {}
<1>1. /\ capacity[0] \in 0..MaxCapacity /\ base[rentry[0]] \in TableArea
      /\ numEntries[0] = Cardinality(Entries) /\ numEntries[0] + 1 <= capacity[0]
    BY PmmAssumption DEF TypeOK, TableInv, CountInv, RoomInv, Resv
<1>2. IsFiniteSet(Entries) /\ Cardinality(Entries) \in Nat
    BY EntriesFinite, FS_CardinalityType
<1> SUFFICES ASSUME EmptySlots(0) = {} PROVE FALSE
    OBVIOUS
<1>3. TableSlots(0) \subseteq Slot
    BY <1>1, PmmAssumption DEF TableSlots, Slot
<1>4. TableSlots(0) \subseteq Entries
    BY <1>3 DEF EmptySlots, RoomInv, Entries
<1>5. Cardinality(TableSlots(0)) = capacity[0]
  <2> DEFINE S == {base[rentry[0]]}
             T == 0..(capacity[0] - 1)
  <2>1. IsFiniteSet(S) /\ Cardinality(S) = 1
      BY FS_Singleton
  <2>2. IsFiniteSet(T) /\ Cardinality(T) = capacity[0]
    <3>1. capacity[0] \in Nat /\ capacity[0] > 0
        BY <1>1, <1>2, PmmAssumption
    <3>2. 0 \in Int /\ capacity[0] - 1 \in Int /\ ~(0 > capacity[0] - 1)
          /\ capacity[0] - 1 - 0 + 1 = capacity[0]
        BY <3>1
    <3>3. /\ IsFiniteSet(T)
          /\ Cardinality(T) = IF 0 > capacity[0] - 1 THEN 0 ELSE capacity[0] - 1 - 0 + 1
        BY <3>2, FS_Interval
    <3> QED
        BY <3>2, <3>3
  <2>3. Cardinality(S \X T) = 1 * capacity[0]
    <3> HIDE DEF S, T
    <3> QED
        BY <2>1, <2>2, FS_Product
  <2> QED
      BY <1>1, <2>3 DEF TableSlots
<1>6. Cardinality(TableSlots(0)) <= Cardinality(Entries)
    BY <1>2, <1>4, FS_Subset
<1> QED
    BY <1>1, <1>2, <1>5, <1>6

LEMMA RoomStep ==
  ASSUME IInv, TableInv, CountInv, RoomInv, [Next]_vars, resvs = 0, resvs' = 0
  PROVE  RoomInv'
<1>t. TypeOK /\ HeldInv /\ numEntries \in [Resv -> Int] /\ 0 \in Resv
    BY PmmAssumption DEF IInv, TypeOK, Resv
<1>n. numEntries[0] \in Int /\ capacity[0] \in Nat
    BY <1>t, PmmAssumption DEF TypeOK
<1>s. TableSlots(0)' = TableSlots(0) /\ capacity' = capacity
    BY TableStays
<1>1. CASE UNCHANGED vars
    BY <1>1, <1>s DEF RoomInv, vars, resvars, Entries
<1>2. CASE CallSplit
  <2>0. pc = "idle" /\ numEntries[0] + 2 <= capacity[0]
      BY <1>2 DEF CallSplit, RoomInv
  <2>1. ASSUME NEW how \in {"fault", "panic"}, Halt(how),
               how = "panic" => Taking = {}
        PROVE  RoomInv'
    <3>1. Taking # {}
      <4>1. EmptySlots(0) # {}
          BY <1>t, SlotLeft
      <4> QED
          BY <1>n, <2>0, <4>1 DEF Taking, Chain
    <3>2. how = "fault"
        BY <2>1, <3>1
    <3> QED
        BY <1>s, <2>1, <3>2 DEF Halt, RoomInv, resvars, Entries
  <2>2. ASSUME NEW b \in Slot, type[b] = "FREE", SplitWhole(b)
        PROVE  RoomInv'
    <3>1. /\ Entries' = Entries /\ b \in Slot /\ type'[b] = "USED"
          /\ \A x \in Slot \ {b} : type'[x] = type[x]
        BY <1>t, <2>2, WholeShape DEF Same
    <3> QED
        BY <1>s, <2>0, <2>2, <3>1 DEF SplitWhole, RoomInv, resvars, EntryType
  <2>3. ASSUME NEW b \in Slot, NEW s \in Slot, NEW n \in Nat \ {0},
               NEW t \in {"FREE", "USED"}, type[b] = "FREE", s \in FirstEmpty(0),
               0 \in Taking, SplitInto(b, n, t, 0, s)
        PROVE  RoomInv'
    <3>1. /\ s \in TableSlots(0) /\ Entries' = Entries \cup {s}
          /\ type'[s] = "FREE" /\ type'[b] \in {"FREE", "USED"}
          /\ \A x \in Slot \ {b, s} : type'[x] = type[x]
        BY <1>t, <2>3, IntoShape DEF Same
    <3>2. numEntries'[0] = numEntries[0] + 1
        BY <1>t, <2>3 DEF SplitInto
    <3>3. pc' \in {"addResv", "return"}
        BY <2>3 DEF SplitInto
    <3>4. pc' # "addResv" => numEntries[0] + 1 < capacity[0] - 1
      <4>1. pc' # "addResv" => ~NearlyFull
          BY <2>3 DEF SplitInto, ResvToAdd
      <4> QED
          BY <1>n, <2>3, <4>1 DEF NearlyFull
    <3>5. numEntries'[0] + 1 <= capacity'[0]
        BY <1>n, <1>s, <2>0, <3>2
    <3>6. pc' # "addResv" => numEntries'[0] + 2 <= capacity'[0]
        BY <1>n, <1>s, <3>2, <3>4
    <3>7. Entries' \subseteq TableSlots(0)'
        BY <1>s, <3>1 DEF RoomInv
    <3>8. \A x \in Slot : x \in TableSlots(0)' => type'[x] \in EntryType \cup {"EMPTY"}
        BY <1>s, <3>1 DEF RoomInv, EntryType
    <3> QED
        BY <3>3, <3>5, <3>6, <3>7, <3>8 DEF RoomInv
  <2> QED
      BY <1>2, <1>t, <2>1, <2>2, <2>3, CallSplitCases
<1>3. CASE CallFaults
    BY <1>3, <1>s DEF CallFaults, Halt, RoomInv, resvars, Entries
<1>4. CASE ReturnToKernel
    BY <1>4, <1>s DEF ReturnToKernel, RoomInv, resvars, Entries
<1>5. CASE ReturnToHeap
    BY <1>5, <1>s DEF ReturnToHeap, RoomInv, resvars, Entries
<1>6. CASE MergeNext \/ MergePrev
  <2>1. ASSUME NEW e, Absorbs(e)
        PROVE  RoomInv'
    <3>1. /\ e \in Entries /\ e \in Slot /\ Entries' = Entries \ {e}
          /\ type'[e] = "EMPTY"
          /\ \A x \in Slot \ {e} : type'[x] = type[x]
          /\ numEntries' = [numEntries EXCEPT ![parent[e]] = @ - 1]
          /\ pc' = pc /\ pc \in {"mergeNext", "mergePrev"}
        BY <2>1, AbsorbShape DEF Entries, Same
    <3>2. numEntries'[0] = numEntries[0] - 1
        BY <1>t, <3>1 DEF CountInv
    <3>3. numEntries'[0] + 2 <= capacity'[0]
        BY <1>n, <1>s, <3>1, <3>2 DEF RoomInv
    <3>4. numEntries'[0] + 1 <= capacity'[0]
        BY <1>n, <1>s, <3>2, <3>3
    <3>5. \A x \in Slot : x \in TableSlots(0)' => type'[x] \in EntryType \cup {"EMPTY"}
        BY <1>s, <3>1 DEF RoomInv
    <3> QED
        BY <1>s, <3>1, <3>3, <3>4, <3>5 DEF RoomInv
  <2>2. CASE \A e : ~Absorbs(e)
    <3>1. /\ Entries' = Entries /\ type' = type /\ numEntries' = numEntries
          /\ pc' \in {"mergePrev", "idle"} /\ pc \in {"mergePrev", "mergeNext"}
        BY <1>6, <2>2, MergeEnds DEF MergeNext, MergePrev
    <3> QED
        BY <1>s, <3>1 DEF RoomInv
  <2> QED
      BY <2>1, <2>2
<1>7. ASSUME NEW g \in held, pmm_free(g)
      PROVE  RoomInv'
  <2>1. /\ Entries' = Entries /\ numEntries' = numEntries
        /\ type'[g.entry] = "FREE"
        /\ \A x \in Slot \ {g.entry} : type'[x] = type[x]
        /\ pc = "idle" /\ pc' = "mergeNext"
      BY <1>t, <1>7, FreeShape DEF Same
  <2> QED
      BY <1>s, <2>1 DEF RoomInv, EntryType
<1> QED
    BY <1>t, <1>1, <1>2, <1>3, <1>4, <1>5, <1>6, <1>7, TableCases

\* When setupMemoryMap leaves room for the first split, every split finds a slot
\* and the one that calls for a new table still leaves one for the split inside
\* the nested pmm_allocMost: "No space for PMM entry!" is never reached there.
THEOREM RoomForTheNestedSplit ==
  ASSUME RoomyTables
  PROVE  Spec => []SlotLeftToExtend
<1> DEFINE I == IInv /\ (resvs = 0 => TableInv /\ CountInv /\ RoomInv)
<1>1. Init => I
    BY InitInv, InitTableInv, InitCountInv, InitRoomInv
<1>2. I /\ [Next]_vars => I'
    BY IInvStep, ResvsKept, TableStep, CountStep, RoomStep
<1>3. I => SlotLeftToExtend
    BY SlotLeft DEF IInv, RoomInv, SlotLeftToExtend
<1> HIDE DEF I
<1> QED
    BY <1>1, <1>2, <1>3, PTL DEF Spec

-----------------------------------------------------------------------------
(* Entries that touch are neighbours in the list, in every state.          *)

LEMMA TouchSame ==
  ASSUME TouchInv, Entries' = Entries, UNCHANGED <<base, length, next>>
  PROVE  TouchInv'
BY DEF TouchInv, Adjoins

LEMMA InitTouchInv == Init => TouchInv
<1> SUFFICES ASSUME Init, NEW a \in Entries, NEW b \in Entries, Adjoins(a, b)
             PROVE  next[a] = b
    BY DEF TouchInv
<1> PICK t \in Tables : InitTable(t)
    BY DEF Init
<1> DEFINE k == Len(t.entries)
           E(i) == t.entries[i]
<1>1. /\ k \in Nat
      /\ \A i \in 1..k : E(i).base \in Nat /\ E(i).length \in Nat \ {0}
      /\ \A i, j \in 1..k : i < j => E(i).base + E(i).length <= E(j).base
    BY TableFacts, PmmAssumption
<1>2. PICK i \in 0..(k - 1), j \in 0..(k - 1) : a = <<t.land, i>> /\ b = <<t.land, j>>
    BY InitEntries
<1>3. E(i + 1).base + E(i + 1).length = E(j + 1).base
    BY <1>2, InitEntries DEF Adjoins
<1>4. i + 1 \in 1..k /\ j + 1 \in 1..k
    BY <1>1
<1> DEFINE B(m) == E(m).base
           F(m) == E(m).base + E(m).length
<1>5. /\ \A m \in 1..k : B(m) \in Nat /\ F(m) \in Nat /\ B(m) < F(m)
      /\ \A m, n \in 1..k : m < n => F(m) <= B(n)
      /\ F(i + 1) = B(j + 1)
    BY <1>1, <1>3
<1> HIDE DEF B, F
<1>6. i < j /\ ~(i + 1 < j)
  <2>1. ~(j < i)
    <3>1. SUFFICES ASSUME j + 1 < i + 1 PROVE FALSE
        BY <1>1
    <3>2. F(j + 1) <= B(i + 1)
        BY <1>4, <1>5, <3>1
    <3> QED
        BY <1>4, <1>5, <3>2
  <2>2. i # j
    <3>1. B(i + 1) < F(i + 1)
        BY <1>4, <1>5
    <3> QED
        BY <1>4, <1>5, <3>1
  <2>3. ~(i + 1 < j)
    <3>1. SUFFICES ASSUME i + 1 < j PROVE FALSE
        OBVIOUS
    <3>2. i + 2 \in 1..k /\ i + 1 < i + 2 /\ i + 2 < j + 1
        BY <1>1, <3>1
    <3>3. F(i + 1) <= B(i + 2) /\ F(i + 2) <= B(j + 1) /\ B(i + 2) < F(i + 2)
        BY <1>4, <1>5, <3>2
    <3>4. /\ F(i + 1) \in Nat /\ B(i + 2) \in Nat /\ F(i + 2) \in Nat
        BY <1>4, <1>5, <3>2
    <3> QED
        BY <1>5, <3>3, <3>4
  <2> QED
      BY <1>1, <2>1, <2>2, <2>3
<1>7. j = i + 1
    BY <1>6
<1> QED
    BY <1>1, <1>2, <1>7, InitEntries

LEMMA TouchInto ==
  ASSUME TypeOK, SpanInv, TouchInv,
         NEW b \in Slot, NEW s \in Slot, NEW n \in Nat \ {0},
         NEW t \in {"FREE", "USED"}, NEW r,
         type[b] = "FREE", type[s] = "EMPTY", ~(length[b] <= n),
         SplitInto(b, n, t, r, s)
  PROVE  TouchInv'
<1>1. b \in Entries /\ s \notin Entries /\ Entries' = Entries \cup {s}
    BY EntriesInto
<1>2. \A e \in Entries : base[e] \in Nat /\ length[e] \in Nat /\ length[e] > 0
    BY DEF TypeOK, Entries, SpanInv
<1>3. /\ base'[s] = base[b] + n /\ length'[s] = length[b] - n
      /\ base'[b] = base[b] /\ length'[b] = n
      /\ \A e \in Entries \ {b} : base'[e] = base[e] /\ length'[e] = length[e]
    BY <1>1 DEF TypeOK, SplitInto, LengthsAfterSplit, Entries
<1>4. /\ next'[s] = next[b] /\ next'[b] = s
      /\ \A e \in Entries \ {b} : next'[e] = next[e]
    BY <1>1 DEF TypeOK, SplitInto, NextAfterSplit, Entries
<1>5. ASSUME NEW e \in Entries \ {b}
      PROVE  \/ base[e] + length[e] <= base[b]
             \/ base[b] + length[b] <= base[e]
    BY <1>1 DEF SpanInv, EntriesDisjoint
<1>6. SUFFICES ASSUME NEW x \in Entries', NEW y \in Entries',
                      base'[x] + length'[x] = base'[y]
               PROVE  next'[x] = y
    BY DEF TouchInv, Adjoins
<1>7. CASE x \in Entries \ {b} /\ y \in Entries
  <2>1. base[x] + length[x] = base[y]
      BY <1>3, <1>6, <1>7
  <2> QED
      BY <1>4, <1>7, <2>1 DEF TouchInv, Adjoins
<1>8. CASE x \in Entries \ {b} /\ y = s
    BY <1>1, <1>2, <1>3, <1>5, <1>6, <1>8
<1>9. CASE x = b
  <2>1. y # b
      BY <1>1, <1>2, <1>3, <1>6, <1>9
  <2>2. y \notin Entries \ {b}
      BY <1>1, <1>2, <1>3, <1>5, <1>6, <1>9
  <2> QED
      BY <1>1, <1>4, <1>9, <2>1, <2>2
<1>10. CASE x = s
  <2>1. base[b] + length[b] = base'[y]
      BY <1>1, <1>2, <1>3, <1>6, <1>10
  <2>2. y # s /\ y # b
      BY <1>1, <1>2, <1>3, <2>1
  <2>3. next[b] = y
      BY <1>1, <1>3, <2>1, <2>2 DEF TouchInv, Adjoins
  <2> QED
      BY <1>4, <1>10, <2>3
<1> QED
    BY <1>1, <1>7, <1>8, <1>9, <1>10

LEMMA TouchAbsorb ==
  ASSUME IInv, TouchInv, NEW e, Absorbs(e)
  PROVE  TouchInv'
<1>t. TypeOK /\ SpanInv /\ ListSound
    BY DEF IInv
<1>a. /\ cur \in Entries /\ e \in Entries /\ e # cur /\ Entries' = Entries \ {e}
      /\ length'[cur] = length[cur] + length[e]
      /\ \/ base[cur] + length[cur] = base[e] /\ base'[cur] = base[cur]
         \/ base[e] + length[e] = base[cur] /\ base'[cur] = base[e]
      /\ \A x \in Slot \ {cur, e} : Same(x)
    BY AbsorbShape
<1>b. /\ \A x \in Entries : x \in Slot /\ base[x] \in Nat /\ length[x] \in Nat
                            /\ length[x] > 0
      /\ next \in [Slot -> Ptr] /\ NULL \notin Slot
    BY <1>t, PmmAssumption DEF TypeOK, Entries, SpanInv
<1>c. \A x \in Entries' : x # cur => base'[x] = base[x] /\ length'[x] = length[x]
    BY <1>a, <1>b DEF Same
<1>1. SUFFICES ASSUME NEW x \in Entries', NEW y \in Entries',
                      base'[x] + length'[x] = base'[y]
               PROVE  next'[x] = y
    BY DEF TouchInv, Adjoins
<1>2. CASE MergeNext /\ AbsorbsNext /\ e = next[cur]
  <2>1. /\ next' = [next EXCEPT ![cur] = next[e]] /\ base' = base
        /\ base[cur] + length[cur] = base[e]
      BY <1>2 DEF MergeNext, AbsorbsNext, Adjoins
  <2>2. CASE x = cur
    <3>1. base[e] + length[e] = base[y]
        BY <1>a, <1>b, <1>1, <2>1, <2>2
    <3> QED
        BY <1>a, <1>b, <2>1, <2>2, <3>1 DEF TouchInv, Adjoins
  <2>3. CASE x # cur
    <3>1. base[x] + length[x] = base[y]
        BY <1>c, <1>1, <2>1, <2>3
    <3> QED
        BY <1>a, <1>b, <2>1, <2>3, <3>1 DEF TouchInv, Adjoins
  <2> QED
      BY <2>2, <2>3
<1>3. CASE MergePrev /\ AbsorbsPrev /\ e = prev[cur]
  <2>1. /\ next' = [p \in Slot |-> IF p = prev[e] THEN cur ELSE next[p]]
        /\ base' = [base EXCEPT ![cur] = base[e]]
        /\ base[e] + length[e] = base[cur]
      BY <1>3 DEF MergePrev, AbsorbsPrev, Adjoins
  <2>2. base'[cur] = base[e]
      BY <1>a, <1>b, <1>t, <2>1 DEF TypeOK
  <2>3. \A p \in Slot : p = prev[e] => next[p] = e
      BY <1>a, <1>b, <1>t DEF ListSound
  <2>4. CASE y = cur
    <3>1. x # cur
        BY <1>a, <1>b, <1>1, <2>2, <2>4
    <3>2. base[x] + length[x] = base[e]
        BY <1>a, <1>c, <1>1, <2>2, <2>4, <3>1
    <3>3. next[x] = e
        BY <1>a, <3>2 DEF TouchInv, Adjoins
    <3>4. prev[e] = x
        BY <1>a, <1>b, <1>t, <3>3 DEF ListSound
    <3> QED
        BY <1>a, <1>b, <2>1, <2>4, <3>4
  <2>5. CASE y # cur
    <3>1. base[x] + length[x] = base[y]
      <4>1. CASE x = cur
          BY <1>a, <1>b, <1>c, <1>1, <2>1, <2>2, <2>5, <4>1
      <4>2. CASE x # cur
          BY <1>c, <1>1, <2>5, <4>2
      <4> QED
          BY <4>1, <4>2
    <3>2. next[x] = y
        BY <1>a, <3>1 DEF TouchInv, Adjoins
    <3>3. x # prev[e]
        BY <1>a, <1>b, <2>3, <3>2
    <3> QED
        BY <1>a, <1>b, <2>1, <3>2, <3>3
  <2> QED
      BY <2>4, <2>5
<1> QED
    BY <1>2, <1>3 DEF Absorbs

LEMMA TouchStep ==
  ASSUME IInv, TouchInv, [Next]_vars
  PROVE  TouchInv'
<1>t. TypeOK /\ SpanInv /\ WorkInv /\ HeldInv
    BY DEF IInv
<1>1. CASE UNCHANGED vars
    BY <1>1, TouchSame DEF Entries, vars, links
<1>2. CASE SplitStep
  <2>1. CASE HaltStep
      BY <2>1, TouchSame DEF HaltStep, Halt, Entries, links
  <2>2. ASSUME NEW b \in Slot, type[b] = "FREE", SplitWhole(b)
        PROVE  TouchInv'
      BY <1>t, <2>2, EntriesWhole, TouchSame DEF SplitWhole, links
  <2> QED
      BY <1>2, <1>t, <2>1, <2>2, SplitCases, TouchInto
<1>3. CASE HaltStep
    BY <1>3, TouchSame DEF HaltStep, Halt, Entries, links
<1>4. CASE AddResv
    BY <1>4, TouchSame DEF AddResv, Entries, links
<1>5. CASE ReturnToSplit
    BY <1>5, <1>t, TouchSame, EntriesReturn DEF ReturnToSplit, links
<1>6. CASE ReturnToKernel \/ ReturnToHeap
    BY <1>6, TouchSame DEF ReturnToKernel, ReturnToHeap, Entries, links
<1>7. CASE MergeNext \/ MergePrev
    BY <1>7, MergeEnds, TouchAbsorb, TouchSame
<1>8. ASSUME NEW g \in held, pmm_free(g)
      PROVE  TouchInv'
    BY <1>8, <1>t, EntriesFree, TouchSame DEF pmm_free, links
<1> QED
    BY <1>t, <1>1, <1>2, <1>3, <1>4, <1>5, <1>6, <1>7, <1>8, NextCases

-----------------------------------------------------------------------------
(* Free memory that touches is merged.                                     *)

LEMMA InitMergeInv ==
  ASSUME MergedTables
  PROVE  Init => MergeInv
<1> SUFFICES ASSUME Init, NEW a \in Entries, NEW b \in Entries,
                    Adjoins(a, b), BothFree(a, b)
             PROVE  FALSE
    BY DEF MergeInv
<1> PICK t \in Tables : InitTable(t)
    BY DEF Init
<1> DEFINE k == Len(t.entries)
<1>1. PICK i \in 0..(k - 1), j \in 0..(k - 1) : a = <<t.land, i>> /\ b = <<t.land, j>>
    BY InitEntries
<1>2. i + 1 \in DOMAIN t.entries /\ j + 1 \in DOMAIN t.entries
  <2>1. k \in Nat /\ DOMAIN t.entries = 1..k
      BY PmmAssumption, LenProperties DEF IsTable
  <2> QED
      BY <1>1, <2>1
<1>3. /\ t.entries[i + 1].type = "FREE" /\ t.entries[j + 1].type = "FREE"
      /\ t.entries[i + 1].base + t.entries[i + 1].length = t.entries[j + 1].base
    BY <1>1, InitEntries DEF Adjoins, BothFree
<1> QED
    BY <1>2, <1>3 DEF MergedTables, IsMerged

LEMMA MergeInvInto ==
  ASSUME IInv, MergeInv, pc = "idle",
         NEW b \in Slot, NEW s \in Slot, NEW n \in Nat \ {0},
         NEW t \in {"FREE", "USED"}, type[b] = "FREE", s \in FirstEmpty(0),
         0 \in Taking, ~(length[b] <= n), SplitInto(b, n, t, 0, s)
  PROVE  MergeInv'
<1>t. TypeOK /\ SpanInv
    BY DEF IInv
<1>1. /\ b \in Entries /\ s \notin Entries /\ b # s /\ Entries' = Entries \cup {s}
      /\ type'[b] = IF pc' = "addResv" THEN t ELSE "USED"
      /\ base'[b] = base[b] /\ length'[b] = n
      /\ base'[s] = base[b] + n /\ length'[s] = length[b] - n
      /\ \A x \in Slot \ {b, s} : Same(x)
      /\ pc' \in {"addResv", "return"}
    BY <1>t, IntoShape
<1>2. \A x \in Entries : x \in Slot /\ base[x] \in Nat /\ length[x] \in Nat
                         /\ length[x] > 0
    BY <1>t DEF TypeOK, Entries, SpanInv
<1>3. SUFFICES ASSUME pc' = "return", NEW x \in Entries', NEW y \in Entries',
                      base'[x] + length'[x] = base'[y],
                      type'[x] = "FREE", type'[y] = "FREE"
               PROVE  FALSE
    BY <1>1 DEF MergeInv, Adjoins, BothFree
<1>4. x # b /\ y # b
    BY <1>1, <1>3
<1>5. CASE x # s /\ y # s
  <2>1. Same(x) /\ Same(y) /\ x \in Entries /\ y \in Entries
      BY <1>1, <1>2, <1>4, <1>5
  <2> QED
      BY <1>3, <2>1 DEF MergeInv, Adjoins, BothFree, Same
<1>6. CASE x # s /\ y = s
  <2>1. Same(x) /\ x \in Entries
      BY <1>1, <1>2, <1>4, <1>6
  <2>2. base[x] + length[x] <= base[b] \/ base[b] + length[b] <= base[x]
      BY <1>t, <1>1, <1>4, <2>1 DEF SpanInv, EntriesDisjoint
  <2> QED
      BY <1>1, <1>2, <1>3, <1>6, <2>1, <2>2 DEF Same
<1>7. CASE x = s /\ y # s
  <2>1. Same(y) /\ y \in Entries
      BY <1>1, <1>2, <1>4, <1>7
  <2>2. base[b] + length[b] = base[y] /\ type[y] = "FREE"
      BY <1>1, <1>2, <1>3, <1>7, <2>1 DEF Same
  <2> QED
      BY <1>1, <2>1, <2>2 DEF MergeInv, Adjoins, BothFree
<1>8. CASE x = s /\ y = s
    BY <1>1, <1>2, <1>3, <1>8
<1> QED
    BY <1>5, <1>6, <1>7, <1>8

LEMMA MergeInvAbsorb ==
  ASSUME IInv, MergeInv, NEW e, Absorbs(e)
  PROVE  MergeInv'
<1>t. TypeOK /\ SpanInv
    BY DEF IInv
<1>a. /\ cur \in Entries /\ e \in Entries /\ e # cur /\ Entries' = Entries \ {e}
      /\ type'[cur] = type[cur]
      /\ length'[cur] = length[cur] + length[e]
      /\ \/ base[cur] + length[cur] = base[e] /\ base'[cur] = base[cur]
         \/ base[e] + length[e] = base[cur] /\ base'[cur] = base[e]
      /\ \A x \in Slot \ {cur, e} : Same(x)
      /\ pc \in {"mergeNext", "mergePrev"} /\ pc' = pc /\ cur' = cur
    BY AbsorbShape
<1>b. \A x \in Entries : x \in Slot /\ base[x] \in Nat /\ length[x] \in Nat
                         /\ length[x] > 0
    BY <1>t DEF TypeOK, Entries, SpanInv
<1>1. SUFFICES ASSUME NEW x \in Entries', NEW y \in Entries',
                      base'[x] + length'[x] = base'[y],
                      type'[x] = "FREE", type'[y] = "FREE"
               PROVE  /\ pc = "mergeNext" => cur \in {x, y}
                      /\ pc = "mergePrev" => cur = y
    BY <1>a DEF MergeInv, Adjoins, BothFree
<1>2. CASE x # cur /\ y # cur
  <2>1. Same(x) /\ Same(y) /\ x \in Entries /\ y \in Entries
      BY <1>a, <1>b, <1>2
  <2> QED
      BY <1>1, <2>1 DEF MergeInv, Adjoins, BothFree, Same
<1>3. CASE x = cur /\ pc = "mergePrev"
  <2>1. base'[cur] + length'[cur] = base[cur] + length[cur]
      BY <1>3, <1>a, <1>b DEF Absorbs, MergeNext, AbsorbsPrev, Adjoins
  <2>2. y # cur
      BY <1>a, <1>b, <1>1, <1>3
  <2>3. Same(y) /\ y \in Entries
      BY <1>a, <1>b, <2>2
  <2>4. base[cur] + length[cur] = base[y] /\ type[cur] = "FREE" /\ type[y] = "FREE"
      BY <1>a, <1>1, <1>3, <2>1, <2>3 DEF Same
  <2> QED
      BY <1>a, <1>3, <2>2, <2>3, <2>4 DEF MergeInv, Adjoins, BothFree
<1> QED
    BY <1>a, <1>2, <1>3

LEMMA MergeInvEnds ==
  ASSUME IInv, TouchInv, MergeInv, MergeNext \/ MergePrev, \A e : ~Absorbs(e)
  PROVE  MergeInv'
<1>t. TypeOK /\ ListSound /\ NULL \notin Slot
    BY PmmAssumption DEF IInv
<1>1. /\ \/ MergeNext /\ ~AbsorbsNext /\ pc' = "mergePrev" /\ cur' = cur
         \/ MergePrev /\ ~AbsorbsPrev /\ pc' = "idle"
      /\ Entries' = Entries /\ UNCHANGED <<type, base, length>>
    BY MergeEnds
<1>2. SUFFICES ASSUME NEW x \in Entries, NEW y \in Entries,
                      Adjoins(x, y), BothFree(x, y)
               PROVE  pc' = "mergePrev" /\ cur = y
    BY <1>1 DEF MergeInv, Adjoins, BothFree
<1>3. next[x] = y /\ x \in Slot /\ y \in Slot
    BY <1>2 DEF TouchInv, Entries
<1>4. CASE MergeNext /\ ~AbsorbsNext /\ pc' = "mergePrev"
  <2>1. pc = "mergeNext" /\ cur \in {x, y}
      BY <1>2, <1>4 DEF MergeInv, MergeNext
  <2>2. cur # x
      BY <1>2, <1>3, <1>4, <1>t DEF AbsorbsNext, Alike, BothFree
  <2> QED
      BY <1>4, <2>1, <2>2
<1>5. CASE MergePrev /\ ~AbsorbsPrev
  <2>1. cur = y
      BY <1>2, <1>5 DEF MergeInv, MergePrev
  <2>2. prev[y] = x
      BY <1>2, <1>3, <1>t DEF ListSound
  <2> QED
      BY <1>2, <1>3, <1>5, <1>t, <2>1, <2>2 DEF AbsorbsPrev, Alike, BothFree
<1> QED
    BY <1>1, <1>4, <1>5

LEMMA MergeInvStep ==
  ASSUME IInv, TouchInv, TableInv, MergeInv, [Next]_vars, resvs = 0, resvs' = 0
  PROVE  MergeInv'
<1>t. TypeOK /\ HeldInv
    BY DEF IInv
<1>1. CASE UNCHANGED vars
    BY <1>1 DEF MergeInv, vars, Entries, Adjoins, BothFree
<1>2. CASE CallSplit
  <2>0. pc = "idle"
      BY <1>2 DEF CallSplit
  <2>1. ASSUME NEW how \in {"fault", "panic"}, Halt(how)
        PROVE  MergeInv'
      BY <2>1, <2>0 DEF Halt, MergeInv, Entries, Adjoins, BothFree
  <2>2. ASSUME NEW b \in Slot, type[b] = "FREE", SplitWhole(b)
        PROVE  MergeInv'
    <3>1. /\ Entries' = Entries /\ type'[b] = "USED"
          /\ \A x \in Slot \ {b} : type'[x] = type[x]
        BY <1>t, <2>2, WholeShape DEF Same
    <3>2. base' = base /\ length' = length
        BY <2>2 DEF SplitWhole
    <3> QED
        BY <2>0, <3>1, <3>2 DEF MergeInv, Entries, Adjoins, BothFree
  <2> QED
      BY <1>2, <1>t, <2>0, <2>1, <2>2, CallSplitCases, MergeInvInto
<1>3. CASE CallFaults
    BY <1>3 DEF CallFaults, Halt, MergeInv, Entries, Adjoins, BothFree
<1>4. CASE ReturnToKernel \/ ReturnToHeap
  <2>1. pc = "return" /\ Entries' = Entries /\ UNCHANGED <<type, base, length>>
      BY <1>4 DEF ReturnToKernel, ReturnToHeap, Entries
  <2> QED
      BY <2>1 DEF MergeInv, Adjoins, BothFree
<1>5. CASE MergeNext \/ MergePrev
    BY <1>5, MergeInvAbsorb, MergeInvEnds
<1>6. ASSUME NEW g \in held, pmm_free(g)
      PROVE  MergeInv'
  <2>1. /\ Entries' = Entries /\ UNCHANGED <<base, length>>
        /\ \A x \in Slot \ {g.entry} : type'[x] = type[x]
        /\ pc = "idle" /\ pc' = "mergeNext" /\ cur' = g.entry
      BY <1>t, <1>6, FreeShape DEF Same
  <2> QED
      BY <2>1 DEF MergeInv, Entries, Adjoins, BothFree
<1> QED
    BY <1>t, <1>1, <1>2, <1>3, <1>4, <1>5, <1>6, TableCases

\* When the table setupMemoryMap leaves has no two free neighbours, and until it
\* is extended, no two free neighbours are left apart when a call has returned:
\* one pass of each merge loop is enough.
THEOREM FreeStaysMerged ==
  ASSUME MergedTables
  PROVE  Spec => [](resvs = 0 => FreeMerged)
<1> DEFINE I == IInv /\ TouchInv /\ (resvs = 0 => TableInv /\ MergeInv)
<1>1. Init => I
    BY InitInv, InitTouchInv, InitTableInv, InitMergeInv
<1>2. I /\ [Next]_vars => I'
    BY IInvStep, TouchStep, ResvsKept, TableStep, MergeInvStep
<1>3. I => (resvs = 0 => FreeMerged)
    BY ListedFree DEF MergeInv, FreeMerged, Adjoins, BothFree
<1> HIDE DEF I
<1> QED
    BY <1>1, <1>2, <1>3, PTL DEF Spec

-----------------------------------------------------------------------------
(* The refinement of PageAllocator: every step hands out a run of free     *)
(* pages, takes one back, gives one to the heap, or leaves the pages where *)
(* they are.                                                               *)

Pages(e) == PagesOf(base[e], length[e])

\* The entries whose pages can still be handed out.
Spare == FreeEntries \cup InFlight

avars == <<UsablePages, GrantedRuns, heapPages>>

LEMMA EntryPages ==
  ASSUME TypeOK, SpanInv
  PROVE  /\ \A e \in Entries : /\ e \in Slot /\ Pages(e) # {}
                               /\ base[e] \in Pages(e)
                               /\ base[e] + length[e] - 1 \in Pages(e)
         /\ \A x, y \in Entries : x # y => Pages(x) \cap Pages(y) = {}
<1>1. \A e \in Entries : /\ e \in Slot /\ base[e] \in Nat /\ length[e] \in Nat
                         /\ length[e] > 0
    BY DEF TypeOK, SpanInv, Entries
<1>2. ASSUME NEW e \in Entries
      PROVE  base[e] \in Pages(e) /\ base[e] + length[e] - 1 \in Pages(e)
    BY <1>1 DEF Pages, PagesOf
<1>3. ASSUME NEW x \in Entries, NEW y \in Entries, x # y
      PROVE  Pages(x) \cap Pages(y) = {}
  <2>1. base[x] + length[x] <= base[y] \/ base[y] + length[y] <= base[x]
      BY <1>3 DEF SpanInv, EntriesDisjoint
  <2> QED
      BY <1>1, <2>1 DEF Pages, PagesOf
<1> QED
    BY <1>1, <1>2, <1>3

\* A grant has the pages of its entry, and no other grant has one of them.
LEMMA GrantPages ==
  ASSUME IInv, GrantInv
  PROVE  /\ \A g \in held : /\ g.entry \in Entries /\ type[g.entry] = "USED"
                            /\ owner[g.entry] = 0
                            /\ PagesOf(g.base, g.len) = Pages(g.entry)
         /\ \A g, h \in held : PagesOf(g.base, g.len) = PagesOf(h.base, h.len)
                                 => g = h
<1>t. TypeOK /\ HeldInv /\ SpanInv
    BY DEF IInv
<1>1. \A g \in held : /\ g.entry \in Entries /\ type[g.entry] = "USED"
                      /\ owner[g.entry] = 0
                      /\ PagesOf(g.base, g.len) = Pages(g.entry)
    BY <1>t DEF TypeOK, Grant, HeldInv, GrantInv, Entries, EntryType, Pages
<1>2. ASSUME NEW g \in held, NEW h \in held,
             PagesOf(g.base, g.len) = PagesOf(h.base, h.len)
      PROVE  g = h
  <2>1. Pages(g.entry) = Pages(h.entry) /\ Pages(g.entry) # {}
      BY <1>1, <1>2, <1>t, EntryPages
  <2>2. g.entry = h.entry
      BY <1>1, <1>t, <2>1, EntryPages
  <2> QED
      BY <1>t, <2>2 DEF HeldInv
<1> QED
    BY <1>1, <1>2

\* The pages of an entry that is neither granted nor the heap's can be granted.
LEMMA RunIsFree ==
  ASSUME IInv, GrantInv, NEW c \in Entries, c \in Spare,
         c \notin HeldEntries, owner[c] = 0
  PROVE  Pages(c) \in Allocator!FreeRuns
<1>t. TypeOK /\ SpanInv
    BY DEF IInv
<1> DEFINE first == base[c]
           last == base[c] + length[c] - 1
<1>1. Pages(c) \subseteq UsablePages
    BY DEF UsablePages, Spare, Pages
<1>2. /\ first \in UsablePages /\ last \in UsablePages
      /\ Pages(c) # {} /\ Pages(c) = first..last
    BY <1>t, <1>1, EntryPages DEF Pages, PagesOf
<1>3. ASSUME NEW g \in held
      PROVE  Pages(c) \cap PagesOf(g.base, g.len) = {}
    BY <1>t, GrantPages, EntryPages DEF HeldEntries
<1>4. ASSUME NEW p \in heapPages
      PROVE  p \notin Pages(c)
  <2>1. PICK e \in Entries : owner[e] = HEAP /\ p \in Pages(e)
      BY DEF GrantInv, Pages
  <2> QED
      BY <1>t, <2>1, EntryPages DEF HEAP
<1>5. Pages(c) \cap Allocator!Taken = {}
  <2>1. ASSUME NEW p \in Pages(c), p \in UNION GrantedRuns
        PROVE  FALSE
    <3>1. PICK g \in held : p \in PagesOf(g.base, g.len)
        BY <2>1 DEF GrantedRuns
    <3> QED
        BY <1>3, <3>1
  <2> QED
      BY <1>4, <2>1 DEF Allocator!Taken
<1> QED
    BY <1>1, <1>2, <1>5 DEF Allocator!FreeRuns

\* The pages there are to hand out, when the clients have not changed.
LEMMA UsableSame ==
  ASSUME held' = held, heapPages' = heapPages,
         UNION {Pages(e) : e \in Spare}' = UNION {Pages(e) : e \in Spare}
  PROVE  UNCHANGED avars
BY DEF avars, UsablePages, GrantedRuns, Spare, Pages

LEMMA SpareSame ==
  ASSUME Spare' = Spare, \A e \in Spare : base'[e] = base[e] /\ length'[e] = length[e]
  PROVE  UNION {Pages(e) : e \in Spare}' = UNION {Pages(e) : e \in Spare}
BY DEF Pages

\* A split gives no page away: the block and what is cut off it stay spare.
LEMMA SplitKeeps ==
  ASSUME IInv, TableInv, CallSplit
  PROVE  UNCHANGED avars
<1>t. TypeOK
    BY DEF IInv
<1>0. pc = "idle"
    BY DEF CallSplit
<1>1. ASSUME NEW how \in {"fault", "panic"}, Halt(how)
      PROVE  UNCHANGED avars
    BY <1>0, <1>1 DEF Halt, client, avars, UsablePages, GrantedRuns, FreeEntries,
       InFlight, Entries
<1>2. ASSUME NEW b \in Slot, type[b] = "FREE", SplitWhole(b)
      PROVE  UNCHANGED avars
  <2>1. /\ b \in Entries /\ Entries' = Entries /\ type'[b] = "USED"
        /\ \A x \in Slot \ {b} : type'[x] = type[x]
        /\ UNCHANGED <<base, length, held, heapPages>>
        /\ pc' = "return" /\ cur' = b
      BY <1>t, <1>2, WholeShape DEF Same, SplitWhole, client
  <2>2. Spare' = Spare
      BY <1>0, <1>2, <2>1 DEF Spare, FreeEntries, InFlight, Entries
  <2> QED
      BY <2>1, <2>2, UsableSame, SpareSame
<1>3. ASSUME NEW b \in Slot, NEW s \in Slot, NEW n \in Nat \ {0},
             NEW t \in {"FREE", "USED"}, type[b] = "FREE", s \in FirstEmpty(0),
             0 \in Taking, ~(length[b] <= n), SplitInto(b, n, t, 0, s)
      PROVE  UNCHANGED avars
  <2>1. /\ type[s] = "EMPTY" /\ b \in Entries /\ s \notin Entries /\ b # s
        /\ Entries' = Entries \cup {s} /\ type'[s] = "FREE"
        /\ base'[b] = base[b] /\ length'[b] = n
        /\ base'[s] = base[b] + n /\ length'[s] = length[b] - n
        /\ \A x \in Slot \ {b, s} : Same(x)
        /\ pc' \in {"addResv", "return"} /\ cur' = b
      BY <1>t, <1>3, IntoShape
  <2>2. held' = held /\ heapPages' = heapPages
      BY <1>3 DEF SplitInto, client
  <2>3. base[b] \in Nat /\ length[b] \in Nat
      BY <1>t DEF TypeOK
  <2>4. Pages(b)' \cup Pages(s)' = Pages(b)
    <3>1. n \in Nat /\ length[b] - n \in Nat /\ n + (length[b] - n) = length[b]
        BY <1>3, <2>3
    <3>2. \A k \in Nat : PagesOf(base[b], n + k)
                           = PagesOf(base[b], n) \cup PagesOf(base[b] + n, k)
        BY <2>3, PagesSplit
    <3> QED
        BY <2>1, <3>1, <3>2 DEF Pages
  <2>5. b \in Spare /\ s \notin Spare /\ Spare' = Spare \cup {s}
    <3>1. FreeEntries' \ {b} = (FreeEntries \cup {s}) \ {b}
        BY <2>1 DEF FreeEntries, Same, Entries
    <3> QED
        BY <1>0, <1>3, <2>1, <3>1 DEF Spare, FreeEntries, InFlight
  <2>6. \A x \in Spare \ {b} : Pages(x)' = Pages(x)
      BY <1>0, <2>1, <2>5 DEF Spare, FreeEntries, InFlight, Entries, Same, Pages
  <2>7. UNION {Pages(e) : e \in Spare}' = UNION {Pages(e) : e \in Spare}
      BY <2>4, <2>5, <2>6
  <2> QED
      BY <2>2, <2>7, UsableSame
<1> QED
    BY <1>t, <1>1, <1>2, <1>3, CallSplitCases

\* A merge moves pages between entries that are both free or both not.
LEMMA MergeKeeps ==
  ASSUME IInv, TableInv, MergeNext \/ MergePrev
  PROVE  UNCHANGED avars
<1>t. TypeOK /\ HeldInv
    BY DEF IInv
<1>1. ASSUME NEW e, Absorbs(e)
      PROVE  UNCHANGED avars
  <2>1. /\ cur \in Entries /\ e \in Entries /\ e # cur /\ Entries' = Entries \ {e}
        /\ Alike(e, cur) /\ type'[cur] = type[cur]
        /\ length'[cur] = length[cur] + length[e]
        /\ \/ base[cur] + length[cur] = base[e] /\ base'[cur] = base[cur]
           \/ base[e] + length[e] = base[cur] /\ base'[cur] = base[e]
        /\ \A x \in Slot \ {cur, e} : Same(x)
        /\ pc \in {"mergeNext", "mergePrev"}
        /\ UNCHANGED <<owner, pc, held, heapPages>>
      BY <1>1, AbsorbShape
  <2>2. /\ cur \in Slot /\ e \in Slot
        /\ base[cur] \in Nat /\ length[cur] \in Nat
        /\ base[e] \in Nat /\ length[e] \in Nat
      BY <1>t, <2>1 DEF TypeOK, Entries
  <2>3. Spare = FreeEntries /\ Spare' = FreeEntries'
      BY <2>1 DEF Spare, InFlight
  <2>4. CASE type[cur] = "FREE" /\ type[e] = "FREE"
    <3> DEFINE P(x) == PagesOf(base[x], length[x])
               Q(x) == PagesOf(base'[x], length'[x])
    <3>1. Q(cur) = P(cur) \cup P(e)
      <4>1. CASE base[cur] + length[cur] = base[e] /\ base'[cur] = base[cur]
          BY <2>1, <2>2, <4>1 DEF PagesOf
      <4>2. CASE base[e] + length[e] = base[cur] /\ base'[cur] = base[e]
          BY <2>1, <2>2, <4>2 DEF PagesOf
      <4> QED
          BY <2>1, <4>1, <4>2
    <3>2. cur \in Spare /\ e \in Spare /\ Spare' = Spare \ {e}
        BY <2>1, <2>2, <2>3, <2>4 DEF FreeEntries, Same, Entries
    <3>3. \A x \in Spare \ {cur, e} : Q(x) = P(x)
        BY <2>1, <2>3 DEF FreeEntries, Entries, Same
    <3> HIDE DEF P, Q
    <3>4. UNION {Q(x) : x \in Spare \ {e}} = UNION {P(x) : x \in Spare}
        BY <2>1, <3>1, <3>2, <3>3
    <3>5. UNION {Pages(x) : x \in Spare}' = UNION {Pages(x) : x \in Spare}
        BY <3>2, <3>4 DEF P, Q, Pages
    <3> QED
        BY <2>1, <3>5, UsableSame
  <2>5. CASE type[cur] # "FREE" /\ type[e] # "FREE"
    <3>1. Spare' = Spare /\ cur \notin Spare /\ e \notin Spare
        BY <2>1, <2>2, <2>3, <2>5 DEF FreeEntries, Same, Entries
    <3> QED
        BY <2>1, <2>3, <3>1, UsableSame, SpareSame DEF FreeEntries, Entries, Same
  <2> QED
      BY <1>t, <2>1, <2>2, <2>4, <2>5 DEF Alike, HeldInv
<1>2. CASE \A e : ~Absorbs(e)
  <2>1. /\ Entries' = Entries /\ UNCHANGED <<type, base, length, held, heapPages>>
        /\ pc \in {"mergeNext", "mergePrev"} /\ pc' \in {"mergePrev", "idle"}
      BY <1>2, MergeEnds DEF MergeNext, MergePrev
  <2>2. Spare' = Spare
      BY <2>1 DEF Spare, FreeEntries, InFlight
  <2> QED
      BY <2>1, <2>2, UsableSame, SpareSame
<1> QED
    BY <1>1, <1>2

\* The block is handed out: its pages were spare and are a grant now.
LEMMA KernelStep ==
  ASSUME IInv, TableInv, GrantInv, ReturnToKernel
  PROVE  Allocator!Next
<1>t. TypeOK /\ HeldInv /\ WorkInv
    BY DEF IInv
<1> DEFINE g == [entry |-> cur, base |-> base[cur],
                 len |-> IF caller.fn = "pmm_alloc" THEN caller.len
                         ELSE length[cur]]
<1>1. /\ cur \in Entries /\ cur \in Slot /\ cur \notin HeldEntries
      /\ owner[cur] = 0 /\ type[cur] = "USED"
    BY <1>t DEF ReturnToKernel, WorkInv, HeldInv, WorkingPc, Entries
<1>2. PagesOf(g.base, g.len) = Pages(cur)
    BY DEF ReturnToKernel, GrantInv, Pages
<1>3. /\ held' = held \cup {g} /\ heapPages' = heapPages
      /\ FreeEntries' = FreeEntries /\ cur \notin FreeEntries
      /\ InFlight = {cur} /\ InFlight' = {}
      /\ UNCHANGED <<base, length>>
    BY <1>1 DEF ReturnToKernel, FreeEntries, InFlight, Entries
<1>4. GrantedRuns' = GrantedRuns \cup {Pages(cur)}
    BY <1>2, <1>3 DEF GrantedRuns
<1>5. UsablePages' = UsablePages
  <2>1. UNION {PagesOf(h.base, h.len) : h \in held \cup {g}}
          = (UNION {PagesOf(h.base, h.len) : h \in held}) \cup Pages(cur)
      BY <1>2
  <2>2. UNION {PagesOf(base[e], length[e]) : e \in FreeEntries \cup {cur}}
          = (UNION {PagesOf(base[e], length[e]) : e \in FreeEntries}) \cup Pages(cur)
      BY DEF Pages
  <2> HIDE DEF g
  <2> QED
      BY <1>3, <2>1, <2>2 DEF UsablePages
<1>6. Pages(cur) \in Allocator!FreeRuns
    BY <1>1, <1>3, RunIsFree DEF Spare
<1> QED
    BY <1>3, <1>4, <1>5, <1>6 DEF Allocator!Next, Allocator!Grant

\* The heap takes the block for good.
LEMMA HeapStep ==
  ASSUME IInv, TableInv, GrantInv, ReturnToHeap
  PROVE  Allocator!Next
<1>t. TypeOK /\ HeldInv /\ WorkInv
    BY DEF IInv
<1>1. /\ cur \in Entries /\ cur \in Slot /\ cur \notin HeldEntries
      /\ owner[cur] = 0 /\ type[cur] = "USED"
    BY <1>t DEF ReturnToHeap, WorkInv, HeldInv, WorkingPc, Entries
<1>2. /\ held' = held /\ heapPages' = heapPages \cup Pages(cur)
      /\ FreeEntries' = FreeEntries
      /\ InFlight = {cur} /\ InFlight' = {}
      /\ UNCHANGED <<base, length>>
    BY <1>1 DEF ReturnToHeap, FreeEntries, InFlight, Entries, Pages
<1>3. UsablePages' = UsablePages
  <2>1. UNION {PagesOf(base[e], length[e]) : e \in FreeEntries \cup {cur}}
          = (UNION {PagesOf(base[e], length[e]) : e \in FreeEntries}) \cup Pages(cur)
      BY DEF Pages
  <2> QED
      BY <1>2, <2>1 DEF UsablePages
<1>4. GrantedRuns' = GrantedRuns
    BY <1>2 DEF GrantedRuns
<1>5. Pages(cur) \in Allocator!FreeRuns
    BY <1>1, <1>2, RunIsFree DEF Spare
<1> QED
    BY <1>2, <1>3, <1>4, <1>5 DEF Allocator!Next, Allocator!GrowHeap

\* The pages of a grant are spare again.
LEMMA FreeStep ==
  ASSUME IInv, TableInv, GrantInv, NEW g \in held, pmm_free(g)
  PROVE  Allocator!Next
<1>t. TypeOK /\ HeldInv
    BY DEF IInv
<1>1. /\ g.entry \in Entries /\ Entries' = Entries
      /\ type'[g.entry] = "FREE"
      /\ \A x \in Slot \ {g.entry} : type'[x] = type[x]
      /\ held' = held \ {g} /\ pc = "idle" /\ pc' = "mergeNext"
      /\ UNCHANGED <<base, length, heapPages>>
    BY <1>t, FreeShape DEF Same
<1>2. PagesOf(g.base, g.len) = Pages(g.entry)
    BY GrantPages
<1>3. /\ FreeEntries' = FreeEntries \cup {g.entry}
      /\ InFlight = {} /\ InFlight' = {}
    BY <1>1 DEF FreeEntries, InFlight, Entries
<1>4. GrantedRuns' = GrantedRuns \ {Pages(g.entry)}
  <2>1. \A h \in held : PagesOf(h.base, h.len) = Pages(g.entry) <=> h = g
      BY <1>2, GrantPages
  <2> QED
      BY <1>1, <2>1 DEF GrantedRuns
<1>5. UsablePages' = UsablePages
  <2>1. UNION {PagesOf(h.base, h.len) : h \in held}
          = (UNION {PagesOf(h.base, h.len) : h \in held \ {g}}) \cup Pages(g.entry)
      BY <1>2
  <2>2. UNION {PagesOf(base[e], length[e]) : e \in FreeEntries \cup {g.entry}}
          = (UNION {PagesOf(base[e], length[e]) : e \in FreeEntries})
              \cup Pages(g.entry)
      BY DEF Pages
  <2> QED
      BY <1>1, <1>3, <2>1, <2>2 DEF UsablePages
<1>6. Pages(g.entry) \in GrantedRuns
    BY <1>2 DEF GrantedRuns
<1> QED
    BY <1>1, <1>4, <1>5, <1>6 DEF Allocator!Next, Allocator!Release

LEMMA AllocatorStep ==
  ASSUME IInv, TableInv, GrantInv, [Next]_vars, resvs = 0, resvs' = 0
  PROVE  [Allocator!Next]_avars
<1>t. TypeOK
    BY DEF IInv
<1>1. CASE UNCHANGED vars
    BY <1>1 DEF vars, client, avars, UsablePages, GrantedRuns, FreeEntries,
       InFlight, Entries
<1>2. CASE CallFaults
  <2>1. /\ Entries' = Entries /\ FreeEntries' = FreeEntries
        /\ UNCHANGED <<base, length, held, heapPages>>
        /\ pc \in {"idle", "addResv"} /\ pc' = "fault"
      BY <1>2 DEF CallFaults, Halt, client, Entries, FreeEntries
  <2>2. pc = "addResv" => cur \in FreeEntries
      BY <1>2, <1>t DEF CallFaults, GrantInv, IInv, WorkInv, WorkingPc, FreeEntries
  <2>3. Spare = FreeEntries /\ Spare' = FreeEntries
      BY <2>1, <2>2 DEF Spare, InFlight
  <2> QED
      BY <2>1, <2>3, UsableSame, SpareSame
<1> QED
    BY <1>t, <1>1, <1>2, TableCases, SplitKeeps, MergeKeeps, KernelStep, HeapStep,
       FreeStep

\* Until it extends a table for the first time, the manager is a PageAllocator:
\* in whatever order the kernel and the heap call it, every run it hands out was
\* free, what it takes back can be handed out again, and no usable page is lost.
THEOREM ManagesPages == Spec /\ [](resvs = 0) => AllocatorSpec
<1> DEFINE I == IInv /\ (resvs = 0 => TableInv /\ GrantInv)
<1>1. Init => I
    BY InitInv, InitTableInv, InitGrantInv
<1>2. I /\ [Next]_vars => I'
    BY IInvStep, ResvsKept, TableStep, GrantStep
<1>3. Init => Allocator!Init
    BY DEF Init, Allocator!Init, GrantedRuns
<1>4. I /\ [Next]_vars /\ resvs = 0 /\ (resvs = 0)'
        => [Allocator!Next]_<<UsablePages, GrantedRuns, heapPages>>
    BY AllocatorStep DEF avars
<1> HIDE DEF I
<1> QED
    BY <1>1, <1>2, <1>3, <1>4, PTL DEF Spec, AllocatorSpec, Allocator!Spec

-----------------------------------------------------------------------------
(* The first entry of the list.                                            *)

LEMMA InitFirst ==
  ASSUME FirstKept
  PROVE  Init => FirstInv /\ HeadInv
<1> SUFFICES ASSUME Init PROVE FirstInv /\ HeadInv
    OBVIOUS
<1> PICK t \in Tables : InitTable(t)
    BY DEF Init
<1> DEFINE k == Len(t.entries)
<1>1. /\ k \in Nat /\ k > 0 /\ 0 \in 0..(k - 1) /\ t.entries[1].type \in EntryType
      /\ \A i \in 0..(k - 1) : i + 1 \in 1..k
    BY TableFacts, PmmAssumption
<1>2. /\ firstPmmEntry = <<t.land, 0>> /\ firstPmmEntry \in Entries
      /\ type[firstPmmEntry] = t.entries[1].type /\ firstPmmEntry \in Slot
  <2>1. <<t.land, 0>> \in Entries /\ type[<<t.land, 0>>] = t.entries[0 + 1].type
      BY <1>1, InitEntries
  <2>2. firstPmmEntry = <<t.land, 0>>
      BY DEF InitTable
  <2> QED
      BY <2>1, <2>2 DEF Entries
<1>3. FirstInv
  <2>1. pc = "idle" /\ pending = <<>> /\ held = {} /\ owner[firstPmmEntry] = 0
      BY <1>2 DEF Init, InitTable
  <2> QED
      BY <1>2, <2>1 DEF FirstInv, FirstKept, IsFirstKept, HeldEntries, WorkingPc
<1>4. ASSUME NEW s \in Entries, prev[s] = NULL
      PROVE  s = firstPmmEntry
  <2>1. PICK i \in 0..(k - 1) : s = <<t.land, i>>
      BY InitEntries
  <2>2. CASE i > 0
    <3>1. s \in Slot /\ Live(t, s) /\ s[2] > 0
        BY <1>1, <2>1, <2>2 DEF Live, Entries
    <3>2. prev[s] = <<t.land, s[2] - 1>>
        BY <3>1 DEF InitTable
    <3>3. i - 1 \in 0..(k - 1) /\ s[2] = i
        BY <1>1, <2>1, <2>2
    <3>4. <<t.land, s[2] - 1>> \in Slot
        BY <3>3, InitEntries DEF Entries
    <3> QED
        BY <1>4, <3>2, <3>4, PmmAssumption
  <2> QED
      BY <1>2, <2>1, <2>2
<1> QED
    BY <1>3, <1>4 DEF HeadInv

\* The blocks that calls of pmm_split wait with, after one more and one less.
LEMMA PendingGrows ==
  ASSUME TypeOK, WorkInv, AddResv
  PROVE  \A i \in DOMAIN pending' :
           pending'[i].block = cur \/ \E j \in DOMAIN pending : pending'[i] = pending[j]
<1> DEFINE f == [block |-> cur, resv |-> resvs + 1]
<1>1. f \in Frame
    BY PmmAssumption DEF Frame, TypeOK, AddResv, Resv, WorkInv, WorkingPc, Entries
<1>2. pending' = Append(pending, f) /\ pending \in Seq(Frame)
    BY DEF AddResv, TypeOK
<1>3. /\ DOMAIN pending = 1..Len(pending) /\ Len(pending) \in Nat
      /\ DOMAIN pending' = 1..(Len(pending) + 1)
    BY <1>1, <1>2, AppendProperties, LenProperties
<1>4. /\ \A i \in 1..Len(pending) : pending'[i] = pending[i]
      /\ pending'[Len(pending) + 1] = f
    BY <1>1, <1>2, AppendProperties
<1> QED
    BY <1>3, <1>4

LEMMA PendingShrinks ==
  ASSUME TypeOK, ReturnToSplit
  PROVE  \A i \in DOMAIN pending' : \E j \in DOMAIN pending : pending'[i] = pending[j]
<1>1. /\ pending \in Seq(Frame) /\ DOMAIN pending = 1..Len(pending)
      /\ Len(pending) \in 1..Len(pending)
    BY LenProperties, EmptySeq DEF TypeOK, ReturnToSplit
<1>2. pending' = SubSeq(pending, 1, Len(pending) - 1)
    BY DEF ReturnToSplit
<1>3. \A i \in 1..(Len(pending) - 1) : pending[i] \in Frame
    BY <1>1, ElementOfSeq
<1>4. /\ pending' \in Seq(Frame) /\ Len(pending') = Len(pending) - 1
      /\ \A i \in 1..(Len(pending) - 1) : pending'[i] = pending[i]
    BY <1>1, <1>2, <1>3, SubSeqProperties
<1>5. DOMAIN pending' = 1..(Len(pending) - 1)
    BY <1>4, LenProperties
<1> QED
    BY <1>1, <1>4, <1>5

LEMMA FirstStep ==
  ASSUME IInv, FirstInv, [Next]_vars
  PROVE  FirstInv'
<1> DEFINE f == firstPmmEntry
<1>t. TypeOK /\ WorkInv /\ HeldInv
    BY DEF IInv
<1>f. /\ f \in Slot /\ type[f] \in EntryType /\ type[f] # "FREE"
      /\ owner[f] = 0 /\ f \notin HeldEntries
      /\ \A i \in DOMAIN pending : pending[i].block # f
      /\ pc \in WorkingPc => cur # f
    BY DEF FirstInv, Entries
<1>g. type \in [Slot -> SlotType] /\ owner \in [Slot -> {0, HEAP}]
    BY <1>t DEF TypeOK
<1>k. ASSUME firstPmmEntry' = f, type'[f] = type[f], owner'[f] = 0,
             pc' \in WorkingPc => cur' # f, f \notin HeldEntries',
             \A i \in DOMAIN pending' : pending'[i].block # f
      PROVE  FirstInv'
    BY <1>f, <1>k DEF FirstInv, Entries
<1>1. CASE UNCHANGED vars
    BY <1>f, <1>1, <1>k DEF vars, links, client, HeldEntries
<1>2. CASE HaltStep
    BY <1>f, <1>2, <1>k DEF HaltStep, Halt, links, client, HeldEntries, WorkingPc
<1>3. CASE SplitStep
  <2>1. ASSUME NEW b \in Slot, type[b] = "FREE", SplitWhole(b)
        PROVE  FirstInv'
    <3>1. b # f
        BY <1>f, <2>1
    <3> QED
        BY <1>f, <1>g, <1>k, <2>1, <3>1 DEF SplitWhole, links, client, HeldEntries
  <2>2. ASSUME NEW b \in Slot, NEW s \in Slot, NEW n \in Nat \ {0},
               NEW u \in {"FREE", "USED"}, NEW r \in Chain,
               type[b] = "FREE", type[s] = "EMPTY", SplitInto(b, n, u, r, s)
        PROVE  FirstInv'
    <3>1. b # f /\ s # f
        BY <1>f, <2>2 DEF EntryType
    <3> QED
        BY <1>f, <1>g, <1>k, <2>2, <3>1 DEF SplitInto, client, HeldEntries
  <2> QED
      BY <1>2, <1>3, <2>1, <2>2, SplitCases
<1>4. CASE AddResv
  <2>1. \A i \in DOMAIN pending' : pending'[i].block # f
      BY <1>t, <1>f, <1>4, PendingGrows DEF AddResv, WorkingPc
  <2> QED
      BY <1>f, <1>k, <1>4, <2>1 DEF AddResv, links, client, HeldEntries, WorkingPc
<1>5. CASE ReturnToSplit
  <2> DEFINE b == pending[Len(pending)].block
  <2>1. cur # f /\ b # f
      BY <1>t, <1>f, <1>5, FrameTop DEF ReturnToSplit, WorkingPc
  <2>2. type'[f] = type[f] /\ cur' = b
      BY <1>f, <1>5, <2>1 DEF ReturnToSplit, FreshSlots, EntryType
  <2>3. \A i \in DOMAIN pending' : pending'[i].block # f
      BY <1>t, <1>f, <1>5, PendingShrinks
  <2>4. UNCHANGED <<firstPmmEntry, owner, held>>
      BY <1>5 DEF ReturnToSplit, links, client
  <2> QED
      BY <1>f, <1>k, <2>1, <2>2, <2>3, <2>4 DEF HeldEntries
<1>6. CASE ReturnToKernel
  <2>1. cur # f
      BY <1>f, <1>6 DEF ReturnToKernel, WorkingPc
  <2>2. \A g \in held' : g \in held \/ g.entry = cur
      BY <1>6 DEF ReturnToKernel
  <2>3. f \notin HeldEntries'
      BY <1>f, <2>1, <2>2 DEF HeldEntries
  <2> QED
      BY <1>f, <1>k, <1>6, <2>3 DEF ReturnToKernel, links, WorkingPc
<1>7. CASE ReturnToHeap
  <2>1. cur # f
      BY <1>f, <1>7 DEF ReturnToHeap, WorkingPc
  <2>2. /\ owner'[f] = 0 /\ UNCHANGED <<type, firstPmmEntry, held, pending>>
        /\ pc' = "idle" \/ cur' = cur
      BY <1>f, <1>g, <1>7, <2>1 DEF ReturnToHeap, links
  <2> QED
      BY <1>f, <1>k, <2>1, <2>2 DEF HeldEntries, WorkingPc
<1>8. CASE MergeNext \/ MergePrev
  <2>1. firstPmmEntry' = f
      BY <1>8 DEF MergeNext, MergePrev
  <2>2. cur # f
      BY <1>f, <1>8 DEF MergeNext, MergePrev, WorkingPc
  <2>3. ASSUME NEW e, Absorbs(e)
        PROVE  FirstInv'
    <3>1. e # f
        BY <1>f, <2>3, AbsorbShape DEF Alike
    <3>2. type'[f] = type[f] /\ UNCHANGED <<owner, pc, cur, pending, held>>
        BY <1>f, <2>2, <2>3, <3>1, AbsorbShape DEF Same
    <3> QED
        BY <1>f, <1>k, <2>1, <3>2 DEF HeldEntries
  <2> QED
      BY <1>f, <1>k, <1>8, <2>1, <2>2, <2>3, MergeEnds DEF HeldEntries, WorkingPc
<1>9. ASSUME NEW g \in held, pmm_free(g)
      PROVE  FirstInv'
  <2>1. g.entry # f
      BY <1>f, <1>9 DEF HeldEntries
  <2>2. type'[f] = type[f] /\ cur' = g.entry /\ held' = held \ {g}
        /\ UNCHANGED <<owner, pending, firstPmmEntry>>
      BY <1>t, <1>f, <1>9, <2>1, FreeShape DEF Same, pmm_free, links
  <2>3. f \notin HeldEntries'
      BY <1>f, <2>2 DEF HeldEntries
  <2> QED
      BY <1>f, <1>k, <2>1, <2>2, <2>3
<1> QED
    BY <1>t, <1>1, <1>2, <1>3, <1>4, <1>5, <1>6, <1>7, <1>8, <1>9, NextCases

LEMMA HeadStep ==
  ASSUME IInv, FirstInv, HeadInv, [Next]_vars
  PROVE  HeadInv'
<1>t. TypeOK /\ WorkInv /\ SpanInv /\ ListSound /\ HeldInv
    BY DEF IInv
<1>p. /\ prev \in [Slot -> Ptr] /\ NULL \notin Slot
      /\ \A s \in Entries : s \in Slot
    BY <1>t, PmmAssumption DEF TypeOK, Entries
<1>same. ASSUME Entries' = Entries, UNCHANGED <<prev, firstPmmEntry>>
         PROVE  HeadInv'
    BY <1>same DEF HeadInv
<1>1. CASE UNCHANGED vars
    BY <1>1, <1>same DEF Entries, vars, links
<1>2. CASE HaltStep
    BY <1>2, <1>same DEF HaltStep, Halt, Entries, links
<1>3. CASE SplitStep
  <2>1. ASSUME NEW b \in Slot, type[b] = "FREE", SplitWhole(b)
        PROVE  HeadInv'
      BY <1>t, <1>same, <2>1, EntriesWhole DEF SplitWhole, links
  <2>2. ASSUME NEW b \in Slot, NEW s \in Slot, NEW n \in Nat \ {0},
               NEW u \in {"FREE", "USED"}, NEW r \in Chain,
               type[b] = "FREE", type[s] = "EMPTY", SplitInto(b, n, u, r, s)
        PROVE  HeadInv'
    <3>1. Entries' = Entries \cup {s}
        BY <1>t, <2>2, EntriesInto
    <3>2. \A p \in Slot : prev'[p] = NULL => prev[p] = NULL /\ p # s
        BY <1>p, <2>2 DEF SplitInto, PrevAfterSplit
    <3>3. firstPmmEntry' = firstPmmEntry
        BY <2>2 DEF SplitInto
    <3> QED
        BY <1>p, <3>1, <3>2, <3>3 DEF HeadInv
  <2> QED
      BY <1>2, <1>3, <2>1, <2>2, SplitCases
<1>4. CASE AddResv
    BY <1>4, <1>same DEF AddResv, Entries, links
<1>5. CASE ReturnToSplit
    BY <1>5, <1>t, <1>same, EntriesReturn DEF ReturnToSplit, links
<1>6. CASE ReturnToKernel \/ ReturnToHeap
    BY <1>6, <1>same DEF ReturnToKernel, ReturnToHeap, Entries, links
<1>7. CASE MergeNext \/ MergePrev
  <2>1. firstPmmEntry' = firstPmmEntry
      BY <1>7 DEF MergeNext, MergePrev
  <2>2. CASE MergeNext /\ AbsorbsNext
    <3>1. cur \in Entries /\ Entries' \subseteq Entries
        BY <1>t, <2>2, MergeNextShape
    <3>2. \A p \in Slot : prev'[p] = NULL => prev[p] = NULL
        BY <1>p, <2>2, <3>1 DEF MergeNext, PrevAfterMerge
    <3> QED
        BY <1>p, <2>1, <3>1, <3>2 DEF HeadInv
  <2>3. CASE MergePrev /\ AbsorbsPrev
    <3> DEFINE e == prev[cur]
    <3>1. cur \in Entries /\ e \in Entries /\ Entries' \subseteq Entries
        BY <1>t, <2>3, MergePrevShape
    <3>2. prev' = [prev EXCEPT ![cur] = prev[e]]
        BY <2>3 DEF MergePrev
    <3>3. e # firstPmmEntry
        BY <2>3 DEF AbsorbsPrev, Alike, FirstInv
    <3>4. prev[e] # NULL
        BY <3>1, <3>3 DEF HeadInv
    <3> QED
        BY <1>p, <2>1, <3>1, <3>2, <3>4 DEF HeadInv
  <2>4. CASE ~(MergeNext /\ AbsorbsNext) /\ ~(MergePrev /\ AbsorbsPrev)
    <3>1. \A e : ~Absorbs(e)
        BY <2>4 DEF Absorbs
    <3> QED
        BY <1>7, <1>same, <2>1, <3>1, MergeEnds
  <2> QED
      BY <2>2, <2>3, <2>4
<1>8. ASSUME NEW g \in held, pmm_free(g)
      PROVE  HeadInv'
    BY <1>8, <1>t, <1>same, EntriesFree DEF pmm_free, links
<1> QED
    BY <1>t, <1>1, <1>2, <1>3, <1>4, <1>5, <1>6, <1>7, <1>8, NextCases

-----------------------------------------------------------------------------
(* What the searches reach.                                                *)

\* A walk as a loop over the slots it has met.
LEMMA WalkLoop ==
  ASSUME TypeOK, NEW p \in Ptr
  PROVE  \E f \in [0..MaxWalk -> SUBSET Ptr] :
           /\ f[0] = {p}
           /\ \A k \in 0..(MaxWalk - 1) :
                f[k + 1] = f[k] \cup {After(q) : q \in f[k]}
           /\ WalkFrom(p) = f[MaxWalk] \ {NULL}
<1> DEFINE F == [S \in SUBSET Ptr |-> S \cup {After(q) : q \in S}]
           N == MaxWalk
<1>1. N \in Nat
    BY PmmAssumption DEF MaxWalk
<1>2. F \in [SUBSET Ptr -> SUBSET Ptr]
    BY DEF TypeOK, After, Ptr
<1>3. {p} \in SUBSET Ptr
    OBVIOUS
<1>4. \A f : Iterates(f, {p}, F, N)
        => f = [k \in 0..N |->
                  IF k = 0 THEN {p}
                  ELSE LET S == f[k - 1] IN S \cup {After(q) : q \in S}]
  <2> SUFFICES ASSUME NEW f, Iterates(f, {p}, F, N)
               PROVE  f = [k \in 0..N |->
                             IF k = 0 THEN {p}
                             ELSE LET S == f[k - 1] IN S \cup {After(q) : q \in S}]
      OBVIOUS
  <2>1. f = [k \in 0..N |-> IF k = 0 THEN {p} ELSE F[f[k - 1]]]
      BY DEF Iterates
  <2> HIDE DEF F
  <2>2. f \in [0..N -> SUBSET Ptr]
      BY <1>1, <1>2, <1>3, IterationType
  <2>3. \A k \in 0..N : k # 0 => F[f[k - 1]] = f[k - 1] \cup {After(q) : q \in f[k - 1]}
    <3> SUFFICES ASSUME NEW k \in 0..N, k # 0
                 PROVE  F[f[k - 1]] = f[k - 1] \cup {After(q) : q \in f[k - 1]}
        OBVIOUS
    <3>1. k - 1 \in 0..N
        BY <1>1
    <3>2. f[k - 1] \in SUBSET Ptr
        BY <2>2, <3>1
    <3> QED
        BY <3>2 DEF F
  <2> QED
      BY <2>1, <2>3
<1> HIDE DEF F
<1>5. \E f : Iterates(f, {p}, F, N)
    BY <1>1, IterationExists
<1> DEFINE upTo == CHOOSE f :
             f = [k \in 0..N |->
                    IF k = 0 THEN {p}
                    ELSE LET S == f[k - 1] IN S \cup {After(q) : q \in S}]
<1>6. /\ WalkFrom(p) = upTo[N] \ {NULL}
      /\ upTo = [k \in 0..N |->
                   IF k = 0 THEN {p}
                   ELSE LET S == upTo[k - 1] IN S \cup {After(q) : q \in S}]
    BY <1>4, <1>5 DEF WalkFrom
<1> HIDE DEF upTo
<1>7. \A k \in 0..(N - 1) : k + 1 \in 0..N /\ k + 1 # 0 /\ (k + 1) - 1 = k
    BY <1>1
<1>8. /\ upTo[0] = {p}
      /\ \A k \in 0..(N - 1) : upTo[k + 1] = upTo[k] \cup {After(q) : q \in upTo[k]}
  <2>1. 0 \in 0..N
      BY <1>1
  <2> QED
      BY <1>6, <1>7, <2>1
<1>9. upTo \in [0..N -> SUBSET Ptr]
  <2> DEFINE S == {n \in 0..N : upTo[n] \in SUBSET Ptr}
  <2>1. 0 \in S
      BY <1>1, <1>8
  <2>2. ASSUME NEW k \in 0..(N - 1), k \in S
        PROVE  k + 1 \in S
    <3>1. k + 1 \in 0..N /\ upTo[k] \in SUBSET Ptr
        BY <1>7, <2>2
    <3>2. \A q \in Ptr : After(q) \in Ptr
        BY DEF TypeOK, After, Ptr
    <3> QED
        BY <1>8, <3>1, <3>2
  <2> HIDE DEF S
  <2>3. 0..N \subseteq S
      BY <1>1, <2>1, <2>2, Reaches
  <2>4. \A n \in 0..N : upTo[n] \in SUBSET Ptr
      BY <2>3 DEF S
  <2> QED
      BY <1>6, <2>4
<1> QED
    BY <1>6, <1>8, <1>9

\* From an entry a walk meets entries only, and all there is to meet: it ends.
LEMMA WalkCloses ==
  ASSUME IInv, Covered \subseteq Page, NEW b \in Entries
  PROVE  /\ b \in WalkFrom(b)
         /\ \A q \in WalkFrom(b) :
              q \in Entries /\ (next[q] # NULL => next[q] \in WalkFrom(b))
<1>t. TypeOK /\ SpanInv /\ ListSound
    BY DEF IInv
<1>b. /\ \A q \in Entries : /\ q \in Slot /\ q \in Ptr /\ q # NULL
                            /\ base[q] \in Nat /\ length[q] \in Nat /\ length[q] > 0
                            /\ base[q] < NumPages
      /\ MaxWalk \in Nat /\ MaxWalk >= NumPages
  <2>1. ASSUME NEW q \in Entries
        PROVE  /\ q \in Slot /\ q \in Ptr /\ q # NULL
               /\ base[q] \in Nat /\ length[q] \in Nat /\ length[q] > 0
               /\ base[q] \in Page
    <3>1. q \in Slot /\ base[q] \in Nat /\ length[q] \in Nat /\ length[q] > 0
        BY <1>t DEF TypeOK, SpanInv, Entries
    <3>2. base[q] \in PagesOf(base[q], length[q])
        BY <3>1 DEF PagesOf
    <3> QED
        BY <3>1, <3>2, PmmAssumption DEF Covered, Ptr
  <2> QED
      BY <2>1, PmmAssumption DEF Page, MaxWalk
<1>1. PICK f \in [0..MaxWalk -> SUBSET Ptr] :
         /\ f[0] = {b}
         /\ \A k \in 0..(MaxWalk - 1) : f[k + 1] = f[k] \cup {After(q) : q \in f[k]}
         /\ WalkFrom(b) = f[MaxWalk] \ {NULL}
    BY <1>b, <1>t, WalkLoop
<1> DEFINE Met(k) ==
             /\ b \in f[k]
             /\ \A q \in f[k] \ {NULL} :
                  q \in Entries /\ (base[q] >= k \/ After(q) \in f[k])
           S == {k \in 0..MaxWalk : Met(k)}
<1>2. 0 \in S
    BY <1>1, <1>b
<1>3. ASSUME NEW k \in 0..(MaxWalk - 1), k \in S
      PROVE  k + 1 \in S
  <2>1. f[k + 1] = f[k] \cup {After(q) : q \in f[k]} /\ k + 1 \in 0..MaxWalk
      BY <1>1, <1>b
  <2>2. ASSUME NEW q \in f[k] \ {NULL}
        PROVE  q \in Entries /\ After(q) \in f[k + 1]
      BY <1>3, <2>1
  <2>3. ASSUME NEW r \in f[k] \ {NULL}, After(r) \notin f[k], After(r) # NULL
        PROVE  After(r) \in Entries /\ base[After(r)] >= k + 1
    <3>1. r \in Entries /\ base[r] >= k /\ After(r) = next[r]
        BY <1>3, <2>3 DEF After
    <3>2. next[r] \in Entries /\ base[r] + length[r] <= base[next[r]]
        BY <1>t, <2>3, <3>1 DEF ListSound
    <3> QED
        BY <1>b, <3>1, <3>2
  <2>4. \A q \in f[k + 1] \ {NULL} :
          q \in Entries /\ (base[q] >= k + 1 \/ After(q) \in f[k + 1])
    <3> SUFFICES ASSUME NEW q \in f[k + 1] \ {NULL}, q \notin f[k]
                 PROVE  q \in Entries /\ base[q] >= k + 1
        BY <2>2
    <3>1. PICK r \in f[k] : q = After(r)
        BY <2>1
    <3>2. r # NULL
        BY <3>1 DEF After
    <3> QED
        BY <2>3, <3>1, <3>2
  <2> QED
      BY <1>3, <2>1, <2>4
<1>4. MaxWalk \in S
  <2> HIDE DEF S
  <2>1. 0..MaxWalk \subseteq S
      BY <1>2, <1>3, <1>b, Reaches
  <2> QED
      BY <1>b, <2>1
<1>5. ASSUME NEW q \in WalkFrom(b)
      PROVE  q \in Entries /\ (next[q] # NULL => next[q] \in WalkFrom(b))
  <2>1. q \in Entries /\ (base[q] >= MaxWalk \/ After(q) \in f[MaxWalk])
      BY <1>1, <1>4
  <2>2. base[q] \in Nat /\ base[q] < NumPages /\ NumPages \in Nat /\ q # NULL
      BY <1>b, <2>1, PmmAssumption
  <2>3. ~(base[q] >= MaxWalk)
      BY <1>b, <2>2
  <2>4. After(q) \in f[MaxWalk] /\ After(q) = next[q]
      BY <2>1, <2>2, <2>3 DEF After
  <2> QED
      BY <1>1, <2>1, <2>4
<1> QED
    BY <1>1, <1>4, <1>5, <1>b

\* It meets no more than what next leads to.
LEMMA WalkStays ==
  ASSUME TypeOK, NEW b \in Slot, NEW S \in SUBSET Slot, b \in S,
         \A q \in S : next[q] # NULL => next[q] \in S
  PROVE  WalkFrom(b) \subseteq S
<1>1. PICK f \in [0..MaxWalk -> SUBSET Ptr] :
         /\ f[0] = {b}
         /\ \A k \in 0..(MaxWalk - 1) : f[k + 1] = f[k] \cup {After(q) : q \in f[k]}
         /\ WalkFrom(b) = f[MaxWalk] \ {NULL}
    BY WalkLoop DEF Ptr
<1>m. MaxWalk \in Nat
    BY PmmAssumption DEF MaxWalk
<1> DEFINE I == {k \in 0..MaxWalk : f[k] \subseteq S \cup {NULL}}
<1>2. 0 \in I
    BY <1>1, <1>m
<1>3. ASSUME NEW k \in 0..(MaxWalk - 1), k \in I
      PROVE  k + 1 \in I
  <2>1. k + 1 \in 0..MaxWalk
      BY <1>m
  <2>2. \A q \in S \cup {NULL} : After(q) \in S \cup {NULL}
      BY DEF After
  <2> QED
      BY <1>1, <1>3, <2>1, <2>2
<1>4. MaxWalk \in I
  <2> HIDE DEF I
  <2>1. 0..MaxWalk \subseteq I
      BY <1>2, <1>3, <1>m, Reaches
  <2> QED
      BY <1>m, <2>1
<1> QED
    BY <1>1, <1>4

\* Every entry is met from the first one on.
LEMMA AllReached ==
  ASSUME IInv, FirstInv, HeadInv, Covered \subseteq Page
  PROVE  AllListed
<1> DEFINE S == {n \in Nat : \A s \in Entries : base[s] <= n => s \in Listed}
<1>t. TypeOK /\ SpanInv /\ ListSound
    BY DEF IInv
<1>1. /\ firstPmmEntry \in Listed
      /\ \A q \in Listed : next[q] # NULL => next[q] \in Listed
    BY WalkCloses DEF FirstInv, Listed
<1>2. ASSUME NEW s \in Entries, s # firstPmmEntry
      PROVE  /\ prev[s] \in Entries /\ next[prev[s]] = s /\ s # NULL
             /\ base[prev[s]] < base[s]
             /\ base[prev[s]] \in Nat /\ base[s] \in Nat
  <2>1. prev[s] # NULL
      BY <1>2 DEF HeadInv
  <2>2. prev[s] \in Entries /\ next[prev[s]] = s
      BY <1>t, <2>1 DEF ListSound
  <2>3. s \in Slot /\ prev[s] \in Slot /\ s # NULL
      BY <2>2, PmmAssumption DEF Entries
  <2>4. /\ base[prev[s]] + length[prev[s]] <= base[s] /\ length[prev[s]] > 0
        /\ length[prev[s]] \in Nat /\ base[prev[s]] \in Nat /\ base[s] \in Nat
      BY <1>t, <2>2, <2>3 DEF ListSound, SpanInv, TypeOK
  <2> QED
      BY <2>2, <2>3, <2>4
<1>3. 0 \in S
    BY <1>1, <1>2
<1>4. ASSUME NEW n \in Nat, n \in S
      PROVE  n + 1 \in S
  <2> SUFFICES ASSUME NEW s \in Entries, base[s] <= n + 1, s # firstPmmEntry
               PROVE  s \in Listed
      BY <1>1
  <2>1. prev[s] \in Listed
      BY <1>2, <1>4
  <2> QED
      BY <1>1, <1>2, <2>1
<1> HIDE DEF S
<1>5. ASSUME NEW s \in Entries
      PROVE  s \in Listed
  <2>1. base[s] \in Nat
      BY <1>t DEF TypeOK, Entries
  <2>2. 0..base[s] \subseteq S
      BY <1>3, <1>4, <2>1, Reaches
  <2> QED
      BY <2>1, <2>2 DEF S
<1> QED
    BY <1>5 DEF AllListed

LEMMA InitCovered == Init => Covered \subseteq Page
<1> SUFFICES ASSUME Init, NEW e \in Entries
             PROVE  PagesOf(base[e], length[e]) \subseteq Page
    BY DEF Covered
<1> PICK t \in Tables : InitTable(t)
    BY DEF Init
<1>1. IsTable(t)
    BY PmmAssumption
<1>e. PICK i \in 0..(Len(t.entries) - 1) : e = <<t.land, i>>
    BY InitEntries
<1>2. base[e] = t.entries[i + 1].base /\ length[e] = t.entries[i + 1].length
    BY <1>e, InitEntries
<1>3. i + 1 \in DOMAIN t.entries
    BY TableFacts, <1>1 DEF IsTable
<1> QED
    BY <1>1, <1>2, <1>3 DEF IsTable

ListInv == IInv /\ FirstInv /\ HeadInv /\ Covered \subseteq Page

LEMMA ListHolds ==
  ASSUME FirstKept
  PROVE  Spec => []ListInv
<1>1. Init => ListInv
    BY InitInv, InitFirst, InitCovered DEF ListInv
<1>2. ListInv /\ [Next]_vars => ListInv'
    BY IInvStep, FirstStep, HeadStep, CoverStep DEF ListInv
<1> QED
    BY <1>1, <1>2, PTL DEF Spec

\* As long as the first entry of the boot table is no free memory, every entry is
\* found from firstPmmEntry for ever: no split, merge or extension of the table,
\* reused slots included, cuts one off.
THEOREM EveryEntryListed ==
  ASSUME FirstKept
  PROVE  Spec => []AllListed
<1>1. ListInv => AllListed
    BY AllReached DEF ListInv
<1> QED
    BY <1>1, ListHolds, PTL

-----------------------------------------------------------------------------
(* The search loops.                                                       *)

LoopState == [at : Ptr, blocks : Nat, space : Ptr, exact : BOOLEAN]

\* What a round does with the entry it is at.
Kept(s, r) == r.blocks = s.blocks /\ r.space = s.space /\ ~r.exact
Took(s, r) == r.blocks = length[s.at] /\ r.space = s.at /\ ~r.exact
Left(s, r) == r.space = s.at /\ r.exact

LEMMA RoundShapes ==
  ASSUME TypeOK, NEW n \in Nat, NEW s \in LoopState, ~Over(s)
  PROVE  /\ s.at \in Slot
         /\ LET r == RoundExact(s, n) IN
            /\ r \in LoopState /\ r.at = next[s.at]
            /\ \/ type[s.at] # "FREE" /\ Kept(s, r)
               \/ type[s.at] = "FREE" /\ length[s.at] = n /\ Left(s, r)
               \/ /\ type[s.at] = "FREE" /\ length[s.at] # n
                  /\ IF (s.blocks = 0 /\ length[s.at] >= n) \/ Better(s, n)
                       THEN Took(s, r) ELSE Kept(s, r)
         /\ LET r == RoundMost(s, n) IN
            /\ r \in LoopState /\ r.at = next[s.at]
            /\ \/ type[s.at] # "FREE" /\ Kept(s, r)
               \/ type[s.at] = "FREE" /\ length[s.at] = n /\ Left(s, r)
               \/ /\ type[s.at] = "FREE" /\ length[s.at] # n
                  /\ IF (s.blocks < n /\ length[s.at] > s.blocks) \/ Better(s, n)
                       THEN Took(s, r) ELSE Kept(s, r)
<1>1. s.at \in Slot /\ ~s.exact
    BY DEF Over, LoopState, Ptr
<1>2. length[s.at] \in Nat /\ next[s.at] \in Ptr /\ s.at \in Ptr
    BY <1>1 DEF TypeOK, Ptr
<1>3. ASSUME NEW l, l \in {s, Take(s), [s EXCEPT !.space = s.at, !.exact = TRUE]}
      PROVE  /\ [l EXCEPT !.at = next[s.at]] \in LoopState
             /\ [l EXCEPT !.at = next[s.at]].at = next[s.at]
             /\ l = s => Kept(s, [l EXCEPT !.at = next[s.at]])
             /\ l = Take(s) => Took(s, [l EXCEPT !.at = next[s.at]])
             /\ l = [s EXCEPT !.space = s.at, !.exact = TRUE]
                  => Left(s, [l EXCEPT !.at = next[s.at]])
    BY <1>1, <1>2, <1>3 DEF LoopState, Take, Kept, Took, Left
<1> DEFINE Exit == [s EXCEPT !.space = s.at, !.exact = TRUE]
<1>4. RoundExact(s, n) = [LookExact(s, n) EXCEPT !.at = next[s.at]]
    BY DEF RoundExact
<1>5. RoundMost(s, n) = [LookMost(s, n) EXCEPT !.at = next[s.at]]
    BY DEF RoundMost
<1>6. \/ type[s.at] # "FREE" /\ LookExact(s, n) = s
      \/ type[s.at] = "FREE" /\ length[s.at] = n /\ LookExact(s, n) = Exit
      \/ /\ type[s.at] = "FREE" /\ length[s.at] # n
         /\ IF (s.blocks = 0 /\ length[s.at] >= n) \/ Better(s, n)
              THEN LookExact(s, n) = Take(s) ELSE LookExact(s, n) = s
    BY DEF LookExact
<1>7. \/ type[s.at] # "FREE" /\ LookMost(s, n) = s
      \/ type[s.at] = "FREE" /\ length[s.at] = n /\ LookMost(s, n) = Exit
      \/ /\ type[s.at] = "FREE" /\ length[s.at] # n
         /\ IF (s.blocks < n /\ length[s.at] > s.blocks) \/ Better(s, n)
              THEN LookMost(s, n) = Take(s) ELSE LookMost(s, n) = s
    BY DEF LookMost
<1> QED
    BY <1>1, <1>3, <1>4, <1>5, <1>6, <1>7

\* Where a loop is after k rounds: seen are the entries it has looked at.
Cut(s, seen, k) ==
  /\ seen \subseteq Listed
  /\ firstPmmEntry \in seen \cup {s.at}
  /\ \A q \in seen : next[q] \in seen \cup {s.at}
  /\ s.at # NULL => s.at \in Listed /\ base[s.at] >= k

\* The candidate is the first of the shortest that are long enough.
Shortest(s, seen, n) ==
  /\ s.space \in seen /\ type[s.space] = "FREE"
  /\ s.blocks = length[s.space] /\ s.blocks > n
  /\ s.at # NULL => s.at \in WalkFrom(s.space)
  /\ \A c \in seen : type[c] = "FREE" /\ length[c] >= n =>
       \/ length[s.space] < length[c]
       \/ length[s.space] = length[c] /\ c \in WalkFrom(s.space)

\* It is the first of the longest, and none is long enough.
Longest(s, seen, n) ==
  /\ s.space \in seen /\ type[s.space] = "FREE"
  /\ s.blocks = length[s.space] /\ s.blocks < n
  /\ s.at # NULL => s.at \in WalkFrom(s.space)
  /\ \A c \in seen : type[c] = "FREE" =>
       \/ length[s.space] > length[c]
       \/ length[s.space] = length[c] /\ c \in WalkFrom(s.space)

\* There is no candidate: nothing is long enough, or nothing is free.
NoneLong(s, seen, n) ==
  s.space = NULL /\ s.blocks = 0 /\ \A c \in seen : type[c] = "FREE" => length[c] < n
NoneFree(s, seen) ==
  s.space = NULL /\ s.blocks = 0 /\ \A c \in seen : type[c] # "FREE"

ExactInv(s, n, k) ==
  IF s.exact THEN BestFit(s.space, n)
  ELSE \E seen \in SUBSET Listed :
         Cut(s, seen, k) /\ (NoneLong(s, seen, n) \/ Shortest(s, seen, n))

MostInv(s, n, k) ==
  IF s.exact THEN BestFit(s.space, n)
  ELSE \E seen \in SUBSET Listed :
         /\ Cut(s, seen, k)
         /\ NoneFree(s, seen) \/ Longest(s, seen, n) \/ Shortest(s, seen, n)

\* What the lists are known to be like.
LEMMA ListFacts ==
  ASSUME ListInv
  PROVE  /\ firstPmmEntry \in Listed /\ NULL \notin Slot /\ NumPages \in Nat
         /\ MaxWalk \in Nat /\ MaxWalk = NumPages + 1
         /\ \A q \in Listed :
              /\ q \in Entries /\ q \in Slot /\ length[q] \in Nat /\ length[q] > 0
              /\ base[q] \in Nat /\ base[q] < NumPages
              /\ next[q] # NULL => /\ next[q] \in Listed
                                   /\ base[next[q]] \in Nat
                                   /\ base[q] + length[q] <= base[next[q]]
         /\ \A b \in Listed :
              /\ b \in WalkFrom(b)
              /\ \A q \in WalkFrom(b) : next[q] # NULL => next[q] \in WalkFrom(b)
<1>t. TypeOK /\ SpanInv /\ ListSound
    BY DEF ListInv, IInv
<1>1. NULL \notin Slot /\ NumPages \in Nat /\ MaxWalk \in Nat /\ MaxWalk = NumPages + 1
    BY PmmAssumption DEF MaxWalk
<1>2. /\ firstPmmEntry \in Listed
      /\ \A q \in Listed : q \in Entries /\ (next[q] # NULL => next[q] \in Listed)
    BY WalkCloses DEF ListInv, FirstInv, Listed
<1>3. ASSUME NEW q \in Entries
      PROVE  /\ q \in Slot /\ length[q] \in Nat /\ length[q] > 0
             /\ base[q] \in Nat /\ base[q] < NumPages
             /\ next[q] # NULL => base[q] + length[q] <= base[next[q]]
  <2>1. q \in Slot /\ length[q] \in Nat /\ length[q] > 0 /\ base[q] \in Nat
      BY <1>t DEF TypeOK, SpanInv, Entries
  <2>2. base[q] \in PagesOf(base[q], length[q])
      BY <2>1 DEF PagesOf
  <2>3. base[q] \in Page
      BY <2>2 DEF ListInv, Covered
  <2> QED
      BY <1>1, <1>t, <2>1, <2>3 DEF Page, ListSound
<1>4. \A b \in Listed :
        /\ b \in WalkFrom(b)
        /\ \A q \in WalkFrom(b) : next[q] # NULL => next[q] \in WalkFrom(b)
    BY <1>2, WalkCloses DEF ListInv
<1> QED
    BY <1>1, <1>2, <1>3, <1>4

\* A round moves the cut by one entry.
LEMMA CutStep ==
  ASSUME ListInv, NEW s \in LoopState, NEW r \in LoopState, NEW seen, NEW k \in Nat,
         Cut(s, seen, k), s.at # NULL, r.at = next[s.at]
  PROVE  Cut(r, seen \cup {s.at}, k + 1)
<1>1. s.at \in Listed /\ base[s.at] >= k
    BY DEF Cut
<1>2. r.at # NULL => r.at \in Listed /\ base[r.at] >= k + 1
    BY <1>1, ListFacts
<1> QED
    BY <1>1, <1>2 DEF Cut

\* What a loop has not looked at yet is what a walk from where it is meets.
LEMMA RestAhead ==
  ASSUME ListInv, NEW s \in LoopState, NEW seen, NEW k, Cut(s, seen, k)
  PROVE  /\ s.at # NULL => Listed \subseteq seen \cup WalkFrom(s.at)
         /\ s.at = NULL => Listed \subseteq seen
<1>t. TypeOK /\ firstPmmEntry \in Slot /\ Listed = WalkFrom(firstPmmEntry)
    BY DEF ListInv, IInv, TypeOK, Listed
<1>1. CASE s.at # NULL
  <2> DEFINE S == seen \cup WalkFrom(s.at)
  <2>1. s.at \in WalkFrom(s.at) /\ WalkFrom(s.at) \subseteq Slot
    <3>1. s.at \in Entries
        BY <1>1, ListFacts DEF Cut
    <3> QED
        BY <3>1, WalkCloses DEF ListInv, Entries
  <2>2. S \in SUBSET Slot /\ firstPmmEntry \in S
      BY <2>1, ListFacts DEF Cut
  <2>3. \A q \in S : next[q] # NULL => next[q] \in S
      BY <1>1, <2>1, ListFacts DEF Cut
  <2> HIDE DEF S
  <2>4. WalkFrom(firstPmmEntry) \subseteq S
      BY <1>t, <2>2, <2>3, WalkStays
  <2> QED
      BY <1>1, <1>t, <2>4 DEF S
<1>2. CASE s.at = NULL
  <2>1. seen \in SUBSET Slot /\ firstPmmEntry \in seen
      BY <1>2, ListFacts DEF Cut
  <2>2. \A q \in seen : next[q] # NULL => next[q] \in seen
      BY <1>2 DEF Cut
  <2>3. WalkFrom(firstPmmEntry) \subseteq seen
      BY <1>t, <2>1, <2>2, WalkStays
  <2> QED
      BY <1>2, <1>t, <2>3
<1> QED
    BY <1>1, <1>2

\* An entry of just the length, the first of them, is what a search is for.
LEMMA FoundExact ==
  ASSUME ListInv, NEW n \in Nat, NEW s \in LoopState, NEW seen, NEW k,
         Cut(s, seen, k), s.at # NULL, type[s.at] = "FREE", length[s.at] = n,
         \A c \in seen : type[c] = "FREE" => length[c] # n
  PROVE  BestFit(s.at, n)
<1>1. s.at \in FreeListed
    BY ListFacts DEF Cut, FreeListed
<1>2. ASSUME NEW c \in FreeListed, length[c] >= n
      PROVE  \/ length[s.at] < length[c]
             \/ length[s.at] = length[c] /\ c \in WalkFrom(s.at)
  <2>1. c \in Listed /\ type[c] = "FREE" /\ length[c] \in Nat
      BY ListFacts DEF FreeListed
  <2>2. c \in seen \/ c \in WalkFrom(s.at)
      BY <2>1, RestAhead
  <2> QED
      BY <1>2, <2>1, <2>2
<1> QED
    BY <1>1, <1>2 DEF BestFit

\* A shorter one that is long enough becomes the candidate.
LEMMA TookShorter ==
  ASSUME ListInv, NEW n \in Nat, NEW s \in LoopState, NEW r \in LoopState,
         NEW seen, NEW k, Cut(s, seen, k), s.at # NULL, r.at = next[s.at],
         type[s.at] = "FREE", length[s.at] > n, Took(s, r),
         \A c \in seen : type[c] = "FREE" /\ length[c] >= n => length[s.at] < length[c]
  PROVE  Shortest(r, seen \cup {s.at}, n)
<1>1. s.at \in Listed
    BY DEF Cut
<1>2. s.at \in WalkFrom(s.at) /\ (next[s.at] # NULL => next[s.at] \in WalkFrom(s.at))
    BY <1>1, ListFacts
<1> QED
    BY <1>1, <1>2 DEF Shortest, Took

\* A candidate that is long enough stays the one that is looked for.
LEMMA KeptShortest ==
  ASSUME ListInv, NEW n \in Nat, NEW s \in LoopState, NEW r \in LoopState,
         NEW seen, NEW k, Cut(s, seen, k), s.at # NULL, r.at = next[s.at],
         Shortest(s, seen, n), Kept(s, r),
         type[s.at] = "FREE" /\ length[s.at] >= n => length[s.at] >= s.blocks
  PROVE  Shortest(r, seen \cup {s.at}, n)
<1>1. s.at \in Listed /\ s.space \in Listed
    BY DEF Cut, Shortest
<1>2. s.at \in WalkFrom(s.space) /\ (next[s.at] # NULL => next[s.at] \in WalkFrom(s.space))
    BY <1>1, ListFacts DEF Shortest
<1>3. length[s.at] \in Nat /\ length[s.space] \in Nat
    BY <1>1, ListFacts
<1> QED
    BY <1>1, <1>2, <1>3 DEF Shortest, Kept

\* The same for the longest of those that are too short.
LEMMA TookLonger ==
  ASSUME ListInv, NEW n \in Nat, NEW s \in LoopState, NEW r \in LoopState,
         NEW seen, NEW k, Cut(s, seen, k), s.at # NULL, r.at = next[s.at],
         type[s.at] = "FREE", length[s.at] < n, Took(s, r),
         \A c \in seen : type[c] = "FREE" => length[c] < length[s.at]
  PROVE  Longest(r, seen \cup {s.at}, n)
<1>1. s.at \in Listed
    BY DEF Cut
<1>2. s.at \in WalkFrom(s.at) /\ (next[s.at] # NULL => next[s.at] \in WalkFrom(s.at))
    BY <1>1, ListFacts
<1>3. /\ r.space = s.at /\ r.blocks = length[s.at] /\ length[s.at] \in Nat
      /\ \A c \in seen : length[c] \in Nat
    BY <1>1, ListFacts DEF Took, Cut
<1> QED
    BY <1>1, <1>2, <1>3 DEF Longest

LEMMA KeptLongest ==
  ASSUME ListInv, NEW n \in Nat, NEW s \in LoopState, NEW r \in LoopState,
         NEW seen, NEW k, Cut(s, seen, k), s.at # NULL, r.at = next[s.at],
         Longest(s, seen, n), Kept(s, r),
         type[s.at] = "FREE" => length[s.at] <= s.blocks
  PROVE  Longest(r, seen \cup {s.at}, n)
<1>1. s.at \in Listed /\ s.space \in Listed
    BY DEF Cut, Longest
<1>2. s.at \in WalkFrom(s.space) /\ (next[s.at] # NULL => next[s.at] \in WalkFrom(s.space))
    BY <1>1, ListFacts DEF Longest
<1>3. length[s.at] \in Nat /\ length[s.space] \in Nat
    BY <1>1, ListFacts
<1> QED
    BY <1>1, <1>2, <1>3 DEF Longest, Kept

LEMMA ExactRound ==
  ASSUME ListInv, NEW n \in Nat \ {0}, NEW s \in LoopState, NEW k \in Nat,
         ExactInv(s, n, k)
  PROVE  ExactInv(RoundExact(s, n), n, k + 1)
<1> DEFINE r == RoundExact(s, n)
<1>t. TypeOK
    BY DEF ListInv, IInv
<1>1. CASE s.exact
    BY <1>1 DEF ExactInv, RoundExact, Over
<1>2. CASE ~s.exact
  <2>1. PICK seen \in SUBSET Listed :
          Cut(s, seen, k) /\ (NoneLong(s, seen, n) \/ Shortest(s, seen, n))
      BY <1>2 DEF ExactInv
  <2>2. CASE s.at = NULL
    <3>1. r = s /\ Cut(s, seen, k + 1)
        BY <2>1, <2>2 DEF RoundExact, Over, Cut
    <3> QED
        BY <1>2, <2>1, <3>1 DEF ExactInv
  <2>3. CASE s.at # NULL
    <3>0. ~Over(s)
        BY <1>2, <2>3 DEF Over
    <3> DEFINE later == seen \cup {s.at}
    <3>1. /\ r \in LoopState /\ r.at = next[s.at]
          /\ \/ type[s.at] # "FREE" /\ Kept(s, r)
             \/ type[s.at] = "FREE" /\ length[s.at] = n /\ Left(s, r)
             \/ /\ type[s.at] = "FREE" /\ length[s.at] # n
                /\ IF (s.blocks = 0 /\ length[s.at] >= n) \/ Better(s, n)
                     THEN Took(s, r) ELSE Kept(s, r)
        BY <1>t, <3>0, RoundShapes
    <3> HIDE DEF r
    <3>2. Cut(r, later, k + 1) /\ later \in SUBSET Listed
        BY <2>1, <2>3, <3>1, CutStep DEF Cut
    <3>3. /\ length[s.at] \in Nat /\ s.blocks \in Nat
          /\ \A c \in seen : length[c] \in Nat
        BY <2>1, <2>3, ListFacts DEF Cut, LoopState
    <3> DEFINE More == (s.blocks = 0 /\ length[s.at] >= n) \/ Better(s, n)
    <3>4. ASSUME type[s.at] = "FREE", length[s.at] = n, Left(s, r)
          PROVE  ExactInv(r, n, k + 1)
      <4>1. \A c \in seen : type[c] = "FREE" => length[c] # n
          BY <2>1, <3>3 DEF NoneLong, Shortest
      <4> QED
          BY <2>1, <2>3, <3>4, <4>1, FoundExact DEF ExactInv, Left
    <3>5. ASSUME type[s.at] = "FREE", length[s.at] # n, More, Took(s, r)
          PROVE  ExactInv(r, n, k + 1)
      <4>0. length[s.at] > n
          BY <3>3, <3>5 DEF Better
      <4>1. \A c \in seen : type[c] = "FREE" /\ length[c] >= n => length[s.at] < length[c]
        <5>1. CASE NoneLong(s, seen, n)
            BY <3>3, <5>1 DEF NoneLong
        <5>2. CASE Shortest(s, seen, n)
            BY <3>3, <3>5, <5>2 DEF Shortest, Better
        <5> QED
            BY <2>1, <5>1, <5>2
      <4>2. Shortest(r, later, n)
          BY <2>1, <2>3, <3>1, <3>5, <4>0, <4>1, TookShorter
      <4> QED
          BY <3>2, <3>5, <4>2 DEF ExactInv, Took
    <3>6. ASSUME type[s.at] # "FREE" \/ (length[s.at] # n /\ ~More), Kept(s, r)
          PROVE  ExactInv(r, n, k + 1)
      <4>1. CASE Shortest(s, seen, n)
        <5>1. type[s.at] = "FREE" /\ length[s.at] >= n => length[s.at] >= s.blocks
            BY <3>3, <3>6, <4>1 DEF Shortest, Better
        <5>2. Shortest(r, later, n)
            BY <2>1, <2>3, <3>1, <3>6, <4>1, <5>1, KeptShortest
        <5> QED
            BY <3>2, <3>6, <5>2 DEF ExactInv, Kept
      <4>2. CASE NoneLong(s, seen, n)
        <5>1. type[s.at] = "FREE" => length[s.at] < n
            BY <3>3, <3>6, <4>2 DEF NoneLong
        <5>2. NoneLong(r, later, n)
            BY <3>6, <4>2, <5>1 DEF NoneLong, Kept
        <5> QED
            BY <3>2, <3>6, <5>2 DEF ExactInv, Kept
      <4> QED
          BY <2>1, <4>1, <4>2
    <3>7. ExactInv(r, n, k + 1)
        BY <3>1, <3>4, <3>5, <3>6
    <3> QED
        BY <3>7 DEF r
  <2> QED
      BY <2>2, <2>3
<1> QED
    BY <1>1, <1>2

LEMMA MostRound ==
  ASSUME ListInv, NEW n \in Nat \ {0}, NEW s \in LoopState, NEW k \in Nat,
         MostInv(s, n, k)
  PROVE  MostInv(RoundMost(s, n), n, k + 1)
<1> DEFINE r == RoundMost(s, n)
<1>t. TypeOK
    BY DEF ListInv, IInv
<1>1. CASE s.exact
    BY <1>1 DEF MostInv, RoundMost, Over
<1>2. CASE ~s.exact
  <2>1. PICK seen \in SUBSET Listed :
          /\ Cut(s, seen, k)
          /\ NoneFree(s, seen) \/ Longest(s, seen, n) \/ Shortest(s, seen, n)
      BY <1>2 DEF MostInv
  <2>2. CASE s.at = NULL
    <3>1. r = s /\ Cut(s, seen, k + 1)
        BY <2>1, <2>2 DEF RoundMost, Over, Cut
    <3> QED
        BY <1>2, <2>1, <3>1 DEF MostInv
  <2>3. CASE s.at # NULL
    <3>0. ~Over(s)
        BY <1>2, <2>3 DEF Over
    <3> DEFINE later == seen \cup {s.at}
               More == (s.blocks < n /\ length[s.at] > s.blocks) \/ Better(s, n)
    <3>1. /\ r \in LoopState /\ r.at = next[s.at]
          /\ \/ type[s.at] # "FREE" /\ Kept(s, r)
             \/ type[s.at] = "FREE" /\ length[s.at] = n /\ Left(s, r)
             \/ /\ type[s.at] = "FREE" /\ length[s.at] # n
                /\ IF More THEN Took(s, r) ELSE Kept(s, r)
        BY <1>t, <3>0, RoundShapes
    <3> HIDE DEF r
    <3>2. Cut(r, later, k + 1) /\ later \in SUBSET Listed
        BY <2>1, <2>3, <3>1, CutStep DEF Cut
    <3>3. /\ length[s.at] \in Nat /\ length[s.at] > 0 /\ s.blocks \in Nat
          /\ \A c \in seen : length[c] \in Nat
        BY <2>1, <2>3, ListFacts DEF Cut, LoopState
    <3>4. ASSUME type[s.at] = "FREE", length[s.at] = n, Left(s, r)
          PROVE  MostInv(r, n, k + 1)
      <4>1. \A c \in seen : type[c] = "FREE" => length[c] # n
          BY <2>1, <3>3 DEF NoneFree, Longest, Shortest
      <4> QED
          BY <2>1, <2>3, <3>4, <4>1, FoundExact DEF MostInv, Left
    <3>5. ASSUME type[s.at] = "FREE", length[s.at] # n, More, Took(s, r)
          PROVE  MostInv(r, n, k + 1)
      <4>1. CASE length[s.at] > n
        <5>1. \A c \in seen : type[c] = "FREE" /\ length[c] >= n
                                => length[s.at] < length[c]
          <6>1. CASE NoneFree(s, seen)
              BY <6>1 DEF NoneFree
          <6>2. CASE Longest(s, seen, n)
              BY <3>3, <6>2 DEF Longest
          <6>3. CASE Shortest(s, seen, n)
              BY <3>3, <3>5, <6>3 DEF Shortest, Better
          <6> QED
              BY <2>1, <6>1, <6>2, <6>3
        <5>2. Shortest(r, later, n)
            BY <2>1, <2>3, <3>1, <3>5, <4>1, <5>1, TookShorter
        <5> QED
            BY <3>2, <3>5, <5>2 DEF MostInv, Took
      <4>2. CASE length[s.at] < n
        <5>1. ~Shortest(s, seen, n)
            BY <3>3, <3>5, <4>2 DEF Shortest, Better
        <5>2. \A c \in seen : type[c] = "FREE" => length[c] < length[s.at]
          <6>1. CASE NoneFree(s, seen)
              BY <6>1 DEF NoneFree
          <6>2. CASE Longest(s, seen, n)
              BY <3>3, <3>5, <6>2 DEF Longest, Better
          <6> QED
              BY <2>1, <5>1, <6>1, <6>2
        <5>3. Longest(r, later, n)
            BY <2>1, <2>3, <3>1, <3>5, <4>2, <5>2, TookLonger
        <5> QED
            BY <3>2, <3>5, <5>3 DEF MostInv, Took
      <4> QED
          BY <3>3, <3>5, <4>1, <4>2
    <3>6. ASSUME type[s.at] # "FREE" \/ (length[s.at] # n /\ ~More), Kept(s, r)
          PROVE  MostInv(r, n, k + 1)
      <4>1. CASE Shortest(s, seen, n)
        <5>1. type[s.at] = "FREE" /\ length[s.at] >= n => length[s.at] >= s.blocks
            BY <3>3, <3>6, <4>1 DEF Shortest, Better
        <5>2. Shortest(r, later, n)
            BY <2>1, <2>3, <3>1, <3>6, <4>1, <5>1, KeptShortest
        <5> QED
            BY <3>2, <3>6, <5>2 DEF MostInv, Kept
      <4>2. CASE Longest(s, seen, n)
        <5>1. type[s.at] = "FREE" => length[s.at] <= s.blocks
            BY <3>3, <3>6, <4>2 DEF Longest
        <5>2. Longest(r, later, n)
            BY <2>1, <2>3, <3>1, <3>6, <4>2, <5>1, KeptLongest
        <5> QED
            BY <3>2, <3>6, <5>2 DEF MostInv, Kept
      <4>3. CASE NoneFree(s, seen)
        <5>1. type[s.at] # "FREE"
            BY <3>3, <3>6, <4>3 DEF NoneFree
        <5>2. NoneFree(r, later)
            BY <3>6, <4>3, <5>1 DEF NoneFree, Kept
        <5> QED
            BY <3>2, <3>6, <5>2 DEF MostInv, Kept
      <4> QED
          BY <2>1, <4>1, <4>2, <4>3
    <3>7. MostInv(r, n, k + 1)
        BY <3>1, <3>4, <3>5, <3>6
    <3> QED
        BY <3>7 DEF r
  <2> QED
      BY <2>2, <2>3
<1> QED
    BY <1>1, <1>2

\* What a loop has found when it is over.
LEMMA LoopEnds ==
  ASSUME ListInv, NEW n \in Nat \ {0}, NEW s \in LoopState
  PROVE  /\ ExactInv(s, n, MaxWalk) =>
              IF Fits(n) THEN BestFit(s.space, n) ELSE s.space = NULL
         /\ MostInv(s, n, MaxWalk) =>
              IF FreeListed # {} THEN MostFit(s.space, n) ELSE s.space = NULL
<1>f. /\ \A c \in FreeListed : c \in Listed /\ type[c] = "FREE" /\ length[c] \in Nat
      /\ \A c \in Listed : type[c] = "FREE" => c \in FreeListed
    BY ListFacts DEF FreeListed
<1>1. ASSUME s.exact, BestFit(s.space, n)
      PROVE  Fits(n) /\ MostFit(s.space, n)
    BY <1>1 DEF BestFit, Fits, MostFit
<1>2. ASSUME NEW seen \in SUBSET Listed, Cut(s, seen, MaxWalk)
      PROVE  Listed = seen
  <2>1. s.at = NULL
    <3>1. SUFFICES ASSUME s.at # NULL PROVE FALSE
        OBVIOUS
    <3>2. s.at \in Listed /\ base[s.at] >= MaxWalk
        BY <1>2, <3>1 DEF Cut
    <3>3. /\ base[s.at] \in Nat /\ base[s.at] < NumPages
          /\ NumPages \in Nat /\ MaxWalk = NumPages + 1
        BY <3>2, ListFacts
    <3> QED
        BY <3>2, <3>3
  <2> QED
      BY <1>2, <2>1, RestAhead
<1>3. ASSUME Shortest(s, Listed, n)
      PROVE  BestFit(s.space, n) /\ Fits(n) /\ MostFit(s.space, n)
  <2>1. s.space \in FreeListed /\ length[s.space] >= n
      BY <1>3, <1>f DEF Shortest
  <2>2. BestFit(s.space, n)
      BY <1>3, <1>f, <2>1 DEF Shortest, BestFit
  <2> QED
      BY <2>1, <2>2 DEF Fits, MostFit
<1>4. ASSUME NoneLong(s, Listed, n)
      PROVE  ~Fits(n) /\ s.space = NULL
    BY <1>4, <1>f DEF NoneLong, Fits
<1>5. ASSUME NoneFree(s, Listed)
      PROVE  FreeListed = {} /\ s.space = NULL
    BY <1>5, <1>f DEF NoneFree
<1>6. ASSUME Longest(s, Listed, n)
      PROVE  MostFit(s.space, n)
  <2>1. s.space \in FreeListed /\ length[s.space] < n
      BY <1>6, <1>f DEF Longest
  <2>2. ~Fits(n)
      BY <1>6, <1>f, <2>1 DEF Longest, Fits
  <2> QED
      BY <1>6, <1>f, <2>1, <2>2 DEF Longest, MostFit
<1>7. ASSUME MostFit(s.space, n) PROVE FreeListed # {}
    BY <1>7 DEF MostFit, BestFit
<1>8. ASSUME ExactInv(s, n, MaxWalk)
      PROVE  IF Fits(n) THEN BestFit(s.space, n) ELSE s.space = NULL
    BY <1>1, <1>2, <1>3, <1>4, <1>8 DEF ExactInv
<1>9. ASSUME MostInv(s, n, MaxWalk)
      PROVE  IF FreeListed # {} THEN MostFit(s.space, n) ELSE s.space = NULL
    BY <1>1, <1>2, <1>3, <1>5, <1>6, <1>7, <1>9 DEF MostInv
<1> QED
    BY <1>8, <1>9

\* A loop starts with nothing seen, at the head of the list.
LEMMA LoopsStart ==
  ASSUME ListInv, NEW n \in Nat
  PROVE  LoopStart \in LoopState /\ ExactInv(LoopStart, n, 0) /\ MostInv(LoopStart, n, 0)
<1>1. /\ LoopStart.at = firstPmmEntry /\ LoopStart.blocks = 0
      /\ LoopStart.space = NULL /\ ~LoopStart.exact
    BY DEF LoopStart
<1>2. LoopStart \in LoopState
    BY ListFacts DEF LoopStart, LoopState, Ptr
<1>3. Cut(LoopStart, {}, 0)
    BY <1>1, ListFacts DEF Cut
<1>4. NoneLong(LoopStart, {}, n) /\ NoneFree(LoopStart, {})
    BY <1>1 DEF NoneLong, NoneFree
<1>5. {} \in SUBSET Listed
    OBVIOUS
<1> QED
    BY <1>1, <1>2, <1>3, <1>4, <1>5 DEF ExactInv, MostInv

\* A search is as many rounds of its loop as the list can have entries, and one more.
LEMMA LoopExact ==
  ASSUME TypeOK, NEW n \in Nat
  PROVE  \E f \in [0..MaxWalk -> LoopState] :
           /\ f[0] = LoopStart
           /\ \A k \in 0..(MaxWalk - 1) : f[k + 1] = RoundExact(f[k], n)
           /\ searchExact(n) = f[MaxWalk].space
<1> DEFINE F == [s \in LoopState |-> RoundExact(s, n)]
           N == MaxWalk
<1>1. N \in Nat /\ LoopStart \in LoopState
    BY PmmAssumption DEF MaxWalk, TypeOK, LoopStart, LoopState, Ptr
<1>2. F \in [LoopState -> LoopState]
  <2>1. ASSUME NEW s \in LoopState
        PROVE  RoundExact(s, n) \in LoopState
    <3>1. CASE Over(s)
        BY <3>1 DEF RoundExact
    <3>2. CASE ~Over(s)
        BY <3>2, RoundShapes
    <3> QED
        BY <3>1, <3>2
  <2> QED
      BY <2>1
<1>3. \A f : Iterates(f, LoopStart, F, N)
        => f = [k \in 0..N |-> IF k = 0 THEN LoopStart ELSE RoundExact(f[k - 1], n)]
  <2> SUFFICES ASSUME NEW f, Iterates(f, LoopStart, F, N)
               PROVE  f = [k \in 0..N |->
                             IF k = 0 THEN LoopStart ELSE RoundExact(f[k - 1], n)]
      OBVIOUS
  <2>1. f = [k \in 0..N |-> IF k = 0 THEN LoopStart ELSE F[f[k - 1]]]
      BY DEF Iterates
  <2> HIDE DEF F
  <2>2. f \in [0..N -> LoopState]
      BY <1>1, <1>2, IterationType
  <2>3. \A k \in 0..N : k # 0 => F[f[k - 1]] = RoundExact(f[k - 1], n)
    <3> SUFFICES ASSUME NEW k \in 0..N, k # 0
                 PROVE  F[f[k - 1]] = RoundExact(f[k - 1], n)
        OBVIOUS
    <3>1. k - 1 \in 0..N
        BY <1>1
    <3>2. f[k - 1] \in LoopState
        BY <2>2, <3>1
    <3> QED
        BY <3>2 DEF F
  <2> QED
      BY <2>1, <2>3
<1> HIDE DEF F
<1>4. \E f : Iterates(f, LoopStart, F, N)
    BY <1>1, IterationExists
<1> DEFINE run == CHOOSE f :
             f = [k \in 0..N |-> IF k = 0 THEN LoopStart ELSE RoundExact(f[k - 1], n)]
<1>5. /\ searchExact(n) = run[N].space
      /\ run = [k \in 0..N |-> IF k = 0 THEN LoopStart ELSE RoundExact(run[k - 1], n)]
    BY <1>3, <1>4 DEF searchExact
<1> HIDE DEF run
<1>6. \A k \in 0..(N - 1) : k + 1 \in 0..N /\ k + 1 # 0 /\ (k + 1) - 1 = k
    BY <1>1
<1>7. /\ run[0] = LoopStart
      /\ \A k \in 0..(N - 1) : run[k + 1] = RoundExact(run[k], n)
  <2>1. 0 \in 0..N
      BY <1>1
  <2> QED
      BY <1>5, <1>6, <2>1
<1>8. run \in [0..N -> LoopState]
  <2> DEFINE S == {k \in 0..N : run[k] \in LoopState}
  <2>1. 0 \in S
      BY <1>1, <1>7
  <2>2. \A k \in 0..(N - 1) : k \in S => k + 1 \in S
    <3> SUFFICES ASSUME NEW k \in 0..(N - 1), run[k] \in LoopState
                 PROVE  run[k + 1] \in LoopState
        BY <1>6
    <3>1. RoundExact(run[k], n) \in LoopState
      <4>1. CASE Over(run[k])
          BY <4>1 DEF RoundExact
      <4>2. CASE ~Over(run[k])
          BY <4>2, RoundShapes
      <4> QED
          BY <4>1, <4>2
    <3> QED
        BY <1>7, <3>1
  <2> HIDE DEF S
  <2>3. 0..N \subseteq S
      BY <1>1, <2>1, <2>2, Reaches
  <2>4. \A k \in 0..N : run[k] \in LoopState
      BY <2>3 DEF S
  <2>5. DOMAIN run = 0..N /\ run = [k \in 0..N |-> run[k]]
      BY <1>5
  <2> QED
      BY <2>4, <2>5
<1> QED
    BY <1>5, <1>7, <1>8

LEMMA SearchExact ==
  ASSUME ListInv, NEW n \in Nat \ {0}
  PROVE  \E s \in LoopState : ExactInv(s, n, MaxWalk) /\ s.space = searchExact(n)
<1>t. TypeOK /\ MaxWalk \in Nat
    BY ListFacts DEF ListInv, IInv
<1>1. PICK f \in [0..MaxWalk -> LoopState] :
        /\ f[0] = LoopStart
        /\ \A k \in 0..(MaxWalk - 1) : f[k + 1] = RoundExact(f[k], n)
        /\ searchExact(n) = f[MaxWalk].space
    BY <1>t, LoopExact
<1> DEFINE S == {k \in 0..MaxWalk : ExactInv(f[k], n, k)}
<1>2. 0 \in S
    BY <1>t, <1>1, LoopsStart
<1>3. ASSUME NEW k \in 0..(MaxWalk - 1), k \in S
      PROVE  k + 1 \in S
  <2>1. /\ k \in 0..MaxWalk /\ k + 1 \in 0..MaxWalk /\ k \in Nat
        /\ f[k] \in LoopState /\ ExactInv(f[k], n, k)
      BY <1>t, <1>1, <1>3
  <2>2. ExactInv(RoundExact(f[k], n), n, k + 1)
      BY <2>1, ExactRound
  <2> QED
      BY <1>1, <2>1, <2>2
<1> HIDE DEF S
<1>4. 0..MaxWalk \subseteq S
    BY <1>t, <1>2, <1>3, Reaches
<1>5. MaxWalk \in 0..MaxWalk
    BY <1>t
<1>6. ExactInv(f[MaxWalk], n, MaxWalk)
    BY <1>4, <1>5 DEF S
<1> QED
    BY <1>1, <1>5, <1>6

\* The same for the loop of pmm_allocMost.
LEMMA LoopMost ==
  ASSUME TypeOK, NEW n \in Nat
  PROVE  \E f \in [0..MaxWalk -> LoopState] :
           /\ f[0] = LoopStart
           /\ \A k \in 0..(MaxWalk - 1) : f[k + 1] = RoundMost(f[k], n)
           /\ searchMost(n) = f[MaxWalk].space
<1> DEFINE F == [s \in LoopState |-> RoundMost(s, n)]
           N == MaxWalk
<1>1. N \in Nat /\ LoopStart \in LoopState
    BY PmmAssumption DEF MaxWalk, TypeOK, LoopStart, LoopState, Ptr
<1>2. F \in [LoopState -> LoopState]
  <2>1. ASSUME NEW s \in LoopState
        PROVE  RoundMost(s, n) \in LoopState
    <3>1. CASE Over(s)
        BY <3>1 DEF RoundMost
    <3>2. CASE ~Over(s)
        BY <3>2, RoundShapes
    <3> QED
        BY <3>1, <3>2
  <2> QED
      BY <2>1
<1>3. \A f : Iterates(f, LoopStart, F, N)
        => f = [k \in 0..N |-> IF k = 0 THEN LoopStart ELSE RoundMost(f[k - 1], n)]
  <2> SUFFICES ASSUME NEW f, Iterates(f, LoopStart, F, N)
               PROVE  f = [k \in 0..N |->
                             IF k = 0 THEN LoopStart ELSE RoundMost(f[k - 1], n)]
      OBVIOUS
  <2>1. f = [k \in 0..N |-> IF k = 0 THEN LoopStart ELSE F[f[k - 1]]]
      BY DEF Iterates
  <2> HIDE DEF F
  <2>2. f \in [0..N -> LoopState]
      BY <1>1, <1>2, IterationType
  <2>3. \A k \in 0..N : k # 0 => F[f[k - 1]] = RoundMost(f[k - 1], n)
    <3> SUFFICES ASSUME NEW k \in 0..N, k # 0
                 PROVE  F[f[k - 1]] = RoundMost(f[k - 1], n)
        OBVIOUS
    <3>1. k - 1 \in 0..N
        BY <1>1
    <3>2. f[k - 1] \in LoopState
        BY <2>2, <3>1
    <3> QED
        BY <3>2 DEF F
  <2> QED
      BY <2>1, <2>3
<1> HIDE DEF F
<1>4. \E f : Iterates(f, LoopStart, F, N)
    BY <1>1, IterationExists
<1> DEFINE run == CHOOSE f :
             f = [k \in 0..N |-> IF k = 0 THEN LoopStart ELSE RoundMost(f[k - 1], n)]
<1>5. /\ searchMost(n) = run[N].space
      /\ run = [k \in 0..N |-> IF k = 0 THEN LoopStart ELSE RoundMost(run[k - 1], n)]
    BY <1>3, <1>4 DEF searchMost
<1> HIDE DEF run
<1>6. \A k \in 0..(N - 1) : k + 1 \in 0..N /\ k + 1 # 0 /\ (k + 1) - 1 = k
    BY <1>1
<1>7. /\ run[0] = LoopStart
      /\ \A k \in 0..(N - 1) : run[k + 1] = RoundMost(run[k], n)
  <2>1. 0 \in 0..N
      BY <1>1
  <2> QED
      BY <1>5, <1>6, <2>1
<1>8. run \in [0..N -> LoopState]
  <2> DEFINE S == {k \in 0..N : run[k] \in LoopState}
  <2>1. 0 \in S
      BY <1>1, <1>7
  <2>2. \A k \in 0..(N - 1) : k \in S => k + 1 \in S
    <3> SUFFICES ASSUME NEW k \in 0..(N - 1), run[k] \in LoopState
                 PROVE  run[k + 1] \in LoopState
        BY <1>6
    <3>1. RoundMost(run[k], n) \in LoopState
      <4>1. CASE Over(run[k])
          BY <4>1 DEF RoundMost
      <4>2. CASE ~Over(run[k])
          BY <4>2, RoundShapes
      <4> QED
          BY <4>1, <4>2
    <3> QED
        BY <1>7, <3>1
  <2> HIDE DEF S
  <2>3. 0..N \subseteq S
      BY <1>1, <2>1, <2>2, Reaches
  <2>4. \A k \in 0..N : run[k] \in LoopState
      BY <2>3 DEF S
  <2>5. DOMAIN run = 0..N /\ run = [k \in 0..N |-> run[k]]
      BY <1>5
  <2> QED
      BY <2>4, <2>5
<1> QED
    BY <1>5, <1>7, <1>8

LEMMA SearchMost ==
  ASSUME ListInv, NEW n \in Nat \ {0}
  PROVE  \E s \in LoopState : MostInv(s, n, MaxWalk) /\ s.space = searchMost(n)
<1>t. TypeOK /\ MaxWalk \in Nat
    BY ListFacts DEF ListInv, IInv
<1>1. PICK f \in [0..MaxWalk -> LoopState] :
        /\ f[0] = LoopStart
        /\ \A k \in 0..(MaxWalk - 1) : f[k + 1] = RoundMost(f[k], n)
        /\ searchMost(n) = f[MaxWalk].space
    BY <1>t, LoopMost
<1> DEFINE S == {k \in 0..MaxWalk : MostInv(f[k], n, k)}
<1>2. 0 \in S
    BY <1>t, <1>1, LoopsStart
<1>3. ASSUME NEW k \in 0..(MaxWalk - 1), k \in S
      PROVE  k + 1 \in S
  <2>1. /\ k \in 0..MaxWalk /\ k + 1 \in 0..MaxWalk /\ k \in Nat
        /\ f[k] \in LoopState /\ MostInv(f[k], n, k)
      BY <1>t, <1>1, <1>3
  <2>2. MostInv(RoundMost(f[k], n), n, k + 1)
      BY <2>1, MostRound
  <2> QED
      BY <1>1, <2>1, <2>2
<1> HIDE DEF S
<1>4. 0..MaxWalk \subseteq S
    BY <1>t, <1>2, <1>3, Reaches
<1>5. MaxWalk \in 0..MaxWalk
    BY <1>t
<1>6. MostInv(f[MaxWalk], n, MaxWalk)
    BY <1>4, <1>5 DEF S
<1> QED
    BY <1>1, <1>5, <1>6


\* Both loops find what pmm_alloc and pmm_allocMost are to return.
LEMMA LoopsAgree ==
  ASSUME ListInv
  PROVE  LoopsFind
<1> SUFFICES ASSUME NEW n \in Sizes
             PROVE  /\ IF Fits(n) THEN BestFit(searchExact(n), n)
                                  ELSE searchExact(n) = NULL
                    /\ IF FreeListed # {} THEN MostFit(searchMost(n), n)
                                         ELSE searchMost(n) = NULL
    BY DEF LoopsFind, AllocLoopFinds, MostLoopFinds
<1>1. n \in Nat \ {0}
    BY PmmAssumption
<1>2. PICK s \in LoopState : ExactInv(s, n, MaxWalk) /\ s.space = searchExact(n)
    BY <1>1, SearchExact
<1>3. PICK m \in LoopState : MostInv(m, n, MaxWalk) /\ m.space = searchMost(n)
    BY <1>1, SearchMost
<1>4. IF Fits(n) THEN BestFit(s.space, n) ELSE s.space = NULL
    BY <1>1, <1>2, LoopEnds
<1>5. IF FreeListed # {} THEN MostFit(m.space, n) ELSE m.space = NULL
    BY <1>1, <1>3, LoopEnds
<1> QED
    BY <1>2, <1>3, <1>4, <1>5

\* In every state the loops of pmm_alloc and pmm_allocMost end on the entry they
\* are to find: the first of the shortest free ones that are long enough, for
\* pmm_allocMost else the first of the longest, and none when nothing is free.
THEOREM SearchLoopsRight ==
  ASSUME FirstKept
  PROVE  Spec => []LoopsFind
<1>1. Spec => []ListInv
    BY ListHolds
<1>2. ListInv => LoopsFind
    BY LoopsAgree
<1> QED
    BY <1>1, <1>2, PTL
=============================================================================
