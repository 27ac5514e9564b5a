------------------------------- MODULE PmmInv -------------------------------
(***************************************************************************)
(* The inductive invariant behind the theorems of PmmProofs, and the       *)
(* smaller invariants it is made of.  TypeOK and ListSound are those of    *)
(* Pmm; EntriesDisjoint needs to know that no entry is empty, NoPageLost   *)
(* and ListSound that the running call works on entries, and the merge of  *)
(* heapExpand that what the heap merges is nobody's grant.                 *)
(***************************************************************************)
EXTENDS Pmm

WorkingPc == {"return", "addResv", "fillResv", "mergeNext", "mergePrev"}
HeldEntries == {g.entry : g \in held}

\* The entries the running call works on are entries.
WorkInv ==
  /\ pc \in WorkingPc => cur \in Entries
  /\ pc \in {"idle", "mergeNext", "mergePrev"} => pending = <<>>
  /\ \A i \in DOMAIN pending : pending[i].block \in Entries

\* Entries have pages, and overlap no other.
SpanInv ==
  /\ \A s \in Entries : length[s] > 0
  /\ EntriesDisjoint

\* Nobody but its holder works on a granted entry.
HeldInv ==
  /\ \A s \in Slot : type[s] = "FREE" => owner[s] = 0
  /\ \A g \in held : type[g.entry] = "USED" /\ owner[g.entry] = 0
  /\ \A g, h \in held : g.entry = h.entry => g = h
  /\ pc \in WorkingPc => cur \notin HeldEntries
  /\ pc \in {"return", "addResv", "fillResv"} => owner[cur] = 0
  /\ pc = "return" => type[cur] = "USED"
  /\ \A i \in DOMAIN pending :
       pending[i].block \notin HeldEntries /\ owner[pending[i].block] = 0

IInv == TypeOK /\ WorkInv /\ SpanInv /\ ListSound /\ HeldInv

-----------------------------------------------------------------------------
(* Before the first table extension (the proofs of PmmTableProofs).        *)

\* The one table is where setupMemoryMap put it, and its entry is the META
\* entry, on which no call works.
TableInv ==
  /\ resvNext = 0 /\ pending = <<>> /\ pc # "fillResv"
  /\ \A r \in Resv : rentry[r] # NULL => r = 0
  /\ rentry[0] \in Entries
  /\ type[rentry[0]] = "META" /\ owner[rentry[0]] = 0
  /\ base[rentry[0]] \in TableArea
  /\ pc \in WorkingPc => type[cur] \in {"FREE", "USED"}

\* What a grant says of its entry is what the entry says, the heap's pages are
\* in entries of the heap, and the block pmm_alloc is about to return was cut
\* to the length it was asked for.
GrantInv ==
  /\ \A g \in held : base[g.entry] = g.base /\ length[g.entry] = g.len
  /\ \A p \in heapPages : \E e \in Entries :
       type[e] = "USED" /\ owner[e] = HEAP /\ p \in PagesOf(base[e], length[e])
  /\ pc \in {"return", "addResv"} /\ caller.fn = "pmm_alloc"
       => length[cur] = caller.len
  /\ pc = "addResv" /\ ~HeapUp => type[cur] = "FREE"

\* Every slot is accounted to initialResv, which counts the entries.
CountInv ==
  /\ \A s \in Slot : parent[s] = 0
  /\ numEntries[0] = Cardinality(Entries)

\* A slot of the table holds an entry or is EMPTY, and no entry is outside it;
\* one slot is left when the table is to be extended, two at any other time.
RoomInv ==
  /\ Entries \subseteq TableSlots(0)
  /\ \A s \in Slot : s \in TableSlots(0) => type[s] \in EntryType \cup {"EMPTY"}
  /\ pc # "panic"
  /\ numEntries[0] + 1 <= capacity[0]
  /\ pc \notin {"addResv", "fault"} => numEntries[0] + 2 <= capacity[0]

\* What setupMemoryMap guarantees (RoomToSplit of SetupMemoryMap).
RoomyTables == \A t \in Tables : IsRoomy(t)

\* Entries that touch are neighbours in the list.
TouchInv == \A a, b \in Entries : Adjoins(a, b) => next[a] = b

BothFree(a, b) == type[a] = "FREE" /\ type[b] = "FREE"

\* Free entries touch only where the running merge still has to look.
MergeInv ==
  \A a, b \in Entries : Adjoins(a, b) /\ BothFree(a, b) =>
    /\ pc \notin {"idle", "return"}
    /\ pc = "mergeNext" => cur \in {a, b}
    /\ pc = "mergePrev" => cur = b

\* The loader lists memory that touches and is usable as one region.
MergedTables == \A t \in Tables : IsMerged(t)

-----------------------------------------------------------------------------
(* The searches.                                                           *)

\* The first usable region is long enough for the table, so that no FREE entry
\* comes before the table's own.
FirstKept == \A t \in Tables : IsFirstKept(t)

\* No call works on the entry at firstPmmEntry, so that no merge absorbs it.
FirstInv ==
  /\ firstPmmEntry \in Entries
  /\ type[firstPmmEntry] # "FREE" /\ owner[firstPmmEntry] = 0
  /\ pc \in WorkingPc => cur # firstPmmEntry
  /\ firstPmmEntry \notin HeldEntries
  /\ \A i \in DOMAIN pending : pending[i].block # firstPmmEntry

\* It is the only one without an entry before it.
HeadInv == \A s \in Entries : prev[s] = NULL => s = firstPmmEntry
=============================================================================
