------------------------------- MODULE HeapInv -------------------------------
(***************************************************************************)
(* The inductive invariants behind the theorems of HeapProofs.  A heap     *)
(* that is not damaged is held together by the addresses: the              *)
(* descriptors tile the sections, next leads to the one that begins where  *)
(* this one ends or to a section, and a stale prev never looks like a      *)
(* block that ends here.                                                   *)
(***************************************************************************)
EXTENDS Heap

Descs == {d \in Addr : magic[d]}

\* Whether or not the heap is damaged: what looks like a used descriptor.
MarkInv ==
  /\ magic \in [Addr -> BOOLEAN]
  /\ used \in [Addr -> BOOLEAN]
  /\ \A b \in live : b = [at |-> b.at, size |-> b.size]
  /\ pc = "boot" => Descs = {} /\ live = {}
  /\ OnlyLiveFreeable

Start(r) == r.base * PageSize
Stop(r) == (r.base + r.len) * PageSize

Disjoint(q, r) == q.base + q.len <= r.base \/ r.base + r.len <= q.base
Distant(q, r) == q.base + q.len < r.base \/ r.base + r.len < q.base

\* The runs of pages: nobody's twice, and two of the heap never touch.
RunsInv ==
  /\ \A r \in freeRuns \cup heapRuns : r.base > 0 /\ r.base + r.len <= NumPages
  /\ \A q, r \in freeRuns : q # r => Disjoint(q, r)
  /\ \A q \in heapRuns, r \in freeRuns : Disjoint(q, r)
  /\ \A q, r \in heapRuns : q # r => Distant(q, r)

Within(d, r) == Start(r) <= d /\ End(d) <= Stop(r)

\* Every descriptor and its block are in a section and overlap no other.
TileInv ==
  /\ \A d \in Descs : \E r \in heapRuns : Within(d, r)
  /\ \A d, e \in Descs : d # e => End(d) <= e \/ End(e) <= d

\* next leads to the neighbour, or from the end of a section to another one.
NextInv ==
  /\ \A d \in Descs : next[d] # NULL =>
       /\ next[d] \in Descs
       /\ next[d] # firstHeapDesc
       /\ End(d) = next[d] \/ next[d] \in SectionStarts
  /\ \A d, e \in Descs : End(d) = e => next[d] = e

\* prev leads to the neighbour, or to something that ends before this one.
Stale(p, x) == End(p) < x \/ x \in SectionStarts

PrevInv ==
  \A x \in Descs : prev[x] # NULL =>
    \/ prev[x] \in Descs /\ next[prev[x]] = x
    \/ Stale(prev[x], x) /\ \E r \in heapRuns : Within(prev[x], r)

EndsInv ==
  /\ pc = "boot" => Descs = {} /\ heapRuns = {} /\ live = {} /\ req = NoReq
  /\ pc # "boot" =>
       /\ firstHeapDesc \in Descs
       /\ next[lastHeapDesc] = NULL => lastHeapDesc \in Descs

\* A block that is handed out has a used descriptor, the one being placed or
\* merged is not used.
LiveInv ==
  /\ \A b \in live :
       /\ DescOf(b.at) \in Descs
       /\ used[DescOf(b.at)]
       /\ length[DescOf(b.at)] >= b.size
  /\ \A b, c \in live : b.at = c.at => b = c
  /\ pc \in {"place", "mergePrev", "mergeNext"} => cur \in Descs /\ ~used[cur]
  /\ pc = "place" => length[cur] >= req.size
  /\ pc \in {"search", "place", "copied"} => req.size > 0
  /\ pc = "copied" => req.old # NULL
  /\ req.old # NULL => Holder(req.old) # {}

SoundInv ==
  TypeOK /\ RunsInv /\ TileInv /\ NextInv /\ PrevInv /\ EndsInv /\ LiveInv

HInv == MarkInv /\ (~damaged => SoundInv)

\* The sections are full: kalloc's walk meets every descriptor, a block ends
\* where another descriptor is or its section ends, and a section that holds a
\* descriptor holds one at its start.
Filled ==
  /\ \A d \in Descs : End(d) \in Descs \cup SectionEnds
  /\ \A d \in Descs : \E r \in heapRuns : Within(d, r) /\ Start(r) \in Descs

FilledInv ==
  /\ pc = "boot" => firstHeapDesc = NULL
  /\ pc # "boot" => Descs \subseteq Listed
  /\ Filled
=============================================================================
