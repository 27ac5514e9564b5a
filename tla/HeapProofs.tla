----------------------------- MODULE HeapProofs -----------------------------
(***************************************************************************)
(* Theorems about Heap, for every memory, every free run and every size    *)
(* the kernel asks for.  MarkInv holds in every heap; SoundInv as long as  *)
(* no expansion has damaged the heap.  First the facts they rest on: the   *)
(* walk along the list, pages and addresses, and what a split, a merge and *)
(* a new section do to the tiling of the sections and to the links.        *)
(***************************************************************************)
EXTENDS HeapInv, FiniteSetTheorems, WellFoundedInduction, TLAPS

\* A set of natural numbers has a least one.
LEMMA LeastNumber ==
  ASSUME NEW T \in SUBSET Nat, T # {}
  PROVE  \E n \in T : \A m \in T : n <= m
<1>1. PICK n \in T : \A y \in T : ~(<<y, n>> \in OpToRel(<, Nat))
    BY NatLessThanWellFounded, WFMin
<1>2. \A m \in T : ~(m < n)
    BY <1>1 DEF OpToRel
<1> QED
    BY <1>2

LEMMA Times ==
  ASSUME NEW a \in Nat, NEW b \in Nat, NEW p \in Nat
  PROVE  /\ a * p \in Nat
         /\ a <= b => a * p <= b * p
         /\ a < b => a * p + p <= b * p
<1>1. \A k \in Nat : k * p \in Nat
    OBVIOUS
<1>2. ASSUME a <= b PROVE a * p <= b * p
  <2>1. b * p = a * p + (b - a) * p
      OBVIOUS
  <2>2. (b - a) * p \in Nat
      BY <1>1, <1>2
  <2> QED
      BY <1>1, <2>1, <2>2
<1>3. ASSUME a < b PROVE a * p + p <= b * p
  <2>1. b * p = a * p + p + (b - a - 1) * p
      OBVIOUS
  <2>2. (b - a - 1) * p \in Nat
      BY <1>1, <1>3
  <2> QED
      BY <1>1, <2>1, <2>2
<1> QED
    BY <1>1, <1>2, <1>3

LEMMA NullAddr == NULL \in Addr
<1>1. 0 * PageSize + PageSize <= NumPages * PageSize /\ NumPages * PageSize \in Nat
    BY HeapAssumption, Times
<1> QED
    BY <1>1, HeapAssumption DEF NULL, Addr

-----------------------------------------------------------------------------
(* The walk of kalloc.                                                     *)

WalkStep(f, k) ==
  [a \in Addr |-> IF a = NULL \/ k = 0 THEN {} ELSE {a} \cup f[k - 1][next[a]]]

IsWalk(f, m) == f = [k \in 0..m |-> WalkStep(f, k)]

LEMMA WalkExists ==
  ASSUME next \in [Addr -> Addr], NEW n \in Nat
  PROVE  \E f : IsWalk(f, n)
<1> DEFINE T == {m \in Nat : ~ \E f : IsWalk(f, m)}
<1>1. SUFFICES ASSUME T # {} PROVE FALSE
    OBVIOUS
<1>2. PICK m \in T : \A i \in T : m <= i
    BY <1>1, LeastNumber
<1>3. CASE m = 0
  <2> DEFINE g == [k \in 0..0 |-> [a \in Addr |-> {}]]
  <2>1. \A k \in 0..0 : WalkStep(g, k) = [a \in Addr |-> {}]
      BY DEF WalkStep
  <2>2. IsWalk(g, 0)
      BY <2>1 DEF IsWalk
  <2> QED
      BY <1>3, <2>2
<1>4. CASE m # 0
  <2>1. PICK f : IsWalk(f, m - 1)
      BY <1>2, <1>4
  <2> DEFINE g == [k \in 0..m |-> WalkStep(f, k)]
  <2>2. \A k \in 0..(m - 1) : f[k] = WalkStep(f, k)
      BY <2>1 DEF IsWalk
  <2>3. \A k \in 0..(m - 1) : g[k] = f[k]
      BY <2>2
  <2>4. ASSUME NEW k \in 0..m
        PROVE  WalkStep(g, k) = WalkStep(f, k)
    <3>1. CASE k = 0
        BY <3>1 DEF WalkStep
    <3>2. CASE k # 0
      <4>1. g[k - 1] = f[k - 1]
          BY <2>3, <3>2
      <4> HIDE DEF g
      <4> QED
          BY <4>1 DEF WalkStep
    <3> QED
        BY <3>1, <3>2
  <2>5. IsWalk(g, m)
      BY <2>4 DEF IsWalk
  <2> QED
      BY <2>5
<1> QED
    BY <1>3, <1>4

LEMMA AddrFinite == IsFiniteSet(Addr) /\ Cardinality(Addr) \in Nat
<1>1. NumPages * PageSize - 1 \in Int
    BY HeapAssumption
<1>2. IsFiniteSet(Addr)
  <2> DEFINE last == NumPages * PageSize - 1
  <2> HIDE DEF last
  <2>1. last \in Int
      BY <1>1 DEF last
  <2>2. IsFiniteSet(0..last)
      BY <2>1, FS_Interval
  <2> QED
      BY <2>2 DEF last, Addr
<1> QED
    BY <1>2, FS_CardinalityType

\* What f, a walk, sees from each address in at most m looks.
Walks(f, m) ==
  \A k \in 0..m : \A a \in Addr :
    f[k][a] = IF a = NULL \/ k = 0 THEN {} ELSE {a} \cup f[k - 1][next[a]]

LEMMA WalkUnfolds ==
  ASSUME next \in [Addr -> Addr], NEW p \in Addr
  PROVE  \E f : Walks(f, Cardinality(Addr)) /\ WalkFrom(p) = f[Cardinality(Addr)][p]
<1> DEFINE N == Cardinality(Addr)
           W == CHOOSE f : IsWalk(f, N)
<1>1. IsWalk(W, N)
    BY WalkExists, AddrFinite
<1>2. WalkFrom(p) = W[N][p]
    BY DEF WalkFrom, IsWalk, WalkStep
<1> HIDE DEF W, N
<1>3. \A k \in 0..N : W[k] = WalkStep(W, k)
    BY <1>1 DEF IsWalk
<1>4. Walks(W, N)
    BY <1>3 DEF WalkStep, Walks
<1> QED
    BY <1>2, <1>4 DEF N

\* A walk stays in whatever set next does not lead out of.
LEMMA WalkStays ==
  ASSUME next \in [Addr -> Addr], NEW S \in SUBSET Addr, NEW p \in S,
         \A a \in S : next[a] # NULL => next[a] \in S
  PROVE  WalkFrom(p) \subseteq S
<1> DEFINE N == Cardinality(Addr)
<1>1. PICK f : Walks(f, N) /\ WalkFrom(p) = f[N][p]
    BY WalkUnfolds
<1> DEFINE T == {k \in 0..N : \E a \in S : ~(f[k][a] \subseteq S)}
<1>3. SUFFICES ASSUME T # {} PROVE FALSE
    BY <1>1, AddrFinite
<1>4. PICK k \in T : \A i \in T : k <= i
  <2>1. T \subseteq Nat
      BY AddrFinite
  <2> HIDE DEF T
  <2> QED
      BY <1>3, <2>1, LeastNumber
<1>5. PICK a \in S : ~(f[k][a] \subseteq S)
    BY <1>4
<1>6. f[k][a] = IF a = NULL \/ k = 0 THEN {} ELSE {a} \cup f[k - 1][next[a]]
    BY <1>1 DEF Walks
<1>7. a # NULL /\ k # 0
    BY <1>5, <1>6
<1>8. k - 1 \in 0..N /\ k - 1 \notin T
    BY <1>4, <1>7, AddrFinite
<1>9. CASE next[a] = NULL
  <2>1. NULL \in Addr
      BY <1>9
  <2>2. f[k - 1][next[a]] = {}
      BY <1>1, <1>8, <1>9, <2>1 DEF Walks
  <2> QED
      BY <1>5, <1>6, <1>7, <2>2
<1>10. CASE next[a] # NULL
    BY <1>5, <1>6, <1>7, <1>8, <1>10
<1> QED
    BY <1>9, <1>10

\* A longer walk sees no less.
LEMMA WalkGrows ==
  ASSUME next \in [Addr -> Addr], NEW N \in Nat, NEW f, Walks(f, N),
         NEW i \in 0..N, NEW j \in 0..N, i <= j, NEW p \in Addr
  PROVE  f[i][p] \subseteq f[j][p]
<1>1. \A l \in 0..N : \A x \in Addr :
        f[l][x] = IF x = NULL \/ l = 0 THEN {} ELSE {x} \cup f[l - 1][next[x]]
    BY DEF Walks
<1> DEFINE T == {k \in 0..N : \E m \in k..N, a \in Addr : ~(f[k][a] \subseteq f[m][a])}
<1>2. SUFFICES ASSUME T # {} PROVE FALSE
    OBVIOUS
<1>3. PICK k \in T : \A l \in T : k <= l
  <2> HIDE DEF T
  <2>1. T \subseteq Nat
      BY DEF T
  <2> QED
      BY <1>2, <2>1, LeastNumber
<1>4. PICK m \in k..N, a \in Addr : ~(f[k][a] \subseteq f[m][a])
    OBVIOUS
<1>5. /\ f[k][a] = IF a = NULL \/ k = 0 THEN {} ELSE {a} \cup f[k - 1][next[a]]
      /\ f[m][a] = IF a = NULL \/ m = 0 THEN {} ELSE {a} \cup f[m - 1][next[a]]
  <2>1. k \in 0..N /\ m \in 0..N
      OBVIOUS
  <2> HIDE DEF T
  <2> QED
      BY <1>1, <2>1
<1>6. a # NULL /\ k # 0 /\ m # 0
    BY <1>4, <1>5
<1>7. k - 1 \in 0..N /\ k - 1 \notin T /\ m - 1 \in (k - 1)..N /\ next[a] \in Addr
    BY <1>3, <1>6
<1>8. f[k - 1][next[a]] \subseteq f[m - 1][next[a]]
    BY <1>7
<1> QED
    BY <1>4, <1>5, <1>6, <1>8

\* What follows a descriptor that a walk sees is seen one step later.
LEMMA WalkFollows ==
  ASSUME next \in [Addr -> Addr], NEW N \in Nat, NEW f, Walks(f, N),
         NEW i \in 1..N, NEW p \in Addr, NEW y \in f[i - 1][p],
         next[y] # NULL
  PROVE  next[y] \in f[i][p]
<1>1. \A l \in 0..N : \A x \in Addr :
        f[l][x] = IF x = NULL \/ l = 0 THEN {} ELSE {x} \cup f[l - 1][next[x]]
    BY DEF Walks
<1> DEFINE T == {k \in 1..N : \E a \in Addr : \E x \in f[k - 1][a] :
                                next[x] # NULL /\ next[x] \notin f[k][a]}
<1>2. SUFFICES ASSUME T # {} PROVE FALSE
    OBVIOUS
<1>3. PICK k \in T : \A l \in T : k <= l
  <2> HIDE DEF T
  <2>1. T \subseteq Nat
      BY DEF T
  <2> QED
      BY <1>2, <2>1, LeastNumber
<1>g. PICK a \in Addr : \E x \in f[k - 1][a] : next[x] # NULL /\ next[x] \notin f[k][a]
    OBVIOUS
<1>4. PICK x \in f[k - 1][a] : next[x] # NULL /\ next[x] \notin f[k][a]
    BY <1>g
<1>5. k \in 1..N /\ k - 1 \in 0..N
    OBVIOUS
<1>6. /\ f[k][a] = IF a = NULL \/ k = 0 THEN {} ELSE {a} \cup f[k - 1][next[a]]
      /\ f[k - 1][a] = IF a = NULL \/ k - 1 = 0 THEN {} ELSE {a} \cup f[k - 2][next[a]]
  <2> HIDE DEF T
  <2>1. k \in 0..N /\ (k - 1) - 1 = k - 2
      BY <1>5
  <2>2. f[k][a] = IF a = NULL \/ k = 0 THEN {} ELSE {a} \cup f[k - 1][next[a]]
      BY <1>1, <2>1
  <2> DEFINE j == k - 1
  <2>3. j \in 0..N /\ j - 1 = k - 2
      BY <1>5, <2>1
  <2> HIDE DEF j
  <2>4. f[j][a] = IF a = NULL \/ j = 0 THEN {} ELSE {a} \cup f[j - 1][next[a]]
      BY <1>1, <2>3
  <2> QED
      BY <2>2, <2>3, <2>4 DEF j
<1>7. a # NULL /\ k - 1 # 0
    BY <1>4, <1>6
<1>8. next[a] \in Addr
    OBVIOUS
<1>9. CASE x = a
  <2>1. next[a] \in f[k - 1][next[a]]
    <3> HIDE DEF T
    <3> QED
        BY <1>1, <1>4, <1>5, <1>7, <1>8, <1>9
  <2> QED
      BY <1>4, <1>5, <1>6, <1>7, <1>9, <2>1
<1>10. CASE x \in f[k - 2][next[a]]
  <2>1. k - 1 \in 1..N /\ k - 1 \notin T /\ (k - 1) - 1 = k - 2
      BY <1>3, <1>5, <1>7
  <2>2. next[x] \in f[k - 1][next[a]]
      BY <1>4, <1>8, <1>10, <2>1
  <2> QED
      BY <1>4, <1>5, <1>6, <1>7, <2>2
<1> QED
    BY <1>4, <1>6, <1>7, <1>9, <1>10

\* A walk that has looked as often as there are addresses has seen all there is:
\* as long as it sees something new, it sees more than it has taken steps.
LEMMA WalkCloses ==
  ASSUME next \in [Addr -> Addr], NEW p \in Addr, p # NULL
  PROVE  /\ p \in WalkFrom(p)
         /\ \A x \in WalkFrom(p) : next[x] # NULL => next[x] \in WalkFrom(p)
<1> DEFINE N == Cardinality(Addr)
<1>1. PICK f : Walks(f, N) /\ WalkFrom(p) = f[N][p]
    BY WalkUnfolds
<1>3. IsFiniteSet(Addr) /\ N \in Nat
    BY AddrFinite
<1>n. N = Cardinality(Addr)
    OBVIOUS
<1> HIDE DEF N
<1>2. \A l \in 0..N : \A x \in Addr :
        f[l][x] = IF x = NULL \/ l = 0 THEN {} ELSE {x} \cup f[l - 1][next[x]]
    BY <1>1 DEF Walks
<1>4. \A k \in 1..N : p \in f[k][p]
  <2> TAKE k \in 1..N
  <2>1. k \in 0..N /\ k # 0
      BY <1>3
  <2>2. f[k][p] = {p} \cup f[k - 1][next[p]]
      BY <1>2, <2>1
  <2> QED
      BY <2>2
<1>6. \A k \in 0..N : f[k][p] \subseteq WalkFrom(p)
    BY <1>1, <1>3, WalkGrows
<1>s. WalkFrom(p) \subseteq Addr \ {NULL}
  <2>1. WalkFrom(p) \subseteq Addr
      BY WalkStays
  <2>2. NULL \notin WalkFrom(p)
    <3> DEFINE T == {k \in 0..N : \E a \in Addr : NULL \in f[k][a]}
    <3>1. SUFFICES ASSUME T # {} PROVE FALSE
        BY <1>1, <1>3
    <3>2. PICK k \in T : \A l \in T : k <= l
      <4>1. T \subseteq Nat
          OBVIOUS
      <4> HIDE DEF T
      <4> QED
          BY <3>1, <4>1, LeastNumber
    <3>3. PICK a \in Addr : NULL \in f[k][a]
        OBVIOUS
    <3>4. f[k][a] = IF a = NULL \/ k = 0 THEN {} ELSE {a} \cup f[k - 1][next[a]]
      <4>1. k \in 0..N
          OBVIOUS
      <4> HIDE DEF T
      <4> QED
          BY <1>2, <4>1
    <3>5. k - 1 \in 0..N /\ k - 1 \notin T /\ next[a] \in Addr
      <4>1. k \in 0..N /\ k # 0 /\ k - 1 < k
          BY <1>3, <3>3, <3>4
      <4>2. k - 1 \in 0..N
          BY <1>3, <4>1
      <4>3. k - 1 \notin T
        <5> HIDE DEF T
        <5> QED
            BY <1>3, <3>2, <4>1
      <4> QED
          BY <4>2, <4>3
    <3> QED
        BY <3>3, <3>4, <3>5
  <2> QED
      BY <2>1, <2>2
<1>7. ASSUME \A k \in 1..N : f[k][p] # f[k - 1][p]
      PROVE  FALSE
  <2> DEFINE size(k) == Cardinality(f[k][p])
  <2>1. /\ IsFiniteSet(Addr \ {NULL})
        /\ Cardinality(Addr \ {NULL}) = N - 1
      BY <1>3, <1>n, NullAddr, FS_RemoveElement
  <2>2. \A k \in 0..N : /\ IsFiniteSet(f[k][p]) /\ size(k) \in Nat
                        /\ size(k) <= N - 1
    <3> TAKE k \in 0..N
    <3>1. f[k][p] \in SUBSET (Addr \ {NULL})
        BY <1>6, <1>s
    <3>2. IsFiniteSet(f[k][p]) /\ size(k) <= N - 1
        BY <2>1, <3>1, FS_Subset
    <3> QED
        BY <3>2, FS_CardinalityType
  <2>3. ASSUME NEW k \in 1..N
        PROVE  size(k) > size(k - 1)
    <3>1. f[k - 1][p] \in SUBSET f[k][p] /\ f[k][p] # f[k - 1][p] /\ k - 1 \in 0..N
        BY <1>1, <1>3, <1>7, WalkGrows
    <3>2. size(k - 1) <= size(k) /\ size(k) # size(k - 1)
        BY <2>2, <3>1, FS_Subset
    <3> QED
        BY <2>2, <3>1, <3>2
  <2> DEFINE T == {k \in 0..N : size(k) < k}
  <2>4. N \in T
      BY <1>3, <2>2
  <2>5. PICK k \in T : \A l \in T : k <= l
    <3>1. T \subseteq Nat
        OBVIOUS
    <3> HIDE DEF T
    <3> QED
        BY <2>4, <3>1, LeastNumber
  <2> HIDE DEF size
  <2>6. k \in 1..N /\ k - 1 \notin T /\ k - 1 \in 0..N
      BY <1>3, <2>2, <2>5
  <2> QED
      BY <2>2, <2>3, <2>5, <2>6
<1>8. PICK k \in 1..N : f[k][p] = f[k - 1][p]
    BY <1>7
<1> DEFINE C == f[k][p]
<1>9. p \in C /\ \A x \in C : next[x] # NULL => next[x] \in C
  <2>1. p \in C
      BY <1>4
  <2>2. ASSUME NEW x \in C, next[x] # NULL PROVE next[x] \in C
      BY <1>1, <1>3, <1>8, <2>2, WalkFollows
  <2> QED
      BY <2>1, <2>2
<1>10. C \subseteq Addr
    BY <1>6, <1>s
<1>11. C = WalkFrom(p)
  <2>1. WalkFrom(p) \subseteq C
      BY <1>9, <1>10, WalkStays
  <2>2. C \subseteq WalkFrom(p)
      BY <1>1, <1>3, WalkGrows
  <2> QED
      BY <2>1, <2>2
<1> QED
    BY <1>9, <1>11

\* kalloc only ever looks at descriptors.
LEMMA ListedDescs ==
  ASSUME TypeOK, NextInv, firstHeapDesc \in Descs
  PROVE  Listed \subseteq Descs
<1>1. Descs \subseteq Addr /\ next \in [Addr -> Addr]
    BY DEF Descs, TypeOK
<1> QED
    BY <1>1, WalkStays DEF Listed, NextInv

-----------------------------------------------------------------------------
(* Pages and addresses.                                                    *)

AnyRun == [base : Nat, len : Nat]

LEMMA RunBounds ==
  ASSUME NEW r \in AnyRun
  PROVE  /\ Start(r) \in Nat /\ Stop(r) \in Nat /\ Start(r) <= Stop(r)
         /\ r.base > 0 => Start(r) > 0
         /\ r.base + r.len <= NumPages => Stop(r) <= NumPages * PageSize
<1>1. /\ r.base \in Nat /\ r.len \in Nat
      /\ PageSize \in Nat /\ PageSize > 0 /\ NumPages \in Nat
    BY HeapAssumption DEF AnyRun
<1>2. /\ Start(r) \in Nat /\ Stop(r) \in Nat
      /\ r.base + r.len <= NumPages => Stop(r) <= NumPages * PageSize
    BY <1>1, Times DEF Start, Stop
<1>3. Start(r) <= Stop(r)
    BY <1>1, Times DEF Start, Stop
<1>4. r.base > 0 => 0 * PageSize + PageSize <= Start(r)
    BY <1>1, Times DEF Start
<1> QED
    BY <1>1, <1>2, <1>3, <1>4

LEMMA RunOrder ==
  ASSUME NEW q \in AnyRun, NEW r \in AnyRun
  PROVE  /\ Disjoint(q, r) => Stop(q) <= Start(r) \/ Stop(r) <= Start(q)
         /\ Distant(q, r) => Stop(q) < Start(r) \/ Stop(r) < Start(q)
<1>1. /\ q.base \in Nat /\ q.len \in Nat /\ r.base \in Nat /\ r.len \in Nat
      /\ PageSize \in Nat /\ PageSize > 0
    BY HeapAssumption DEF AnyRun
<1>2. /\ q.base + q.len <= r.base => Stop(q) <= Start(r)
      /\ r.base + r.len <= q.base => Stop(r) <= Start(q)
    BY <1>1, Times DEF Start, Stop
<1>3. /\ q.base + q.len < r.base => Stop(q) + PageSize <= Start(r)
      /\ r.base + r.len < q.base => Stop(r) + PageSize <= Start(q)
    BY <1>1, Times DEF Start, Stop
<1>4. /\ Start(q) \in Nat /\ Stop(q) \in Nat /\ Start(r) \in Nat /\ Stop(r) \in Nat
    BY RunBounds
<1> QED
    BY <1>1, <1>2, <1>3, <1>4 DEF Disjoint, Distant

LEMMA RunTypes ==
  ASSUME TypeOK
  PROVE  heapRuns \subseteq AnyRun /\ freeRuns \subseteq AnyRun
BY DEF TypeOK, AnyRun

LEMMA AddrNat == \A a \in Addr : a \in Nat
BY DEF Addr

LEMMA InRun ==
  ASSUME TypeOK, RunsInv, NEW r \in heapRuns, NEW a \in Int,
         Start(r) <= a, a < Stop(r)
  PROVE  a \in Addr /\ a # NULL
<1>1. /\ r \in AnyRun /\ r.base > 0 /\ r.base + r.len <= NumPages
    BY RunTypes DEF RunsInv
<1>2. /\ Start(r) \in Nat /\ Start(r) > 0 /\ Stop(r) \in Nat
      /\ Stop(r) <= NumPages * PageSize
    BY <1>1, RunBounds
<1> DEFINE size == NumPages * PageSize
<1>3. size \in Nat
    BY HeapAssumption, Times
<1>4. Addr = 0..(size - 1)
    BY DEF Addr
<1> HIDE DEF size
<1>5. Stop(r) <= size
    BY <1>2 DEF size
<1> QED
    BY <1>2, <1>3, <1>4, <1>5 DEF NULL

LEMMA DescFacts ==
  ASSUME TypeOK, RunsInv, TileInv
  PROVE  \A d \in Descs : /\ d \in Addr /\ d \in Nat /\ d # NULL
                          /\ length[d] \in Nat /\ End(d) \in Nat
                          /\ d + DescSize <= End(d) /\ d < End(d)
<1> TAKE d \in Descs
<1>1. PICK r \in heapRuns : Within(d, r)
    BY DEF TileInv
<1>2. d \in Addr /\ d \in Nat /\ length[d] \in Nat
  <2>1. d \in Addr /\ d \in Int
      BY DEF Descs, Addr
  <2>2. d >= 0
      BY DEF Descs, Addr
  <2> QED
      BY <2>1, <2>2 DEF TypeOK
<1>3. Start(r) \in Nat /\ (r.base > 0 => Start(r) > 0)
    BY RunTypes, RunBounds
<1>4. r.base > 0
    BY DEF RunsInv
<1> QED
    BY <1>1, <1>2, <1>3, <1>4, HeapAssumption DEF Within, End, NULL

\* Nothing in a section ends where a section begins.
LEMMA SectionsApart ==
  ASSUME TypeOK, RunsInv, NEW q \in heapRuns, NEW r \in heapRuns,
         NEW p \in Addr, Within(p, r)
  PROVE  End(p) # Start(q)
<1>1. /\ Start(q) \in Nat /\ Stop(q) \in Nat /\ Start(r) \in Nat /\ Stop(r) \in Nat
      /\ Start(q) <= Stop(q)
    BY RunTypes, RunBounds
<1>2. p \in Nat /\ p < End(p) /\ End(p) \in Nat
  <2>1. p \in Int /\ p >= 0 /\ length[p] \in Nat
      BY DEF Addr, TypeOK
  <2> QED
      BY <2>1, HeapAssumption DEF End
<1>3. CASE q = r
    BY <1>1, <1>2, <1>3 DEF Within
<1>4. CASE q # r
  <2>1. Stop(q) < Start(r) \/ Stop(r) < Start(q)
      BY <1>4, RunTypes, RunOrder DEF RunsInv
  <2> QED
      BY <1>1, <1>2, <2>1 DEF Within
<1> QED
    BY <1>3, <1>4

EndNew(x) == x + DescSize + length'[x]

-----------------------------------------------------------------------------
(* A split.                                                                *)

LEMMA SplitShape ==
  ASSUME TypeOK, RunsInv, TileInv,
         NEW d \in Descs, NEW n \in Nat \ {0}, Splits(d, n),
         NEW s, s = PayloadOf(d) + n, SplitOff(d, s, n)
  PROVE  /\ s \in Addr /\ s \in Nat /\ s # NULL /\ s \notin Descs /\ s # d
         /\ d < s /\ s < End(d)
         /\ Descs' = Descs \cup {s}
         /\ EndNew(d) = s /\ EndNew(s) = End(d)
         /\ \A x \in Addr \ {d, s} : EndNew(x) = End(x)
         /\ next'[d] = s /\ next'[s] = next[d]
         /\ \A x \in Addr \ {d, s} : next'[x] = next[x]
         /\ prev'[s] = d /\ \A x \in Addr \ {s} : prev'[x] = prev[x]
         /\ length' \in [Addr -> Nat]
<1>1. /\ d \in Addr /\ d \in Nat /\ length[d] \in Nat /\ End(d) \in Nat
    BY DescFacts
<1>2. /\ DescSize \in Nat /\ DescSize > 0 /\ MinSect \in Nat /\ MinSect > DescSize
    BY HeapAssumption
<1>3. length[d] >= n + MinSect /\ End(d) = d + DescSize + length[d]
    BY DEF Splits, End
<1>4. s = d + DescSize + n
    BY DEF PayloadOf
<1>5. s \in Nat /\ d < s /\ s < End(d)
    BY <1>1, <1>2, <1>3, <1>4
<1>6. s \in Addr /\ s # NULL
  <2>1. PICK r \in heapRuns : Within(d, r)
      BY DEF TileInv
  <2>2. Start(r) \in Nat /\ Stop(r) \in Nat
      BY RunTypes, RunBounds
  <2> QED
      BY <1>1, <1>5, <2>1, <2>2, InRun DEF Within
<1>7. s \notin Descs
  <2>1. \A e \in Descs : e # d => End(d) <= e \/ End(e) <= d
      BY DEF TileInv
  <2> QED
      BY <1>1, <1>5, <2>1, DescFacts
<1>8. Rest(d, n) \in Nat /\ s + DescSize + Rest(d, n) = End(d)
    BY <1>1, <1>2, <1>3, <1>4 DEF Rest
<1>t. /\ magic \in [Addr -> BOOLEAN] /\ length \in [Addr -> Nat]
      /\ prev \in [Addr -> Addr] /\ next \in [Addr -> Addr]
    BY DEF TypeOK
<1>9. /\ length' = [length EXCEPT ![s] = Rest(d, n), ![d] = n]
      /\ next' = [next EXCEPT ![s] = next[d], ![d] = s]
      /\ prev' = [prev EXCEPT ![s] = d]
      /\ magic' = [magic EXCEPT ![s] = TRUE]
    BY DEF SplitOff
<1>10. /\ length'[d] = n /\ length'[s] = Rest(d, n)
       /\ \A x \in Addr \ {d, s} : length'[x] = length[x]
       /\ length' \in [Addr -> Nat]
    BY <1>1, <1>5, <1>6, <1>8, <1>t, <1>9
<1>11. /\ EndNew(d) = s /\ EndNew(s) = End(d)
       /\ \A x \in Addr \ {d, s} : EndNew(x) = End(x)
    BY <1>4, <1>8, <1>10 DEF EndNew, End
<1>12. /\ next'[d] = s /\ next'[s] = next[d]
       /\ \A x \in Addr \ {d, s} : next'[x] = next[x]
       /\ prev'[s] = d /\ \A x \in Addr \ {s} : prev'[x] = prev[x]
    BY <1>1, <1>5, <1>6, <1>t, <1>9
<1>13. Descs' = Descs \cup {s}
    BY <1>6, <1>t, <1>9 DEF Descs
<1> QED
    BY <1>1, <1>5, <1>6, <1>7, <1>10, <1>11, <1>12, <1>13

LEMMA SplitTiles ==
  ASSUME TypeOK, RunsInv, TileInv,
         NEW d \in Descs, NEW n \in Nat \ {0}, Splits(d, n),
         NEW s, s = PayloadOf(d) + n, SplitOff(d, s, n), heapRuns' = heapRuns
  PROVE  TileInv'
<1>1. /\ s \in Nat /\ s \in Addr /\ s # d /\ d < s /\ s < End(d)
      /\ Descs' = Descs \cup {s}
      /\ EndNew(d) = s /\ EndNew(s) = End(d)
      /\ \A x \in Addr \ {d, s} : EndNew(x) = End(x)
    BY SplitShape
<1>2. \A x \in Descs : x \in Addr /\ x \in Nat /\ End(x) \in Nat /\ x < End(x)
    BY DescFacts
<1>3. \A x, y \in Descs : x # y => End(x) <= y \/ End(y) <= x
    BY DEF TileInv
<1>4. ASSUME NEW x \in Descs'
      PROVE  \E r \in heapRuns : Start(r) <= x /\ EndNew(x) <= Stop(r)
  <2>1. CASE x \in Descs \ {d, s}
      BY <1>1, <1>2, <2>1 DEF TileInv, Within
  <2>2. CASE x \in {d, s}
    <3>1. PICK r \in heapRuns : Start(r) <= d /\ End(d) <= Stop(r)
        BY DEF TileInv, Within
    <3>2. Start(r) \in Nat /\ Stop(r) \in Nat
        BY RunTypes, RunBounds
    <3> QED
        BY <1>1, <1>2, <2>2, <3>1, <3>2
  <2> QED
      BY <1>1, <2>1, <2>2
<1>5. ASSUME NEW x \in Descs', NEW y \in Descs', x # y
      PROVE  EndNew(x) <= y \/ EndNew(y) <= x
    BY <1>1, <1>2, <1>3, <1>5
<1> QED
    BY <1>4, <1>5 DEF TileInv, Within, EndNew, End, Start, Stop

LEMMA SplitNext ==
  ASSUME TypeOK, RunsInv, TileInv, NextInv, firstHeapDesc \in Descs,
         NEW d \in Descs, NEW n \in Nat \ {0}, Splits(d, n),
         NEW s, s = PayloadOf(d) + n, SplitOff(d, s, n), heapRuns' = heapRuns,
         firstHeapDesc' = firstHeapDesc
  PROVE  NextInv'
<1>1. /\ s \in Nat /\ s \in Addr /\ s # d /\ s \notin Descs /\ d < s /\ s < End(d)
      /\ Descs' = Descs \cup {s}
      /\ EndNew(d) = s /\ EndNew(s) = End(d)
      /\ \A x \in Addr \ {d, s} : EndNew(x) = End(x)
      /\ next'[d] = s /\ next'[s] = next[d]
      /\ \A x \in Addr \ {d, s} : next'[x] = next[x]
    BY SplitShape
<1>2. \A x \in Descs : x \in Addr /\ x \in Nat /\ End(x) \in Nat /\ x < End(x)
    BY DescFacts
<1>3. /\ \A x, y \in Descs : x # y => End(x) <= y \/ End(y) <= x
      /\ \A x \in Descs : next[x] # NULL =>
           /\ next[x] \in Descs /\ next[x] # firstHeapDesc
           /\ End(x) = next[x] \/ next[x] \in SectionStarts
      /\ \A x, y \in Descs : End(x) = y => next[x] = y
    BY DEF TileInv, NextInv
<1>4. SectionStarts' = SectionStarts
    BY DEF SectionStarts
<1>5. ASSUME NEW x \in Descs', next'[x] # NULL
      PROVE  /\ next'[x] \in Descs' /\ next'[x] # firstHeapDesc
             /\ EndNew(x) = next'[x] \/ next'[x] \in SectionStarts
    BY <1>1, <1>2, <1>3, <1>5
<1>6. ASSUME NEW x \in Descs', NEW y \in Descs', EndNew(x) = y
      PROVE  next'[x] = y
    BY <1>1, <1>2, <1>3, <1>6
<1> QED
    BY <1>4, <1>5, <1>6 DEF NextInv, EndNew, End

LEMMA SplitPrev ==
  ASSUME TypeOK, RunsInv, TileInv, NextInv, PrevInv,
         NEW d \in Descs, NEW n \in Nat \ {0}, Splits(d, n),
         NEW s, s = PayloadOf(d) + n, SplitOff(d, s, n), heapRuns' = heapRuns
  PROVE  PrevInv'
<1>1. /\ s \in Nat /\ s \in Addr /\ s # d /\ s \notin Descs /\ d < s /\ s < End(d)
      /\ Descs' = Descs \cup {s}
      /\ EndNew(d) = s /\ EndNew(s) = End(d)
      /\ \A x \in Addr \ {d, s} : EndNew(x) = End(x)
      /\ next'[d] = s /\ next'[s] = next[d]
      /\ \A x \in Addr \ {d, s} : next'[x] = next[x]
      /\ prev'[s] = d /\ \A x \in Addr \ {s} : prev'[x] = prev[x]
    BY SplitShape
<1>2. \A x \in Descs : x \in Addr /\ x \in Nat /\ x # NULL /\ End(x) \in Nat /\ x < End(x)
    BY DescFacts
<1>3. /\ \A x, y \in Descs : x # y => End(x) <= y \/ End(y) <= x
      /\ \A x \in Descs : next[x] # NULL =>
           End(x) = next[x] \/ next[x] \in SectionStarts
      /\ \A x, y \in Descs : End(x) = y => next[x] = y
    BY DEF TileInv, NextInv
<1>4. SectionStarts' = SectionStarts
    BY DEF SectionStarts
<1>r. PICK rd \in heapRuns : Start(rd) <= d /\ End(d) <= Stop(rd)
    BY DEF TileInv, Within
<1>s. Start(rd) \in Nat /\ Stop(rd) \in Nat
    BY RunTypes, RunBounds
<1>5. ASSUME NEW x \in Descs', prev'[x] # NULL
      PROVE  \/ prev'[x] \in Descs' /\ next'[prev'[x]] = x
             \/ /\ EndNew(prev'[x]) < x \/ x \in SectionStarts
                /\ \E r \in heapRuns : Start(r) <= prev'[x] /\ EndNew(prev'[x]) <= Stop(r)
  <2>1. CASE x = s
      BY <1>1, <2>1
  <2>2. CASE x # s
    <3>1. x \in Descs /\ x \in Addr /\ x \in Nat /\ prev'[x] = prev[x]
        BY <1>1, <1>2, <2>2
    <3> DEFINE p == prev[x]
    <3>p. p \in Addr /\ p \in Nat /\ p # NULL
      <4>1. prev \in [Addr -> Addr]
          BY DEF TypeOK
      <4> QED
          BY <1>5, <3>1, <4>1, AddrNat
    <3>2. \/ p \in Descs /\ next[p] = x
          \/ (End(p) < x \/ x \in SectionStarts) /\ \E r \in heapRuns : Within(p, r)
        BY <1>5, <3>1 DEF PrevInv, Stale
    <3>e. length[p] \in Nat /\ p + DescSize + length[p] = End(p) /\ p < End(p)
        BY <3>p, HeapAssumption DEF TypeOK, End
    <3>3. CASE p \notin {d, s}
      <4>1. next'[p] = next[p] /\ EndNew(p) = End(p)
          BY <1>1, <3>p, <3>3
      <4> QED
          BY <1>1, <3>1, <3>2, <4>1 DEF Within
    <3>4. CASE p = d
      <4>1. EndNew(d) < x \/ x \in SectionStarts
        <5>1. CASE next[d] = x
            BY <1>1, <1>2, <1>3, <3>1, <5>1
        <5>2. CASE End(d) < x \/ x \in SectionStarts
            BY <1>1, <1>2, <3>1, <5>2
        <5> QED
            BY <3>2, <3>4, <5>1, <5>2
      <4>2. Start(rd) <= d /\ EndNew(d) <= Stop(rd)
          BY <1>1, <1>2, <1>r, <1>s
      <4> QED
          BY <3>1, <3>4, <4>1, <4>2
    <3>5. CASE p = s
      <4>1. CASE x \in SectionStarts
        <5>1. Start(rd) <= s /\ EndNew(s) <= Stop(rd)
            BY <1>1, <1>2, <1>r, <1>s
        <5> QED
            BY <3>1, <3>5, <4>1, <5>1
      <4>2. CASE x \notin SectionStarts
        <5>0. End(s) \in Nat /\ s < End(s)
            BY <3>p, <3>5, <3>e, HeapAssumption
        <5>1. End(s) < x /\ s < x
            BY <1>1, <3>1, <3>2, <3>5, <4>2, <5>0
        <5>2. End(d) <= x
            BY <1>1, <1>2, <1>3, <3>1, <5>1
        <5>3. CASE End(d) = x
            BY <1>1, <1>3, <3>1, <3>5, <5>3
        <5>4. CASE End(d) < x
          <6>1. Start(rd) <= s /\ EndNew(s) <= Stop(rd)
              BY <1>1, <1>2, <1>r, <1>s
          <6> QED
              BY <1>1, <3>1, <3>5, <5>4, <6>1
        <5> QED
            BY <1>2, <3>1, <5>2, <5>3, <5>4
      <4> QED
          BY <4>1, <4>2
    <3> QED
        BY <3>3, <3>4, <3>5
  <2> QED
      BY <2>1, <2>2
<1> QED
    BY <1>4, <1>5 DEF PrevInv, Stale, Within, EndNew, End, Start, Stop

-----------------------------------------------------------------------------
(* A merge.                                                                *)

LEMMA AbsorbShape ==
  ASSUME TypeOK, RunsInv, TileInv, NextInv,
         NEW b \in Descs, NEW d \in Descs, End(b) = d, Absorb(b, d)
  PROVE  /\ b # d /\ next[b] = d /\ next[d] # d
         /\ Descs' = Descs \ {d}
         /\ EndNew(b) = End(d) /\ \A x \in Addr \ {b} : EndNew(x) = End(x)
         /\ next'[b] = next[d] /\ \A x \in Addr \ {b} : next'[x] = next[x]
         /\ next[d] # NULL => /\ prev'[next[d]] = b /\ lastHeapDesc' = lastHeapDesc
                              /\ \A x \in Addr \ {next[d]} : prev'[x] = prev[x]
         /\ next[d] = NULL => prev' = prev /\ lastHeapDesc' = b
         /\ \E r \in heapRuns : Start(r) <= b /\ End(d) <= Stop(r)
         /\ \A x \in Descs : next[x] = d => x = b
<1>1. \A x \in Descs : x \in Addr /\ x \in Nat /\ length[x] \in Nat
                       /\ End(x) \in Nat /\ x < End(x)
    BY DescFacts
<1>2. b # d /\ b < d /\ d < End(d) /\ next[b] = d
    BY <1>1 DEF NextInv
<1>t. /\ magic \in [Addr -> BOOLEAN] /\ length \in [Addr -> Nat]
      /\ prev \in [Addr -> Addr] /\ next \in [Addr -> Addr]
    BY DEF TypeOK
<1>3. /\ length' = [length EXCEPT ![b] = length[b] + DescSize + length[d]]
      /\ magic' = [magic EXCEPT ![d] = FALSE]
      /\ next' = [next EXCEPT ![b] = next[d]]
      /\ IF next[d] # NULL
           THEN prev' = [prev EXCEPT ![next[d]] = b] /\ lastHeapDesc' = lastHeapDesc
           ELSE lastHeapDesc' = b /\ prev' = prev
    BY DEF Absorb, LinksAfter
<1>4. Descs' = Descs \ {d}
    BY <1>1, <1>t, <1>3 DEF Descs
<1>5. EndNew(b) = End(d) /\ \A x \in Addr \ {b} : EndNew(x) = End(x)
  <2>1. /\ length'[b] = length[b] + DescSize + length[d]
        /\ \A x \in Addr \ {b} : length'[x] = length[x]
      BY <1>1, <1>t, <1>3
  <2> QED
      BY <1>1, <2>1, HeapAssumption DEF EndNew, End
<1>6. next'[b] = next[d] /\ \A x \in Addr \ {b} : next'[x] = next[x]
    BY <1>1, <1>t, <1>3
<1>7. PICK rb \in heapRuns : Within(b, rb)
    BY DEF TileInv
<1>8. End(d) <= Stop(rb)
  <2>1. PICK rd \in heapRuns : Within(d, rd)
      BY DEF TileInv
  <2>2. /\ Start(rb) \in Nat /\ Stop(rb) \in Nat /\ Start(rd) \in Nat /\ Stop(rd) \in Nat
      BY RunTypes, RunBounds
  <2>3. rb # rd => Stop(rb) < Start(rd) \/ Stop(rd) < Start(rb)
      BY RunTypes, RunOrder DEF RunsInv
  <2> QED
      BY <1>1, <1>2, <1>7, <2>1, <2>2, <2>3 DEF Within
<1>9. d \notin SectionStarts
    BY <1>1, <1>7, SectionsApart DEF SectionStarts, Start
<1>10. ASSUME NEW x \in Descs, next[x] = d
       PROVE  x = b
  <2>1. d # NULL
      BY DescFacts
  <2>2. End(x) = d
      BY <1>9, <1>10, <2>1 DEF NextInv
  <2>3. x # b => End(x) <= b \/ End(b) <= x
      BY DEF TileInv
  <2> QED
      BY <1>1, <2>2, <2>3
<1>11. next[d] # d
    BY <1>2, <1>10
<1> QED
    BY <1>1, <1>2, <1>t, <1>3, <1>4, <1>5, <1>6, <1>7, <1>8, <1>10, <1>11 DEF Within

LEMMA AbsorbTiles ==
  ASSUME TypeOK, RunsInv, TileInv, NextInv,
         NEW b \in Descs, NEW d \in Descs, End(b) = d, Absorb(b, d),
         heapRuns' = heapRuns
  PROVE  TileInv'
<1>1. /\ b # d /\ Descs' = Descs \ {d}
      /\ EndNew(b) = End(d) /\ \A x \in Addr \ {b} : EndNew(x) = End(x)
      /\ \E r \in heapRuns : Start(r) <= b /\ End(d) <= Stop(r)
    BY AbsorbShape
<1>2. \A x \in Descs : x \in Addr /\ x \in Nat /\ End(x) \in Nat /\ x < End(x)
    BY DescFacts
<1>3. \A x, y \in Descs : x # y => End(x) <= y \/ End(y) <= x
    BY DEF TileInv
<1>4. ASSUME NEW x \in Descs'
      PROVE  \E r \in heapRuns : Start(r) <= x /\ EndNew(x) <= Stop(r)
    BY <1>1, <1>2 DEF TileInv, Within
<1>5. ASSUME NEW x \in Descs', NEW y \in Descs', x # y
      PROVE  EndNew(x) <= y \/ EndNew(y) <= x
  <2>1. ASSUME NEW z \in Descs', z # b
        PROVE  End(d) <= z \/ End(z) <= b
      BY <1>1, <1>2, <1>3, <2>1
  <2> QED
      BY <1>1, <1>2, <1>3, <1>5, <2>1
<1> QED
    BY <1>4, <1>5 DEF TileInv, Within, EndNew, End, Start, Stop

LEMMA AbsorbNext ==
  ASSUME TypeOK, RunsInv, TileInv, NextInv,
         NEW b \in Descs, NEW d \in Descs, End(b) = d, Absorb(b, d),
         heapRuns' = heapRuns, firstHeapDesc' = firstHeapDesc
  PROVE  NextInv'
<1>1. /\ b # d /\ next[d] # d /\ Descs' = Descs \ {d}
      /\ EndNew(b) = End(d) /\ \A x \in Addr \ {b} : EndNew(x) = End(x)
      /\ next'[b] = next[d] /\ \A x \in Addr \ {b} : next'[x] = next[x]
      /\ \A x \in Descs : next[x] = d => x = b
    BY AbsorbShape
<1>2. \A x \in Descs : x \in Addr
    BY DescFacts
<1>3. /\ \A x \in Descs : next[x] # NULL =>
           /\ next[x] \in Descs /\ next[x] # firstHeapDesc
           /\ End(x) = next[x] \/ next[x] \in SectionStarts
      /\ \A x, y \in Descs : End(x) = y => next[x] = y
    BY DEF NextInv
<1>4. SectionStarts' = SectionStarts
    BY DEF SectionStarts
<1>5. ASSUME NEW x \in Descs', next'[x] # NULL
      PROVE  /\ next'[x] \in Descs' /\ next'[x] # firstHeapDesc
             /\ EndNew(x) = next'[x] \/ next'[x] \in SectionStarts
  <2>1. CASE x = b
      BY <1>1, <1>3, <1>5, <2>1
  <2>2. CASE x # b
      BY <1>1, <1>2, <1>3, <1>5, <2>2
  <2> QED
      BY <2>1, <2>2
<1>6. ASSUME NEW x \in Descs', NEW y \in Descs', EndNew(x) = y
      PROVE  next'[x] = y
    BY <1>1, <1>2, <1>3, <1>6
<1> QED
    BY <1>4, <1>5, <1>6 DEF NextInv, EndNew, End

LEMMA AbsorbPrev ==
  ASSUME TypeOK, RunsInv, TileInv, NextInv, PrevInv,
         NEW b \in Descs, NEW d \in Descs, End(b) = d, Absorb(b, d),
         heapRuns' = heapRuns
  PROVE  PrevInv'
<1>1. /\ b # d /\ next[b] = d /\ next[d] # d /\ Descs' = Descs \ {d}
      /\ EndNew(b) = End(d) /\ \A x \in Addr \ {b} : EndNew(x) = End(x)
      /\ next'[b] = next[d] /\ \A x \in Addr \ {b} : next'[x] = next[x]
      /\ next[d] # NULL => /\ prev'[next[d]] = b
                           /\ \A x \in Addr \ {next[d]} : prev'[x] = prev[x]
      /\ next[d] = NULL => prev' = prev
      /\ \E r \in heapRuns : Start(r) <= b /\ End(d) <= Stop(r)
    BY AbsorbShape
<1>2. \A x \in Descs : x \in Addr /\ x \in Nat /\ x # NULL /\ End(x) \in Nat /\ x < End(x)
    BY DescFacts
<1>3. /\ \A x, y \in Descs : x # y => End(x) <= y \/ End(y) <= x
      /\ \A x, y \in Descs : End(x) = y => next[x] = y
    BY DEF TileInv, NextInv
<1>4. SectionStarts' = SectionStarts
    BY DEF SectionStarts
<1>5. ASSUME NEW x \in Descs', prev'[x] # NULL
      PROVE  \/ prev'[x] \in Descs' /\ next'[prev'[x]] = x
             \/ /\ EndNew(prev'[x]) < x \/ x \in SectionStarts
                /\ \E r \in heapRuns : Start(r) <= prev'[x] /\ EndNew(prev'[x]) <= Stop(r)
  <2>0. x \in Descs /\ x # d /\ x \in Addr /\ x \in Nat /\ x # NULL
      BY <1>1, <1>2
  <2>1. CASE x = next[d]
      BY <1>1, <2>0, <2>1
  <2>2. CASE x # next[d]
    <3>1. prev'[x] = prev[x]
        BY <1>1, <2>0, <2>2
    <3> DEFINE p == prev[x]
    <3>p. p \in Addr /\ p \in Nat /\ p # NULL
      <4>1. prev \in [Addr -> Addr]
          BY DEF TypeOK
      <4> QED
          BY <1>5, <2>0, <3>1, <4>1, AddrNat
    <3>2. \/ p \in Descs /\ next[p] = x
          \/ (End(p) < x \/ x \in SectionStarts) /\ \E r \in heapRuns : Within(p, r)
        BY <1>5, <2>0, <3>1 DEF PrevInv, Stale
    <3>3. CASE p \in Descs /\ next[p] = x
        BY <1>1, <1>2, <2>0, <2>2, <3>1, <3>3
    <3>4. CASE /\ p # b
               /\ (End(p) < x \/ x \in SectionStarts)
               /\ \E r \in heapRuns : Within(p, r)
        BY <1>1, <3>1, <3>p, <3>4 DEF Within
    <3>5. CASE p = b /\ (End(p) < x \/ x \in SectionStarts)
      <4>1. CASE x \in SectionStarts
          BY <1>1, <3>1, <3>5, <4>1
      <4>2. CASE End(b) < x
        <5>1. End(d) <= x
            BY <1>1, <1>2, <1>3, <2>0, <4>2
        <5>2. End(d) # x
            BY <1>3, <2>0, <2>2
        <5> QED
            BY <1>1, <1>2, <2>0, <3>1, <3>5, <5>1, <5>2
      <4> QED
          BY <3>5, <4>1, <4>2
    <3> QED
        BY <3>2, <3>3, <3>4, <3>5
  <2> QED
      BY <2>1, <2>2
<1> QED
    BY <1>4, <1>5 DEF PrevInv, Stale, Within, EndNew, End, Start, Stop

-----------------------------------------------------------------------------
(* Pages for the heap.                                                     *)

LEMMA MergedAlone ==
  ASSUME NEW b \in Nat, NEW n \in Nat, Touching(b, n) = {}
  PROVE  Merged(b, n) = [base |-> b, len |-> n]
<1>1. /\ {q \in heapRuns : q.base + q.len = b} = {}
      /\ {q \in heapRuns : q.base = b + n} = {}
    BY DEF Touching
<1>2. b + n - b = n
    OBVIOUS
<1> QED
    BY <1>1, <1>2 DEF Merged

\* Pages that touch none of the heap's become a section of their own.
LEMMA GiveRuns ==
  ASSUME TypeOK, RunsInv, NEW r \in freeRuns, NEW n \in Nat, n <= r.len,
         Touching(r.base, n) = {}, GiveToHeap(r, n)
  PROVE  /\ heapRuns' = heapRuns \cup {[base |-> r.base, len |-> n]}
         /\ heapRuns' \subseteq AnyRun
         /\ freeRuns' \subseteq [base : Nat, len : Nat \ {0}]
         /\ RunsInv'
<1> DEFINE g == [base |-> r.base, len |-> n]
           t == [base |-> r.base + n, len |-> r.len - n]
<1>t. /\ freeRuns \subseteq [base : Nat, len : Nat \ {0}]
      /\ heapRuns \subseteq [base : Nat, len : Nat]
      /\ r.base \in Nat /\ r.len \in Nat /\ r.len > 0
    BY DEF TypeOK
<1>1. heapRuns' = heapRuns \cup {g}
  <2>1. Merged(r.base, n) = g
      BY <1>t, MergedAlone
  <2> QED
      BY <2>1 DEF GiveToHeap
<1>2. freeRuns' \subseteq (freeRuns \ {r}) \cup (IF r.len > n THEN {t} ELSE {})
    BY DEF GiveToHeap, CutRun
<1>g. g.base = r.base /\ g.len = n /\ t.base = r.base + n /\ t.len = r.len - n
    OBVIOUS
<1>3. g \in AnyRun /\ (r.len > n => t \in [base : Nat, len : Nat \ {0}])
    BY <1>t DEF AnyRun
<1>4. \A q \in heapRuns : q.base + q.len # r.base /\ q.base # r.base + n
    BY DEF Touching
<1>5. /\ \A q \in freeRuns \cup heapRuns : q.base > 0 /\ q.base + q.len <= NumPages
      /\ \A q \in freeRuns : q # r => Disjoint(q, r)
      /\ \A q, p \in freeRuns : q # p => Disjoint(q, p)
      /\ \A q \in heapRuns : Disjoint(q, r)
      /\ \A q \in heapRuns, p \in freeRuns : Disjoint(q, p)
      /\ \A q, p \in heapRuns : q # p => Distant(q, p)
    BY DEF RunsInv
<1>6. \A q \in heapRuns : Distant(q, g) /\ Distant(g, q)
    BY <1>t, <1>4, <1>5, <1>g DEF Disjoint, Distant
<1>7. \A p \in freeRuns \ {r} : Disjoint(g, p)
    BY <1>t, <1>5, <1>g DEF Disjoint
<1>8. r.len > n =>
        /\ Disjoint(g, t)
        /\ \A q \in heapRuns : Disjoint(q, t)
        /\ \A p \in freeRuns \ {r} : Disjoint(p, t) /\ Disjoint(t, p)
    BY <1>t, <1>5, <1>g DEF Disjoint
<1>9. /\ g.base > 0 /\ g.base + g.len <= NumPages
      /\ r.len > n => t.base > 0 /\ t.base + t.len <= NumPages
    BY <1>t, <1>5, <1>g, HeapAssumption
<1> HIDE DEF g, t
<1>10. \A q \in freeRuns' \cup heapRuns' : q.base > 0 /\ q.base + q.len <= NumPages
    BY <1>1, <1>2, <1>5, <1>9
<1>11. \A q, p \in freeRuns' : q # p => Disjoint(q, p)
    BY <1>2, <1>5, <1>8
<1>12. \A q \in heapRuns', p \in freeRuns' : Disjoint(q, p)
    BY <1>1, <1>2, <1>5, <1>7, <1>8
<1>13. \A q, p \in heapRuns' : q # p => Distant(q, p)
    BY <1>1, <1>5, <1>6
<1> QED
    BY <1>t, <1>1, <1>2, <1>3, <1>10, <1>11, <1>12, <1>13
    DEF RunsInv, Disjoint, Distant, AnyRun, g

\* When the biggest block ends where free pages begin, its section does too.
LEMMA EndsAtSection ==
  ASSUME TypeOK, RunsInv, TileInv, NEW d \in Descs, NEW r \in freeRuns, NEW n,
         End(d) = Start(r)
  PROVE  Touching(r.base, n) # {}
<1>1. PICK q \in heapRuns : Within(d, q)
    BY DEF TileInv
<1>2. q \in AnyRun /\ r \in AnyRun /\ r.len > 0
    BY RunTypes DEF TypeOK
<1>3. /\ Start(q) \in Nat /\ Stop(q) \in Nat /\ Start(r) \in Nat /\ Stop(r) \in Nat
      /\ Start(r) <= Stop(r)
    BY <1>2, RunBounds
<1>4. d \in Nat /\ d < End(d)
    BY DescFacts
<1>5. q.base + q.len <= r.base \/ r.base + r.len <= q.base
    BY DEF RunsInv, Disjoint
<1>6. ~(r.base + r.len <= q.base)
  <2>1. r.base + r.len <= q.base => Stop(r) <= Start(q)
      BY <1>2, HeapAssumption, Times DEF Start, Stop, AnyRun
  <2> QED
      BY <1>1, <1>3, <1>4, <2>1 DEF Within
<1>7. ~(q.base + q.len < r.base)
  <2>1. q.base + q.len < r.base => Stop(q) + PageSize <= Start(r)
      BY <1>2, HeapAssumption, Times DEF Start, Stop, AnyRun
  <2> QED
      BY <1>1, <1>3, <2>1, HeapAssumption DEF Within
<1>8. q.base + q.len = r.base
    BY <1>2, <1>5, <1>6, <1>7 DEF AnyRun
<1> QED
    BY <1>8 DEF Touching

\* More pages, and whatever is written to NULL->length, disturb nothing.
LEMMA SameLinks ==
  ASSUME TypeOK, RunsInv, TileInv, NextInv, PrevInv, heapRuns \subseteq heapRuns',
         magic' = magic, prev' = prev, next' = next, firstHeapDesc' = firstHeapDesc,
         \A x \in Addr \ {NULL} : length'[x] = length[x]
  PROVE  TileInv' /\ NextInv' /\ PrevInv'
<1>1. \A x \in Descs : x \in Addr /\ x # NULL
    BY DescFacts
<1>2. \A x \in Addr : prev[x] \in Addr
    BY DEF TypeOK
<1>3. Descs' = Descs /\ \A x \in Addr \ {NULL} : EndNew(x) = End(x)
    BY DEF Descs, EndNew, End
<1>4. SectionStarts \subseteq SectionStarts'
    BY DEF SectionStarts
<1>5. TileInv'
  <2>1. \A x \in Descs' : \E r \in heapRuns' : Start(r) <= x /\ EndNew(x) <= Stop(r)
      BY <1>1, <1>3 DEF TileInv, Within
  <2>2. \A x, y \in Descs' : x # y => EndNew(x) <= y \/ EndNew(y) <= x
      BY <1>1, <1>3 DEF TileInv
  <2> QED
      BY <2>1, <2>2 DEF TileInv, Within, EndNew, End, Start, Stop
<1>6. NextInv'
  <2>1. \A x \in Descs' : next'[x] # NULL =>
          /\ next'[x] \in Descs' /\ next'[x] # firstHeapDesc'
          /\ EndNew(x) = next'[x] \/ next'[x] \in SectionStarts'
      BY <1>1, <1>3, <1>4 DEF NextInv
  <2>2. \A x, y \in Descs' : EndNew(x) = y => next'[x] = y
      BY <1>1, <1>3 DEF NextInv
  <2> QED
      BY <2>1, <2>2 DEF NextInv, EndNew, End
<1>7. PrevInv'
  <2>1. ASSUME NEW x \in Descs', prev'[x] # NULL
        PROVE  \/ prev'[x] \in Descs' /\ next'[prev'[x]] = x
               \/ /\ EndNew(prev'[x]) < x \/ x \in SectionStarts'
                  /\ \E r \in heapRuns' : Start(r) <= prev'[x] /\ EndNew(prev'[x]) <= Stop(r)
      BY <1>1, <1>2, <1>3, <1>4, <2>1 DEF PrevInv, Stale, Within
  <2> QED
      BY <2>1 DEF PrevInv, Stale, Within, EndNew, End, Start, Stop
<1> QED
    BY <1>5, <1>6, <1>7

-----------------------------------------------------------------------------
(* A section of its own, linked after the last descriptor.                 *)

NewSection(g, a) ==
  /\ g \in AnyRun /\ g.len > 0 /\ g.base > 0 /\ g.base + g.len <= NumPages
  /\ \A q \in heapRuns : Distant(q, g)
  /\ a = Start(g)
  /\ heapRuns' = heapRuns \cup {g}
  /\ magic' = [magic EXCEPT ![a] = TRUE]
  /\ length' = [length EXCEPT ![a] = g.len * PageSize - DescSize]

LEMMA NewSectionShape ==
  ASSUME TypeOK, RunsInv, TileInv, NEW g, NEW a, NewSection(g, a)
  PROVE  /\ a \in Addr /\ a \in Nat /\ a # NULL /\ a \notin Descs
         /\ Descs' = Descs \cup {a} /\ a \in SectionStarts'
         /\ SectionStarts \subseteq SectionStarts'
         /\ EndNew(a) = Stop(g) /\ a < Stop(g) /\ Stop(g) \in Nat
         /\ \A x \in Addr \ {a} : EndNew(x) = End(x)
         /\ \A x \in Addr, q \in heapRuns : Within(x, q) =>
              x # a /\ (End(x) < a \/ Stop(g) < x)
         /\ length' \in [Addr -> Nat]
         /\ g.len * PageSize - DescSize \in Nat
<1>1. /\ g \in AnyRun /\ g.len \in Nat /\ g.base \in Nat /\ g.len > 0 /\ a = Start(g)
      /\ g.base > 0 /\ g.base + g.len <= NumPages
    BY DEF NewSection, AnyRun
<1>2. /\ PageSize \in Nat /\ DescSize \in Nat /\ DescSize > 0 /\ PageSize > DescSize
      /\ NumPages \in Nat
    BY HeapAssumption
<1>3. /\ Start(g) \in Nat /\ Stop(g) \in Nat /\ Start(g) > 0
      /\ Stop(g) <= NumPages * PageSize
    BY <1>1, RunBounds
<1>4. g.len * PageSize \in Nat /\ 0 * PageSize + PageSize <= g.len * PageSize
    BY <1>1, <1>2, Times
<1>5. Stop(g) = Start(g) + g.len * PageSize
    BY <1>1, <1>2 DEF Start, Stop
<1> DEFINE size == NumPages * PageSize
           bytes == g.len * PageSize
<1>6. size \in Nat /\ Addr = 0..(size - 1)
    BY <1>2, Times DEF Addr
<1> HIDE DEF size
<1>7. bytes \in Nat /\ bytes >= PageSize /\ Stop(g) = Start(g) + bytes /\ Stop(g) <= size
    BY <1>2, <1>3, <1>4, <1>5 DEF size
<1>8. length' = [length EXCEPT ![a] = bytes - DescSize]
    BY DEF NewSection
<1> HIDE DEF bytes
<1>9. a \in Addr /\ a \in Nat /\ a # NULL /\ a < Stop(g)
    BY <1>1, <1>2, <1>3, <1>6, <1>7 DEF NULL
<1>t. magic \in [Addr -> BOOLEAN] /\ length \in [Addr -> Nat]
    BY DEF TypeOK
<1>10. /\ length'[a] = bytes - DescSize /\ length' \in [Addr -> Nat]
       /\ \A x \in Addr \ {a} : length'[x] = length[x]
    BY <1>2, <1>7, <1>8, <1>9, <1>t
<1>11. EndNew(a) = Stop(g) /\ \A x \in Addr \ {a} : EndNew(x) = End(x)
    BY <1>1, <1>2, <1>7, <1>9, <1>10 DEF EndNew, End
<1>12. ASSUME NEW x \in Addr, NEW q \in heapRuns, Within(x, q)
       PROVE  x # a /\ (End(x) < a \/ Stop(g) < x)
  <2>1. q \in AnyRun /\ Distant(q, g)
      BY RunTypes DEF NewSection
  <2>2. Stop(q) < Start(g) \/ Stop(g) < Start(q)
      BY <1>1, <2>1, RunOrder
  <2>3. Start(q) \in Nat /\ Stop(q) \in Nat
      BY <2>1, RunBounds
  <2>4. x \in Nat /\ length[x] \in Nat /\ End(x) = x + DescSize + length[x]
      BY <1>t, AddrNat DEF End
  <2> QED
      BY <1>1, <1>2, <1>3, <1>9, <1>12, <2>2, <2>3, <2>4 DEF Within
<1>13. a \notin Descs
    BY <1>9, <1>12 DEF TileInv
<1>14. Descs' = Descs \cup {a}
    BY <1>9, <1>t DEF NewSection, Descs
<1>15. a \in SectionStarts' /\ SectionStarts \subseteq SectionStarts'
    BY <1>1 DEF NewSection, SectionStarts, Start
<1>16. g.len * PageSize - DescSize \in Nat
    BY <1>2, <1>7 DEF bytes
<1> QED
    BY <1>3, <1>9, <1>10, <1>11, <1>12, <1>13, <1>14, <1>15, <1>16

LEMMA NewSectionTiles ==
  ASSUME TypeOK, RunsInv, TileInv, NEW g, NEW a, NewSection(g, a)
  PROVE  TileInv'
<1>1. /\ a \in Addr /\ a \in Nat /\ a \notin Descs /\ Descs' = Descs \cup {a}
      /\ EndNew(a) = Stop(g) /\ a < Stop(g) /\ Stop(g) \in Nat
      /\ \A x \in Addr \ {a} : EndNew(x) = End(x)
      /\ \A x \in Addr, q \in heapRuns : Within(x, q) => End(x) < a \/ Stop(g) < x
    BY NewSectionShape
<1>2. \A x \in Descs : x \in Addr /\ x \in Nat /\ End(x) \in Nat
    BY DescFacts
<1>3. \A x \in Descs : \E r \in heapRuns : Within(x, r)
    BY DEF TileInv
<1>4. heapRuns' = heapRuns \cup {g} /\ a = Start(g)
    BY DEF NewSection
<1>5. ASSUME NEW x \in Descs'
      PROVE  \E r \in heapRuns' : Start(r) <= x /\ EndNew(x) <= Stop(r)
    BY <1>1, <1>2, <1>3, <1>4 DEF Within
<1>6. ASSUME NEW x \in Descs', NEW y \in Descs', x # y
      PROVE  EndNew(x) <= y \/ EndNew(y) <= x
  <2>1. CASE x \in Descs /\ y \in Descs
      BY <1>1, <1>2, <1>6, <2>1 DEF TileInv
  <2>2. CASE x = a \/ y = a
      BY <1>1, <1>2, <1>3, <1>6, <2>2
  <2> QED
      BY <1>1, <2>1, <2>2
<1> QED
    BY <1>5, <1>6 DEF TileInv, Within, EndNew, End, Start, Stop

LinkedLast(a) ==
  /\ prev' = [prev EXCEPT ![a] = lastHeapDesc]
  /\ next' = [next EXCEPT ![a] = NULL, ![lastHeapDesc] = a]

LEMMA NewSectionNext ==
  ASSUME TypeOK, RunsInv, TileInv, NextInv, NEW g, NEW a, NewSection(g, a),
         LinkedLast(a), lastHeapDesc \in Descs, next[lastHeapDesc] = NULL,
         firstHeapDesc \in Descs, firstHeapDesc' = firstHeapDesc
  PROVE  NextInv'
<1>1. /\ a \in Addr /\ a \in Nat /\ a # NULL /\ a \notin Descs /\ Descs' = Descs \cup {a}
      /\ a \in SectionStarts' /\ SectionStarts \subseteq SectionStarts'
      /\ EndNew(a) = Stop(g) /\ a < Stop(g) /\ Stop(g) \in Nat
      /\ \A x \in Addr \ {a} : EndNew(x) = End(x)
      /\ \A x \in Addr, q \in heapRuns : Within(x, q) => End(x) < a \/ Stop(g) < x
    BY NewSectionShape
<1>2. \A x \in Descs : x \in Addr /\ x \in Nat /\ x # NULL /\ End(x) \in Nat /\ x < End(x)
    BY DescFacts
<1>3. \A x \in Descs : \E r \in heapRuns : Within(x, r)
    BY DEF TileInv
<1>4. /\ next'[a] = NULL /\ next'[lastHeapDesc] = a
      /\ \A x \in Addr \ {a, lastHeapDesc} : next'[x] = next[x]
  <2>1. next \in [Addr -> Addr]
      BY DEF TypeOK
  <2> QED
      BY <1>1, <1>2, <2>1 DEF LinkedLast
<1>5. ASSUME NEW x \in Descs', next'[x] # NULL
      PROVE  /\ next'[x] \in Descs' /\ next'[x] # firstHeapDesc'
             /\ EndNew(x) = next'[x] \/ next'[x] \in SectionStarts'
  <2>1. CASE x = lastHeapDesc
      BY <1>1, <1>4, <2>1
  <2>2. CASE x # lastHeapDesc
      BY <1>1, <1>2, <1>4, <1>5, <2>2 DEF NextInv
  <2> QED
      BY <2>1, <2>2
<1>6. ASSUME NEW x \in Descs', NEW y \in Descs', EndNew(x) = y
      PROVE  next'[x] = y
  <2>1. CASE x \in Descs /\ y \in Descs
    <3>1. next[x] = y
        BY <1>1, <1>2, <1>6, <2>1 DEF NextInv
    <3> QED
        BY <1>1, <1>2, <1>4, <2>1, <3>1
  <2>2. CASE x = a \/ y = a
      BY <1>1, <1>2, <1>3, <1>6, <2>2
  <2> QED
      BY <1>1, <2>1, <2>2
<1> QED
    BY <1>5, <1>6 DEF NextInv, EndNew, End

LEMMA NewSectionPrev ==
  ASSUME TypeOK, RunsInv, TileInv, PrevInv, NEW g, NEW a, NewSection(g, a),
         LinkedLast(a), lastHeapDesc \in Descs, next[lastHeapDesc] = NULL
  PROVE  PrevInv'
<1>1. /\ a \in Addr /\ a \in Nat /\ a # NULL /\ a \notin Descs /\ Descs' = Descs \cup {a}
      /\ SectionStarts \subseteq SectionStarts'
      /\ \A x \in Addr \ {a} : EndNew(x) = End(x)
      /\ \A x \in Addr, q \in heapRuns : Within(x, q) => x # a
    BY NewSectionShape
<1>2. \A x \in Descs : x \in Addr /\ x \in Nat /\ x # NULL
    BY DescFacts
<1>3. heapRuns \subseteq heapRuns'
    BY DEF NewSection
<1>4. /\ next'[lastHeapDesc] = a /\ prev'[a] = lastHeapDesc
      /\ \A x \in Addr \ {a, lastHeapDesc} : next'[x] = next[x]
      /\ \A x \in Addr \ {a} : prev'[x] = prev[x] /\ prev[x] \in Addr
  <2>1. next \in [Addr -> Addr] /\ prev \in [Addr -> Addr]
      BY DEF TypeOK
  <2> QED
      BY <1>1, <1>2, <2>1 DEF LinkedLast
<1>5. ASSUME NEW x \in Descs', prev'[x] # NULL
      PROVE  \/ prev'[x] \in Descs' /\ next'[prev'[x]] = x
             \/ /\ EndNew(prev'[x]) < x \/ x \in SectionStarts'
                /\ \E r \in heapRuns' : Start(r) <= prev'[x] /\ EndNew(prev'[x]) <= Stop(r)
  <2>1. CASE x = a
      BY <1>1, <1>4, <2>1
  <2>2. CASE x # a
    <3>1. x \in Descs /\ prev'[x] = prev[x] /\ prev[x] \in Addr
        BY <1>1, <1>2, <1>4, <2>2
    <3>2. CASE prev[x] \in Descs /\ next[prev[x]] = x
        BY <1>1, <1>2, <1>4, <3>1, <3>2
    <3>3. CASE Stale(prev[x], x) /\ \E r \in heapRuns : Within(prev[x], r)
        BY <1>1, <1>3, <3>1, <3>3 DEF Stale, Within
    <3> QED
        BY <1>5, <3>1, <3>2, <3>3 DEF PrevInv
  <2> QED
      BY <2>1, <2>2
<1> QED
    BY <1>5 DEF PrevInv, Stale, Within, EndNew, End, Start, Stop

-----------------------------------------------------------------------------
(* The list meets every descriptor, and the sections are full.             *)

\* What the walk has met it goes on from.
Reaching ==
  /\ firstHeapDesc \in Listed
  /\ \A x \in Listed : next[x] # NULL => next[x] \in Listed

Rooted == next \in [Addr -> Addr] /\ firstHeapDesc \in Addr /\ firstHeapDesc # NULL

LEMMA ListReaches == Rooted => Reaching
BY WalkCloses DEF Rooted, Reaching, Listed

LEMMA ListReachesAfter == Rooted' => Reaching'
BY ListReaches, PTL

\* Descriptors that the list meets again are all there were, when there is no
\* way out of them.
LEMMA AllMetAgain ==
  ASSUME TypeOK, Descs \subseteq Listed, NEW S \in SUBSET Addr,
         firstHeapDesc \in S,
         \A x \in S : next[x] # NULL => next[x] \in S
  PROVE  Descs \subseteq S
BY WalkStays DEF TypeOK, Listed

LEMMA SplitFills ==
  ASSUME TypeOK, RunsInv, TileInv, NextInv, firstHeapDesc \in Descs,
         Descs \subseteq Listed, Filled, Rooted',
         NEW d \in Descs, NEW n \in Nat \ {0}, Splits(d, n),
         NEW s, s = PayloadOf(d) + n, SplitOff(d, s, n), heapRuns' = heapRuns,
         firstHeapDesc' = firstHeapDesc
  PROVE  Descs' \subseteq Listed' /\ Filled'
<1>1. /\ s \in Addr /\ s # NULL /\ s \notin Descs /\ d < s
      /\ Descs' = Descs \cup {s}
      /\ EndNew(d) = s /\ EndNew(s) = End(d)
      /\ \A x \in Addr \ {d, s} : EndNew(x) = End(x)
      /\ next'[d] = s /\ next'[s] = next[d]
      /\ \A x \in Addr \ {d, s} : next'[x] = next[x]
    BY SplitShape
<1>2. Reaching'
    BY ListReachesAfter
<1> DEFINE S == {x \in Descs : x \in Listed'}
<1>3. firstHeapDesc \in S
    BY <1>2 DEF Reaching
<1>4. ASSUME NEW x \in S, next[x] # NULL PROVE next[x] \in S
  <2>1. x \in Addr /\ next[x] \in Descs /\ x # s
      BY <1>1, <1>4 DEF NextInv, Descs
  <2>2. CASE x = d
    <3>1. s \in Listed'
        BY <1>1, <1>2, <2>2 DEF Reaching
    <3>2. next[d] \in Listed'
        BY <1>1, <1>2, <1>4, <2>2, <3>1 DEF Reaching
    <3> QED
        BY <2>1, <2>2, <3>2
  <2>3. CASE x # d
    <3>1. next'[x] = next[x]
        BY <1>1, <2>1, <2>3
    <3> QED
        BY <1>2, <1>4, <2>1, <3>1 DEF Reaching
  <2> QED
      BY <2>2, <2>3
<1>5. Descs \subseteq S
    BY <1>3, <1>4, AllMetAgain DEF Descs
<1>6. Descs' \subseteq Listed'
    BY <1>1, <1>2, <1>5 DEF Reaching
<1>7. \A x \in Descs' : EndNew(x) \in Descs' \cup SectionEnds
    BY <1>1 DEF Filled, Descs
<1>8. ASSUME NEW x \in Descs'
      PROVE  \E r \in heapRuns :
               Start(r) <= x /\ EndNew(x) <= Stop(r) /\ Start(r) \in Descs'
  <2>1. d \in Nat /\ End(d) \in Nat /\ s \in Nat /\ s < End(d)
      BY DescFacts, SplitShape
  <2>2. CASE x \in Descs \ {d}
      BY <1>1, <2>2 DEF Filled, Within, Descs
  <2>3. CASE x \in {d, s}
    <3>1. PICK r \in heapRuns : Within(d, r) /\ Start(r) \in Descs
        BY DEF Filled
    <3>2. Start(r) \in Nat /\ Stop(r) \in Nat
        BY RunTypes, RunBounds
    <3> QED
        BY <1>1, <2>1, <2>3, <3>1, <3>2 DEF Within
  <2> QED
      BY <1>1, <2>2, <2>3
<1>9. Filled'
    BY <1>7, <1>8 DEF Filled, Within, End, EndNew, SectionEnds, Start, Stop
<1> QED
    BY <1>6, <1>9

LEMMA AbsorbFills ==
  ASSUME TypeOK, RunsInv, TileInv, NextInv, firstHeapDesc \in Descs,
         Descs \subseteq Listed, Filled, Rooted',
         NEW b \in Descs, NEW d \in Descs, End(b) = d, Absorb(b, d),
         heapRuns' = heapRuns, firstHeapDesc' = firstHeapDesc
  PROVE  Descs' \subseteq Listed' /\ Filled'
<1>1. /\ b # d /\ next[b] = d /\ next[d] # d
      /\ Descs' = Descs \ {d}
      /\ EndNew(b) = End(d) /\ \A x \in Addr \ {b} : EndNew(x) = End(x)
      /\ next'[b] = next[d] /\ \A x \in Addr \ {b} : next'[x] = next[x]
      /\ \A x \in Descs : next[x] = d => x = b
    BY AbsorbShape
<1>2. Reaching'
    BY ListReachesAfter
<1>n. d # NULL /\ firstHeapDesc # d
    BY <1>1, DescFacts DEF NextInv
<1> DEFINE S == {x \in Descs \ {d} : x \in Listed'} \cup {x \in {d} : b \in Listed'}
<1>3. firstHeapDesc \in S
    BY <1>2, <1>n DEF Reaching
<1>4. ASSUME NEW x \in S, next[x] # NULL PROVE next[x] \in S
  <2>1. x \in Addr /\ next[x] \in Descs
      BY <1>4 DEF NextInv, Descs
  <2>2. CASE x = d
    <3>1. b \in Listed' /\ next[d] # d
        BY <1>1, <2>2
    <3>2. next[d] \in Listed'
        BY <1>1, <1>2, <1>4, <2>2, <3>1 DEF Reaching
    <3> QED
        BY <2>1, <2>2, <3>1, <3>2
  <2>3. CASE x = b
      BY <1>1, <2>3
  <2>4. CASE x # d /\ x # b
    <3>1. next'[x] = next[x] /\ next[x] # d /\ x \in Listed'
        BY <1>1, <2>1, <2>4
    <3>2. next[x] \in Listed'
        BY <1>2, <1>4, <3>1 DEF Reaching
    <3> QED
        BY <2>1, <3>1, <3>2
  <2> QED
      BY <2>2, <2>3, <2>4
<1>5. Descs \subseteq S
  <2>1. S \subseteq Addr
      BY DEF Descs
  <2> HIDE DEF S
  <2> QED
      BY <1>3, <1>4, <2>1, AllMetAgain
<1>6. Descs' \subseteq Listed'
    BY <1>1, <1>5
<1>7. \A x \in Descs' : EndNew(x) \in Descs' \cup SectionEnds
  <2> TAKE x \in Descs'
  <2>1. x \in Descs /\ x # d /\ x \in Addr
      BY <1>1 DEF Descs
  <2>2. End(d) # d
      BY DescFacts
  <2>3. CASE x = b
      BY <1>1, <2>2, <2>3 DEF Filled
  <2>4. CASE x # b
    <3>1. End(x) # d
        BY <1>1, <2>1, <2>4 DEF NextInv
    <3> QED
        BY <1>1, <2>1, <2>4, <3>1 DEF Filled
  <2> QED
      BY <2>3, <2>4
<1>8. ASSUME NEW r \in heapRuns PROVE Start(r) # d
  <2>1. PICK q \in heapRuns : Within(b, q)
      BY DEF TileInv
  <2> QED
      BY <2>1, SectionsApart DEF Descs
<1>9. ASSUME NEW x \in Descs'
      PROVE  \E r \in heapRuns :
               Start(r) <= x /\ EndNew(x) <= Stop(r) /\ Start(r) \in Descs'
  <2>1. CASE x # b
      BY <1>1, <1>8, <2>1 DEF Filled, Within, Descs
  <2>2. CASE x = b
    <3>1. PICK r \in heapRuns : Within(b, r) /\ Start(r) \in Descs
        BY DEF Filled
    <3>2. PICK q \in heapRuns : Start(q) <= b /\ End(d) <= Stop(q)
        BY AbsorbShape
    <3>3. q = r
      <4>1. /\ Start(q) \in Nat /\ Stop(q) \in Nat /\ Start(r) \in Nat /\ Stop(r) \in Nat
          BY RunTypes, RunBounds
      <4>2. b \in Nat /\ b < d /\ d \in Nat /\ d < End(d) /\ End(d) \in Nat
          BY DescFacts
      <4>3. q # r => Stop(q) < Start(r) \/ Stop(r) < Start(q)
          BY RunTypes, RunOrder DEF RunsInv
      <4> QED
          BY <3>1, <3>2, <4>1, <4>2, <4>3 DEF Within
    <3> QED
        BY <1>1, <1>8, <2>2, <3>1, <3>2, <3>3 DEF Within
  <2> QED
      BY <2>1, <2>2
<1>10. Filled'
    BY <1>7, <1>9 DEF Filled, Within, End, EndNew, SectionEnds, Start, Stop
<1> QED
    BY <1>6, <1>10

\* The bounds of the sections that are there stay when one is added.
LEMMA SectionFills ==
  ASSUME TypeOK, RunsInv, TileInv, Filled, NEW g, NEW a, NewSection(g, a)
  PROVE  Filled'
<1>1. /\ a \in Addr /\ a \notin Descs /\ Descs' = Descs \cup {a}
      /\ EndNew(a) = Stop(g) /\ \A x \in Addr \ {a} : EndNew(x) = End(x)
      /\ a < Stop(g) /\ Stop(g) \in Nat
    BY NewSectionShape
<1>2. heapRuns' = heapRuns \cup {g} /\ a = Start(g)
    BY DEF NewSection
<1>3. \A x \in Descs' : EndNew(x) \in Descs' \cup {Stop(r) : r \in heapRuns'}
  <2> TAKE x \in Descs'
  <2>1. CASE x = a
      BY <1>1, <1>2, <2>1
  <2>2. CASE x # a
    <3>1. x \in Descs /\ x \in Addr /\ EndNew(x) = End(x)
        BY <1>1, <2>2 DEF Descs
    <3>2. End(x) \in Descs \cup {Stop(r) : r \in heapRuns}
        BY <3>1 DEF Filled, SectionEnds, Stop
    <3> QED
        BY <1>1, <1>2, <3>1, <3>2
  <2> QED
      BY <2>1, <2>2
<1>4. ASSUME NEW x \in Descs'
      PROVE  \E r \in heapRuns' :
               Start(r) <= x /\ EndNew(x) <= Stop(r) /\ Start(r) \in Descs'
  <2>1. CASE x = a
    <3>1. Start(g) <= a /\ a \in Nat
        BY <1>1, <1>2, AddrNat
    <3> QED
        BY <1>1, <1>2, <2>1, <3>1
  <2>2. CASE x # a
      BY <1>1, <1>2, <2>2 DEF Filled, Within, Descs
  <2> QED
      BY <2>1, <2>2
<1> QED
    BY <1>3, <1>4 DEF Filled, Within, End, EndNew, SectionEnds, Start, Stop

LEMMA NewSectionListed ==
  ASSUME TypeOK, RunsInv, TileInv, NextInv, firstHeapDesc \in Descs,
         Descs \subseteq Listed, Rooted',
         NEW g, NEW a, NewSection(g, a), LinkedLast(a),
         lastHeapDesc \in Descs, next[lastHeapDesc] = NULL,
         firstHeapDesc' = firstHeapDesc
  PROVE  Descs' \subseteq Listed'
<1>1. a \in Addr /\ a # NULL /\ a \notin Descs /\ Descs' = Descs \cup {a}
    BY NewSectionShape
<1>2. Reaching'
    BY ListReachesAfter
<1>3. /\ next'[lastHeapDesc] = a
      /\ \A x \in Descs : x # lastHeapDesc => next'[x] = next[x]
    BY <1>1 DEF LinkedLast, TypeOK, Descs
<1> DEFINE S == {x \in Descs : x \in Listed'}
<1>4. firstHeapDesc \in S
    BY <1>2 DEF Reaching
<1>5. ASSUME NEW x \in S, next[x] # NULL PROVE next[x] \in S
  <2>1. next[x] \in Descs /\ next'[x] = next[x]
      BY <1>3, <1>5 DEF NextInv
  <2> QED
      BY <1>2, <1>5, <2>1 DEF Reaching
<1>6. Descs \subseteq S
    BY <1>4, <1>5, AllMetAgain DEF Descs
<1> QED
    BY <1>1, <1>2, <1>3, <1>6 DEF Reaching

-----------------------------------------------------------------------------
(* Descriptors in use, damaged or not.                                     *)

LEMMA MarkInit == Init => MarkInv
BY DEF Init, MarkInv, OnlyLiveFreeable, Descs

\* What Return adds to live holds the block; what Free takes was its holder.
LEMMA MarkReturn ==
  ASSUME MarkInv, NEW d, Return(d), pc # "boot",
         magic' \in [Addr -> BOOLEAN], used' \in [Addr -> BOOLEAN],
         \A x \in Addr \ {d} : magic'[x] /\ used'[x] => magic[x] /\ used[x],
         firstHeapDesc' = firstHeapDesc
  PROVE  MarkInv'
<1>1. /\ live' = live \cup {[at |-> PayloadOf(d), size |-> req.size]}
      /\ pc' # "boot"
    BY DEF Return
<1>2. ASSUME NEW x \in Addr, magic'[x], used'[x]
      PROVE  (\E b \in live' : b.at = PayloadOf(x)) \/ x = firstHeapDesc'
  <2>1. CASE x = d
    <3>1. [at |-> PayloadOf(d), size |-> req.size] \in live'
        BY <1>1
    <3> QED
        BY <2>1, <3>1
  <2>2. CASE x # d
    <3>1. (\E b \in live : b.at = PayloadOf(x)) \/ x = firstHeapDesc
        BY <1>2, <2>2 DEF MarkInv, OnlyLiveFreeable, Holder
    <3> QED
        BY <1>1, <3>1
  <2> QED
      BY <2>1, <2>2
<1> QED
    BY <1>1, <1>2 DEF MarkInv, OnlyLiveFreeable, Holder, PayloadOf

LEMMA MarkFree ==
  ASSUME MarkInv, NEW p, Free(p), pc # "boot"
  PROVE  MarkInv'
<1>1. /\ live' = live \ Holder(p)
      /\ magic' = magic /\ firstHeapDesc' = firstHeapDesc
      /\ pc' # "boot"
    BY DEF Free
<1>2. ASSUME NEW x \in Addr, magic'[x], used'[x]
      PROVE  magic[x] /\ used[x] /\ PayloadOf(x) # p
  <2>1. PayloadOf(x) = p => DescOf(p) = x
      BY AddrNat, HeapAssumption DEF PayloadOf, DescOf
  <2>2. DescOf(p) # x
      BY <1>2 DEF Free, MarkInv
  <2> QED
      BY <1>2, <2>1, <2>2 DEF Free, MarkInv
<1>3. \A x \in Addr : magic'[x] /\ used'[x] =>
        (\E b \in live' : b.at = PayloadOf(x)) \/ x = firstHeapDesc'
    BY <1>1, <1>2 DEF MarkInv, OnlyLiveFreeable, Holder
<1>4. used' \in [Addr -> BOOLEAN]
    BY DEF Free, MarkInv
<1> QED
    BY <1>1, <1>3, <1>4 DEF MarkInv, OnlyLiveFreeable, Holder, PayloadOf

\* Descriptors may appear unused or lose their mark.
LEMMA MarkKept ==
  ASSUME MarkInv, live' = live, pc' # "boot", firstHeapDesc' = firstHeapDesc,
         magic' \in [Addr -> BOOLEAN], used' \in [Addr -> BOOLEAN],
         \A x \in Addr : magic'[x] /\ used'[x] => magic[x] /\ used[x]
  PROVE  MarkInv'
BY DEF MarkInv, OnlyLiveFreeable, Holder, PayloadOf

LEMMA MarkStep == MarkInv /\ [Next]_vars => MarkInv'
<1> SUFFICES ASSUME MarkInv, [Next]_vars PROVE MarkInv'
    OBVIOUS
<1>t. magic \in [Addr -> BOOLEAN] /\ used \in [Addr -> BOOLEAN]
    BY DEF MarkInv
<1>1. CASE InitKernelHeap
  <2>r. PICK r \in freeRuns, flag \in BOOLEAN :
          /\ firstHeapDesc' = r.base * PageSize
          /\ magic' = [magic EXCEPT ![r.base * PageSize] = TRUE]
          /\ used' = [used EXCEPT ![r.base * PageSize] = flag]
      BY <1>1 DEF InitKernelHeap
  <2> DEFINE d == r.base * PageSize
  <2>1. /\ firstHeapDesc' = d
        /\ magic' = [magic EXCEPT ![d] = TRUE]
        /\ used' = [used EXCEPT ![d] = flag]
      BY <2>r
  <2> HIDE DEF d
  <2>2. live' = live /\ pc = "boot" /\ pc' # "boot"
      BY <1>1 DEF InitKernelHeap
  <2>3. \A x \in Addr : magic'[x] => x = firstHeapDesc'
      BY <1>t, <2>1, <2>2 DEF MarkInv, Descs
  <2> QED
      BY <1>t, <2>1, <2>2, <2>3 DEF MarkInv, OnlyLiveFreeable
<1>2. ASSUME NEW n \in sizes, Kalloc(n)
      PROVE  MarkInv'
    BY <1>t, <1>2, MarkKept DEF Kalloc, Request, desc
<1>3. ASSUME NEW b \in live, Kfree(b)
      PROVE  MarkInv'
    BY <1>3, MarkFree DEF Kfree
<1>4. ASSUME NEW b \in live, NEW n \in sizes, Krealloc(b, n)
      PROVE  MarkInv'
  <2>1. CASE UNCHANGED desc /\ live' = live /\ pc' # "boot"
      BY <1>t, <2>1, MarkKept DEF desc
  <2>2. CASE /\ live' = (live \ {b}) \cup {[b EXCEPT !.size = n]}
             /\ UNCHANGED <<desc, pc>> /\ pc # "boot"
    <3>1. b = [at |-> b.at, size |-> b.size]
        BY DEF MarkInv
    <3> DEFINE c == [at |-> b.at, size |-> n]
    <3>2. [b EXCEPT !.size = n] = c
        BY <3>1
    <3>3. live' = (live \ {b}) \cup {c} /\ c.at = b.at /\ c = [at |-> c.at, size |-> c.size]
        BY <2>2, <3>2
    <3> HIDE DEF c
    <3>4. UNCHANGED <<magic, used, firstHeapDesc, pc>>
        BY <2>2 DEF desc
    <3>5. \A x \in live : \E y \in live' : y.at = x.at
        BY <3>3
    <3> QED
        BY <1>t, <2>2, <3>3, <3>4, <3>5
        DEF MarkInv, OnlyLiveFreeable, Holder, PayloadOf, Descs
  <2> QED
      BY <1>4, <2>1, <2>2 DEF Krealloc, Request
<1>5. CASE TakeExact
  <2>1. PICK d \in Addr : used' = [used EXCEPT ![d] = TRUE] /\ Return(d)
      BY <1>5 DEF TakeExact
  <2> QED
      BY <1>5, <1>t, <2>1, MarkReturn DEF TakeExact
<1>6. CASE TakeBest \/ SearchHangs \/ ExpandFails
    BY <1>6, <1>t, MarkKept DEF TakeBest, SearchHangs, ExpandFails, desc
<1>7. CASE ExpandAt
    BY <1>7, <1>t, MarkKept DEF ExpandAt
<1>8. CASE ExpandNew
  <2>1. PICK a : magic' = [magic EXCEPT ![a] = TRUE] /\ used' = [used EXCEPT ![a] = FALSE]
      BY <1>8 DEF ExpandNew
  <2> QED
      BY <1>8, <1>t, <2>1, MarkKept DEF ExpandNew
<1>9. CASE Place
  <2>1. pc # "boot" /\ firstHeapDesc' = firstHeapDesc /\ Return(cur)
      BY <1>9 DEF Place
  <2>2. CASE Splits(cur, req.size)
    <3> DEFINE s == PayloadOf(cur) + req.size
    <3>1. /\ magic' = [magic EXCEPT ![s] = TRUE]
          /\ used' = [used EXCEPT ![s] = FALSE, ![cur] = TRUE]
        BY <1>9, <2>2 DEF Place, SplitOff
    <3> HIDE DEF s
    <3>2. \A x \in Addr \ {cur} : magic'[x] /\ used'[x] => magic[x] /\ used[x]
        BY <1>t, <3>1
    <3>3. magic' \in [Addr -> BOOLEAN] /\ used' \in [Addr -> BOOLEAN]
        BY <1>t, <3>1
    <3> QED
        BY <2>1, <3>2, <3>3, MarkReturn
  <2>3. CASE ~Splits(cur, req.size)
    <3>1. magic' = magic /\ used' = [used EXCEPT ![cur] = TRUE]
        BY <1>9, <2>3 DEF Place
    <3> QED
        BY <1>t, <2>1, <3>1, MarkReturn
  <2> QED
      BY <2>2, <2>3
<1>10. CASE FreeOld
    BY <1>10, MarkFree DEF FreeOld
<1>11. CASE MergePrev \/ MergeNext
  <2>1. /\ used' = used /\ live' = live /\ pc' # "boot"
        /\ firstHeapDesc' = firstHeapDesc
        /\ magic' = magic \/ \E d : magic' = [magic EXCEPT ![d] = FALSE]
      BY <1>11 DEF MergePrev, MergeNext, Absorb, desc
  <2> QED
      BY <1>t, <2>1, MarkKept
<1>12. CASE UNCHANGED vars
    BY <1>12 DEF vars, desc, MarkInv, OnlyLiveFreeable, Holder, PayloadOf, Descs
<1> QED
    BY <1>1, <1>2, <1>3, <1>4, <1>5, <1>6, <1>7, <1>8, <1>9, <1>10, <1>11, <1>12
    DEF Next, Continue

-----------------------------------------------------------------------------
(* The heap that is not damaged.                                           *)

LEMMA SoundInit == Init => SoundInv
<1> SUFFICES ASSUME Init PROVE SoundInv
    OBVIOUS
<1>1. PICK l \in Loads : /\ freeRuns = l.runs /\ sizes = l.sizes
                         /\ length = [a \in Addr |-> IF a = NULL THEN l.low ELSE 0]
    BY DEF Init
<1>2. /\ l.runs \subseteq [base : Nat \ {0}, len : Nat \ {0}]
      /\ l.sizes \subseteq Nat \ {0} /\ l.low \in Nat
      /\ \A r \in l.runs : r.base + r.len <= NumPages
      /\ \A q, r \in l.runs : q # r => Disjoint(q, r)
    BY HeapAssumption DEF Disjoint
<1>3. Descs = {} /\ heapRuns = {} /\ live = {}
    BY DEF Init, Descs
<1>4. TypeOK
    BY <1>1, <1>2, NullAddr DEF Init, TypeOK, NoReq
<1>5. RunsInv
    BY <1>1, <1>2, <1>3 DEF RunsInv
<1>6. EndsInv /\ LiveInv
    BY <1>3 DEF Init, EndsInv, LiveInv, NoReq
<1> QED
    BY <1>3, <1>4, <1>5, <1>6 DEF SoundInv, TileInv, NextInv, PrevInv

LEMMA Undisturbed ==
  ASSUME SoundInv,
         UNCHANGED <<magic, prev, next, length, firstHeapDesc, freeRuns, heapRuns>>
  PROVE  /\ RunsInv' /\ TileInv' /\ NextInv' /\ PrevInv'
         /\ Descs' = Descs /\ Listed' = Listed
<1>1. Descs' = Descs /\ SectionStarts' = SectionStarts /\ Listed' = Listed
    BY DEF Descs, SectionStarts, Listed, WalkFrom
<1>2. RunsInv'
    BY DEF SoundInv, RunsInv
<1>3. TileInv'
    BY <1>1 DEF SoundInv, TileInv, Within, End, Start, Stop
<1>4. NextInv'
    BY <1>1 DEF SoundInv, NextInv, End
<1>5. PrevInv'
    BY <1>1 DEF SoundInv, PrevInv, Stale, Within, End, Start, Stop
<1> QED
    BY <1>1, <1>2, <1>3, <1>4, <1>5

LEMMA ListedAreDescs ==
  ASSUME SoundInv, pc # "boot"
  PROVE  Listed \subseteq Descs
BY ListedDescs DEF SoundInv, EndsInv

\* A block that is long enough begins where there is memory.
LEMMA BlockAddr ==
  ASSUME TypeOK, RunsInv, TileInv, NEW d \in Descs, length[d] > 0
  PROVE  PayloadOf(d) \in Addr /\ PayloadOf(d) # NULL
<1>1. PICK r \in heapRuns : Within(d, r)
    BY DEF TileInv
<1>2. Start(r) \in Nat /\ Stop(r) \in Nat
    BY RunTypes, RunBounds
<1>3. d \in Nat /\ length[d] \in Nat /\ DescSize \in Nat /\ DescSize > 0
    BY DescFacts, HeapAssumption
<1> QED
    BY <1>1, <1>2, <1>3, InRun DEF Within, End, PayloadOf

LEMMA SoundRequest ==
  ASSUME SoundInv, pc = "idle", NEW n \in sizes, NEW old \in Addr,
         old # NULL => Holder(old) # {}, Request(n, old)
  PROVE  SoundInv'
<1>1. /\ UNCHANGED <<magic, prev, next, used, length, firstHeapDesc, lastHeapDesc>>
      /\ UNCHANGED <<freeRuns, heapRuns, damaged, sizes, cur, live>>
      /\ req' = [size |-> n, old |-> old] /\ pc' = "search"
    BY DEF Request, desc, pages
<1>2. RunsInv' /\ TileInv' /\ NextInv' /\ PrevInv' /\ Descs' = Descs
    BY <1>1, Undisturbed
<1>3. n \in Nat /\ n > 0
    BY DEF SoundInv, TypeOK
<1>4. TypeOK'
    BY <1>1, <1>3 DEF SoundInv, TypeOK
<1>5. EndsInv'
    BY <1>1, <1>2 DEF SoundInv, EndsInv
<1>6. Holder(old)' = Holder(old)
    BY <1>1 DEF Holder
<1>7. LiveInv'
    BY <1>1, <1>2, <1>3, <1>6 DEF SoundInv, LiveInv, Holder
<1> QED
    BY <1>2, <1>4, <1>5, <1>7 DEF SoundInv

LEMMA SoundResize ==
  ASSUME SoundInv, MarkInv, NEW b \in live, NEW n \in sizes, Krealloc(b, n),
         ~(length[DescOf(b.at)] < n)
  PROVE  SoundInv'
<1> DEFINE c == [at |-> b.at, size |-> n]
<1>1. magic[DescOf(b.at)] /\ length[DescOf(b.at)] \in Nat
    BY DescFacts DEF SoundInv, LiveInv, Descs
<1>2. /\ UNCHANGED <<magic, prev, next, used, length, firstHeapDesc, lastHeapDesc>>
      /\ UNCHANGED <<freeRuns, heapRuns, damaged, sizes, cur, pc, req>>
      /\ pc = "idle" /\ live' = (live \ {b}) \cup {c}
  <2>1. b = [at |-> b.at, size |-> b.size]
      BY DEF MarkInv
  <2>2. [b EXCEPT !.size = n] = c
      BY <2>1
  <2> QED
      BY <1>1, <2>2 DEF Krealloc, desc, pages
<1>3. RunsInv' /\ TileInv' /\ NextInv' /\ PrevInv' /\ Descs' = Descs
    BY <1>2, Undisturbed
<1>4. n \in Nat /\ n > 0 /\ b.at \in Addr
    BY DEF SoundInv, TypeOK
<1>5. c \in [at : Addr, size : Nat \ {0}] /\ c.at = b.at /\ c.size = n
    BY <1>4
<1> HIDE DEF c
<1>6. TypeOK'
    BY <1>2, <1>5 DEF SoundInv, TypeOK
<1>7. EndsInv'
    BY <1>2, <1>3 DEF SoundInv, EndsInv
<1>8. ASSUME NEW x \in live'
      PROVE  /\ DescOf(x.at) \in Descs' /\ used'[DescOf(x.at)]
             /\ length'[DescOf(x.at)] >= x.size
    BY <1>1, <1>2, <1>3, <1>4, <1>5 DEF SoundInv, LiveInv
<1>9. \A x, y \in live' : x.at = y.at => x = y
    BY <1>2, <1>5 DEF SoundInv, LiveInv
<1>10. \A x \in live : \E y \in live' : y.at = x.at
    BY <1>2, <1>5
<1>11. req.old # NULL => Holder(req.old)' # {}
    BY <1>2, <1>10 DEF SoundInv, LiveInv, Holder
<1>12. LiveInv'
    BY <1>2, <1>8, <1>9, <1>11 DEF LiveInv, Holder
<1> QED
    BY <1>3, <1>6, <1>7, <1>12 DEF SoundInv

LEMMA SoundWait ==
  ASSUME SoundInv, TakeBest \/ SearchHangs \/ ExpandFails
  PROVE  SoundInv'
<1>1. /\ UNCHANGED <<magic, prev, next, used, length, firstHeapDesc, lastHeapDesc>>
      /\ UNCHANGED <<freeRuns, heapRuns, damaged, sizes, req, live>>
      /\ pc = "search"
    BY DEF TakeBest, SearchHangs, ExpandFails, NothingFits, desc, pages
<1>2. RunsInv' /\ TileInv' /\ NextInv' /\ PrevInv' /\ Descs' = Descs
    BY <1>1, Undisturbed
<1>3. \/ pc' \in {"hang", "fault"} /\ cur' = cur
      \/ /\ pc' = "place" /\ cur' \in Descs /\ ~used[cur']
         /\ length[cur'] >= req.size
  <2>1. CASE TakeBest
    <3>1. PICK d \in Addr : IsFirst(d, Shortest(req.size)) /\ cur' = d /\ pc' = "place"
        BY <2>1 DEF TakeBest
    <3> QED
        BY <1>1, <3>1, ListedAreDescs DEF IsFirst, Shortest, Enough, Unused
  <2>2. CASE SearchHangs \/ ExpandFails
      BY <2>2 DEF SearchHangs, ExpandFails
  <2> QED
      BY <2>1, <2>2
<1>4. TypeOK'
    BY <1>1, <1>3 DEF SoundInv, TypeOK, Descs
<1>5. EndsInv'
    BY <1>1, <1>2, <1>3 DEF SoundInv, EndsInv
<1>6. LiveInv'
  <2>1. Holder(req.old)' = Holder(req.old)
      BY <1>1 DEF Holder
  <2> QED
      BY <1>1, <1>2, <1>3, <2>1 DEF SoundInv, LiveInv, Holder
<1> QED
    BY <1>2, <1>4, <1>5, <1>6 DEF SoundInv

\* What kalloc returns is held like the blocks that were handed out before.
LEMMA Returned ==
  ASSUME SoundInv, NEW d \in Descs, ~used[d], PayloadOf(d) \in Addr, Return(d),
         pc \in {"search", "place"},
         d \in Descs', used'[d], length'[d] >= req.size,
         \A b \in live : /\ DescOf(b.at) \in Descs' /\ used'[DescOf(b.at)]
                         /\ length'[DescOf(b.at)] >= b.size
  PROVE  /\ LiveInv'
         /\ live' \subseteq [at : Addr, size : Nat \ {0}]
         /\ pc' \in {"idle", "copied"} /\ cur' \in Addr
         /\ req' \in [size : Nat, old : Addr]
<1> DEFINE g == [at |-> PayloadOf(d), size |-> req.size]
<1>1. live' = live \cup {g} /\ cur' = NULL
    BY DEF Return
<1>2. req.size > 0 /\ req \in [size : Nat, old : Addr]
    BY DEF SoundInv, LiveInv, TypeOK
<1>3. g \in [at : Addr, size : Nat \ {0}] /\ g.size = req.size
    BY <1>2
<1>4. DescOf(g.at) = d
    BY AddrNat, HeapAssumption DEF DescOf, PayloadOf, Descs
<1> HIDE DEF g
<1>5. \A b \in live : b.at # g.at
    BY <1>4 DEF SoundInv, LiveInv
<1>6. \/ pc' = "idle" /\ req' = NoReq
      \/ pc' = "copied" /\ req' = req /\ req.old # NULL
    BY DEF Return
<1>7. req' \in [size : Nat, old : Addr] /\ (pc' = "copied" => req'.size > 0)
    BY <1>2, <1>6, NullAddr DEF NoReq
<1>8. req'.old # NULL => Holder(req.old)' # {}
  <2>1. req'.old # NULL => req' = req /\ req.old # NULL
      BY <1>6 DEF NoReq
  <2> QED
      BY <1>1, <2>1 DEF SoundInv, LiveInv, Holder
<1>9. /\ \A b \in live' : /\ DescOf(b.at) \in Descs' /\ used'[DescOf(b.at)]
                          /\ length'[DescOf(b.at)] >= b.size
      /\ \A b, c \in live' : b.at = c.at => b = c
    BY <1>1, <1>3, <1>4, <1>5 DEF SoundInv, LiveInv
<1>10. LiveInv'
    BY <1>6, <1>7, <1>8, <1>9 DEF LiveInv, Holder
<1> QED
    BY <1>1, <1>3, <1>6, <1>7, <1>10, NullAddr DEF SoundInv, TypeOK

LEMMA SoundTakeExact ==
  ASSUME SoundInv, TakeExact
  PROVE  SoundInv'
<1>1. PICK d \in Addr : /\ IsFirst(d, Exact(req.size)) /\ Return(d)
                        /\ used' = [used EXCEPT ![d] = TRUE]
    BY DEF TakeExact
<1>2. /\ UNCHANGED <<magic, prev, next, length, firstHeapDesc, lastHeapDesc>>
      /\ UNCHANGED <<freeRuns, heapRuns, damaged, sizes>> /\ pc = "search"
    BY DEF TakeExact, pages
<1>3. RunsInv' /\ TileInv' /\ NextInv' /\ PrevInv' /\ Descs' = Descs
    BY <1>2, Undisturbed
<1>4. d \in Descs /\ ~used[d] /\ length[d] = req.size
    BY <1>1, <1>2, ListedAreDescs DEF IsFirst, Exact, Unused
<1>5. req.size \in Nat /\ req.size > 0 /\ used \in [Addr -> BOOLEAN]
    BY <1>2 DEF SoundInv, LiveInv, TypeOK
<1>6. PayloadOf(d) \in Addr
    BY <1>4, <1>5, BlockAddr DEF SoundInv
<1>7. used'[d] /\ \A x \in Addr : used[x] => used'[x]
    BY <1>1, <1>5
<1>8. \A b \in live : /\ DescOf(b.at) \in Descs' /\ used'[DescOf(b.at)]
                      /\ length'[DescOf(b.at)] >= b.size
    BY <1>2, <1>3, <1>7 DEF SoundInv, LiveInv, Descs
<1>9. /\ LiveInv' /\ live' \subseteq [at : Addr, size : Nat \ {0}]
      /\ pc' \in {"idle", "copied"} /\ cur' \in Addr
      /\ req' \in [size : Nat, old : Addr]
    BY <1>1, <1>2, <1>3, <1>4, <1>5, <1>6, <1>7, <1>8, Returned
<1>10. used' \in [Addr -> BOOLEAN]
    BY <1>1, <1>5
<1>11. TypeOK'
    BY <1>2, <1>9, <1>10 DEF SoundInv, TypeOK
<1>12. EndsInv'
    BY <1>2, <1>3, <1>9 DEF SoundInv, EndsInv
<1> QED
    BY <1>3, <1>9, <1>11, <1>12 DEF SoundInv

LEMMA SoundPlace ==
  ASSUME SoundInv, Place
  PROVE  SoundInv'
<1> DEFINE s == PayloadOf(cur) + req.size
<1>1. /\ UNCHANGED <<freeRuns, heapRuns, damaged, sizes, firstHeapDesc, lastHeapDesc>>
      /\ pc = "place" /\ Return(cur)
    BY DEF Place, pages
<1>2. /\ cur \in Descs /\ cur \in Addr /\ ~used[cur]
      /\ length[cur] \in Nat /\ length[cur] >= req.size
      /\ req.size \in Nat \ {0} /\ used \in [Addr -> BOOLEAN]
    BY <1>1, DescFacts DEF SoundInv, LiveInv, TypeOK
<1>3. PayloadOf(cur) \in Addr
    BY <1>2, BlockAddr DEF SoundInv
<1>4. CASE Splits(cur, req.size)
  <2>0. SplitOff(cur, s, req.size)
      BY <1>4 DEF Place
  <2> HIDE DEF s
  <2>1. /\ s \in Addr /\ s # cur /\ s # NULL /\ s \notin Descs
        /\ Descs' = Descs \cup {s}
        /\ EndNew(cur) = s /\ \A x \in Addr \ {cur, s} : EndNew(x) = End(x)
        /\ length' \in [Addr -> Nat]
      BY <1>2, <1>4, <2>0, SplitShape DEF SoundInv, s
  <2>2. RunsInv' /\ TileInv' /\ NextInv' /\ PrevInv'
    <3>1. /\ TypeOK /\ RunsInv /\ TileInv /\ NextInv /\ PrevInv
          /\ firstHeapDesc \in Descs
        BY <1>1 DEF SoundInv, EndsInv
    <3>2. RunsInv'
        BY <1>1, <3>1 DEF RunsInv
    <3>3. TileInv' /\ NextInv' /\ PrevInv'
        BY <1>1, <1>2, <1>4, <2>0, <3>1, SplitTiles, SplitNext, SplitPrev DEF s
    <3> QED
        BY <3>2, <3>3
  <2>3. /\ used'[cur] /\ used' \in [Addr -> BOOLEAN] /\ magic' \in [Addr -> BOOLEAN]
        /\ \A x \in Addr : x # s /\ used[x] => used'[x]
      BY <1>2, <2>0, <2>1 DEF SplitOff, SoundInv, TypeOK
  <2>4. length'[cur] = req.size /\ \A x \in Addr \ {cur, s} : length'[x] = length[x]
    <3>1. \A x \in Addr : length[x] \in Nat /\ length'[x] \in Nat
        BY <2>1 DEF SoundInv, TypeOK
    <3>2. length'[cur] = req.size
        BY <1>2, <2>1, <3>1, AddrNat, HeapAssumption DEF EndNew, PayloadOf, s
    <3> QED
        BY <2>1, <3>1, <3>2, AddrNat, HeapAssumption DEF EndNew, End
  <2>5. prev' \in [Addr -> Addr] /\ next' \in [Addr -> Addr]
      BY <1>2, <2>0, <2>1 DEF SplitOff, SoundInv, TypeOK
  <2>6. \A b \in live : /\ DescOf(b.at) \in Descs' /\ used'[DescOf(b.at)]
                        /\ length'[DescOf(b.at)] >= b.size
      BY <1>2, <2>1, <2>3, <2>4 DEF SoundInv, LiveInv, Descs
  <2>7. /\ LiveInv' /\ live' \subseteq [at : Addr, size : Nat \ {0}]
        /\ pc' \in {"idle", "copied"} /\ cur' \in Addr
        /\ req' \in [size : Nat, old : Addr]
      BY <1>1, <1>2, <1>3, <2>1, <2>3, <2>4, <2>6, Returned
  <2>8. TypeOK'
      BY <1>1, <2>1, <2>3, <2>5, <2>7 DEF SoundInv, TypeOK
  <2>9. EndsInv'
    <3>1. next[lastHeapDesc] = NULL \/ next'[lastHeapDesc] # NULL \/ lastHeapDesc = s
        BY <1>2, <2>0, <2>1 DEF SplitOff, SoundInv, TypeOK
    <3> QED
        BY <1>1, <2>1, <2>7, <3>1 DEF SoundInv, EndsInv
  <2> QED
      BY <2>2, <2>7, <2>8, <2>9 DEF SoundInv
<1>5. CASE ~Splits(cur, req.size)
  <2>1. /\ UNCHANGED <<magic, prev, next, length>>
        /\ used' = [used EXCEPT ![cur] = TRUE]
      BY <1>5 DEF Place
  <2>2. RunsInv' /\ TileInv' /\ NextInv' /\ PrevInv' /\ Descs' = Descs
      BY <1>1, <2>1, Undisturbed
  <2>3. /\ used'[cur] /\ used' \in [Addr -> BOOLEAN]
        /\ \A x \in Addr : used[x] => used'[x]
      BY <1>2, <2>1
  <2>4. \A b \in live : /\ DescOf(b.at) \in Descs' /\ used'[DescOf(b.at)]
                        /\ length'[DescOf(b.at)] >= b.size
      BY <2>1, <2>2, <2>3 DEF SoundInv, LiveInv, Descs
  <2>5. /\ LiveInv' /\ live' \subseteq [at : Addr, size : Nat \ {0}]
        /\ pc' \in {"idle", "copied"} /\ cur' \in Addr
        /\ req' \in [size : Nat, old : Addr]
      BY <1>1, <1>2, <1>3, <2>1, <2>2, <2>3, <2>4, Returned
  <2>6. TypeOK'
      BY <1>1, <2>1, <2>3, <2>5 DEF SoundInv, TypeOK
  <2>7. EndsInv'
      BY <1>1, <2>1, <2>2, <2>5 DEF SoundInv, EndsInv
  <2> QED
      BY <2>2, <2>5, <2>6, <2>7 DEF SoundInv
<1> QED
    BY <1>4, <1>5

\* The first section, and what initKernelHeap writes in its descriptor.
FirstMade(g, a) ==
  /\ NewSection(g, a)
  /\ firstHeapDesc' = a /\ lastHeapDesc' = a
  /\ prev' = [prev EXCEPT ![a] = NULL]
  /\ next' = [next EXCEPT ![a] = NULL]
  /\ \E flag \in BOOLEAN : used' = [used EXCEPT ![a] = flag]

LEMMA BootMakes ==
  ASSUME SoundInv, InitKernelHeap
  PROVE  /\ \E g, a : FirstMade(g, a)
         /\ heapRuns' \subseteq AnyRun /\ RunsInv'
         /\ freeRuns' \subseteq [base : Nat, len : Nat \ {0}]
         /\ Descs = {} /\ heapRuns = {}
         /\ pc = "boot" /\ pc' = "idle"
         /\ UNCHANGED <<cur, req, live, damaged, sizes>>
<1>1. PICK r \in freeRuns, flag \in BOOLEAN :
        /\ AllocRun(r, 1) /\ GiveToHeap(r, 1)
        /\ firstHeapDesc' = Start(r) /\ lastHeapDesc' = Start(r)
        /\ magic' = [magic EXCEPT ![Start(r)] = TRUE]
        /\ prev' = [prev EXCEPT ![Start(r)] = NULL]
        /\ next' = [next EXCEPT ![Start(r)] = NULL]
        /\ used' = [used EXCEPT ![Start(r)] = flag]
        /\ length' = [length EXCEPT ![Start(r)] = PageSize - DescSize]
    BY DEF InitKernelHeap, Start
<1>2. /\ pc = "boot" /\ pc' = "idle" /\ UNCHANGED <<cur, req, live, damaged, sizes>>
    BY <1>1 DEF InitKernelHeap, GiveToHeap
<1>3. /\ Descs = {} /\ heapRuns = {} /\ live = {} /\ req = NoReq
      /\ TypeOK /\ RunsInv /\ TileInv
    BY <1>2 DEF SoundInv, EndsInv
<1> DEFINE g == [base |-> r.base, len |-> 1]
           a == Start(r)
<1>4. r.base \in Nat /\ r.len \in Nat /\ 1 <= r.len
    BY <1>3 DEF TypeOK
<1>5. /\ heapRuns' = heapRuns \cup {g} /\ heapRuns' \subseteq AnyRun
      /\ freeRuns' \subseteq [base : Nat, len : Nat \ {0}]
      /\ RunsInv'
    BY <1>1, <1>3, <1>4, GiveRuns DEF Touching
<1>6. NewSection(g, a)
  <2>1. g \in AnyRun /\ g.base = r.base /\ g.len = 1
      BY <1>4 DEF AnyRun
  <2>2. g.base > 0 /\ g.base + g.len <= NumPages
      BY <1>5 DEF RunsInv
  <2>3. a = Start(g) /\ g.len * PageSize = PageSize
      BY HeapAssumption DEF Start
  <2> HIDE DEF g, a
  <2>4. length' = [length EXCEPT ![a] = g.len * PageSize - DescSize]
      BY <1>1, <2>3 DEF a
  <2>5. magic' = [magic EXCEPT ![a] = TRUE]
      BY <1>1 DEF a
  <2> QED
      BY <2>4, <2>5, <1>1, <1>3, <1>5, <2>1, <2>2, <2>3 DEF NewSection
<1> HIDE DEF g, a
<1>7. FirstMade(g, a)
    BY <1>1, <1>6 DEF FirstMade, a
<1> QED
    BY <1>2, <1>3, <1>5, <1>7

LEMMA SoundBoot ==
  ASSUME SoundInv, InitKernelHeap
  PROVE  SoundInv'
<1>1. PICK g, a : FirstMade(g, a)
    BY BootMakes
<1>2. /\ pc = "boot" /\ pc' = "idle" /\ UNCHANGED <<cur, req, live, damaged, sizes>>
    BY BootMakes
<1>3. /\ Descs = {} /\ heapRuns = {} /\ live = {} /\ req = NoReq
      /\ TypeOK /\ RunsInv /\ TileInv
    BY <1>2 DEF SoundInv, EndsInv
<1>5. /\ heapRuns' \subseteq AnyRun /\ RunsInv'
      /\ freeRuns' \subseteq [base : Nat, len : Nat \ {0}]
    BY BootMakes
<1>6. NewSection(g, a)
    BY <1>1 DEF FirstMade
<1>7. /\ a \in Addr /\ Descs' = Descs \cup {a} /\ length' \in [Addr -> Nat]
      /\ EndNew(a) = Stop(g) /\ a < Stop(g)
    BY <1>3, <1>6, NewSectionShape
<1>8. TileInv'
    BY <1>3, <1>6, NewSectionTiles
<1>9. /\ prev' = [prev EXCEPT ![a] = NULL] /\ next' = [next EXCEPT ![a] = NULL]
      /\ magic' = [magic EXCEPT ![a] = TRUE]
      /\ firstHeapDesc' = a /\ lastHeapDesc' = a
    BY <1>1 DEF FirstMade, NewSection
<1>u. PICK flag \in BOOLEAN : used' = [used EXCEPT ![a] = flag]
    BY <1>1 DEF FirstMade
<1>t. /\ magic \in [Addr -> BOOLEAN] /\ used \in [Addr -> BOOLEAN]
      /\ prev \in [Addr -> Addr] /\ next \in [Addr -> Addr]
    BY <1>3 DEF TypeOK
<1>10. next'[a] = NULL /\ prev'[a] = NULL
    BY <1>7, <1>9, <1>t
<1>11. NextInv' /\ PrevInv'
  <2>1. Descs' = {a}
      BY <1>3, <1>7
  <2>2. EndNew(a) # a
      BY <1>7, RunBounds, <1>6, AddrNat DEF NewSection
  <2> QED
      BY <1>10, <2>1, <2>2 DEF NextInv, PrevInv, EndNew, End
<1>12. TypeOK'
  <2>1. /\ magic' \in [Addr -> BOOLEAN] /\ used' \in [Addr -> BOOLEAN]
        /\ prev' \in [Addr -> Addr] /\ next' \in [Addr -> Addr]
      BY <1>9, <1>t, <1>u, NullAddr
  <2> QED
      BY <1>2, <1>3, <1>5, <1>7, <1>9, <2>1 DEF TypeOK, AnyRun
<1>13. EndsInv'
    BY <1>2, <1>7, <1>9 DEF EndsInv
<1>14. LiveInv'
    BY <1>2, <1>3 DEF LiveInv, NoReq
<1> QED
    BY <1>5, <1>8, <1>11, <1>12, <1>13, <1>14 DEF SoundInv

LEMMA PagesBytes ==
  ASSUME NEW n \in Nat
  PROVE  /\ Pages(n) \in Nat /\ Pages(n) * PageSize >= n
         /\ n > 0 => Pages(n) > 0
<1> DEFINE x == n + PageSize - 1
           k == x \div PageSize
<1>1. /\ PageSize \in Nat /\ PageSize > 0 /\ x \in Nat
    BY HeapAssumption
<1>2. k \in Int /\ PageSize * k <= x /\ x < PageSize * k + PageSize
    BY <1>1
<1>3. Pages(n) = k
    BY DEF Pages
<1> HIDE DEF k
<1>4. k >= 0
  <2>1. k < 0 => PageSize * k + PageSize <= 0
    <3>1. k < 0 => PageSize * (-k) >= PageSize
        BY <1>1, <1>2
    <3> QED
        BY <1>1, <1>2, <3>1
  <2> QED
      BY <1>1, <1>2, <2>1
<1>5. k * PageSize = PageSize * k /\ k * PageSize \in Int
    BY <1>1, <1>2
<1>6. k * PageSize >= n
    BY <1>1, <1>2, <1>5
<1>7. k = 0 => k * PageSize = 0
    BY <1>1
<1> QED
    BY <1>2, <1>3, <1>4, <1>6, <1>7

\* The biggest block, if there is one, is a descriptor in the list.
LEMMA BiggestDesc ==
  ASSUME SoundInv, pc # "boot", NEW d \in Addr, Biggest(d)
  PROVE  d \in Descs \/ d = NULL
BY ListedAreDescs DEF Biggest, IsFirst, Longest, Unused

LEMMA SoundExpandAt ==
  ASSUME SoundInv, ExpandAt, ~damaged'
  PROVE  SoundInv'
<1> DEFINE n == Pages(Wanted(req.size) - length[NULL])
<1>1. PICK d \in Addr, r \in freeRuns :
        LET k == Pages(Wanted(req.size) - length[d]) IN
        /\ Biggest(d) /\ r \in RunsAfter(d)
        /\ GiveToHeap(r, k)
        /\ damaged' = (damaged \/ Touching(r.base, k) # {})
        /\ length' = [length EXCEPT ![d] = Grown(d, r.base, k)]
        /\ cur' = d
        /\ IF d # NULL THEN pc' = "place" /\ UNCHANGED req
           ELSE IF req.old # NULL THEN pc' = "copied" /\ UNCHANGED req
           ELSE pc' = "idle" /\ req' = NoReq
    BY DEF ExpandAt, RunsAfter
<1>2. /\ UNCHANGED <<magic, prev, next, used, firstHeapDesc, lastHeapDesc, live, sizes>>
      /\ pc = "search"
    BY <1>1 DEF ExpandAt, NothingFits, GiveToHeap
<1>3. TypeOK /\ RunsInv /\ TileInv /\ NextInv /\ PrevInv /\ EndsInv /\ LiveInv
    BY DEF SoundInv
<1>4. d = NULL
  <2>1. d \in Descs => End(d) = Start(r)
      BY <1>1 DEF RunsAfter, Start
  <2> QED
      BY <1>1, <1>2, <1>3, <2>1, BiggestDesc, EndsAtSection
<1>5. /\ Touching(r.base, n) = {} /\ GiveToHeap(r, n)
      /\ r.base \in Nat /\ r.len >= n
      /\ length[NULL] <= Wanted(req.size)
    BY <1>1, <1>3, <1>4 DEF RunsAfter, TypeOK
<1>6. n \in Nat
  <2>1. Wanted(req.size) \in Nat /\ length[NULL] \in Nat
      BY <1>3, NullAddr, HeapAssumption DEF Wanted, TypeOK
  <2> QED
      BY <1>5, <2>1, PagesBytes
<1> HIDE DEF n
<1>7. /\ heapRuns' = heapRuns \cup {[base |-> r.base, len |-> n]}
      /\ heapRuns' \subseteq AnyRun
      /\ freeRuns' \subseteq [base : Nat, len : Nat \ {0}]
      /\ RunsInv'
    BY <1>3, <1>5, <1>6, GiveRuns
<1>8. length' = [length EXCEPT ![NULL] = length[NULL] + n * PageSize]
  <2>1. Merged(r.base, n) = [base |-> r.base, len |-> n]
      BY <1>5, <1>6, MergedAlone
  <2>2. Grown(NULL, r.base, n) = length[NULL] + n * PageSize
      BY <2>1 DEF Grown
  <2>3. length' = [length EXCEPT ![NULL] = Grown(NULL, r.base, n)]
      BY <1>1, <1>4 DEF n
  <2> QED
      BY <2>2, <2>3
<1>9. /\ length' \in [Addr -> Nat]
      /\ \A x \in Addr \ {NULL} : length'[x] = length[x]
  <2>1. n * PageSize \in Nat /\ length \in [Addr -> Nat]
      BY <1>3, <1>6, HeapAssumption, Times DEF TypeOK
  <2> QED
      BY <1>8, <2>1, NullAddr
<1>10. TileInv' /\ NextInv' /\ PrevInv' /\ Descs' = Descs
    BY <1>2, <1>3, <1>7, <1>9, SameLinks DEF Descs
<1>11. /\ cur' = NULL
       /\ \/ pc' = "copied" /\ req' = req /\ req.old # NULL
          \/ pc' = "idle" /\ req' = NoReq
    BY <1>1, <1>4
<1>12. TypeOK'
  <2>1. damaged' \in BOOLEAN
      BY <1>1
  <2> QED
      BY <1>2, <1>3, <1>7, <1>9, <1>11, <2>1, NullAddr DEF TypeOK, AnyRun, NoReq
<1>13. EndsInv'
    BY <1>2, <1>3, <1>10, <1>11 DEF EndsInv
<1>14. LiveInv'
  <2>1. \A b \in live' : /\ DescOf(b.at) \in Descs' /\ used'[DescOf(b.at)]
                         /\ length'[DescOf(b.at)] >= b.size
      BY <1>2, <1>3, <1>9, <1>10, DescFacts DEF LiveInv
  <2>2. req'.old # NULL => Holder(req.old)' # {}
      BY <1>2, <1>3, <1>11 DEF LiveInv, Holder, NoReq
  <2> QED
      BY <1>2, <1>3, <1>11, <2>1, <2>2 DEF LiveInv, Holder
<1> QED
    BY <1>7, <1>10, <1>12, <1>13, <1>14 DEF SoundInv

\* What an expansion elsewhere does while the heap stays undamaged.
SectionMade(g, a) ==
  /\ NewSection(g, a)
  /\ g.len * PageSize >= req.size + DescSize
  /\ LinkedLast(a)
  /\ lastHeapDesc \in Descs /\ next[lastHeapDesc] = NULL
  /\ used' = [used EXCEPT ![a] = FALSE]
  /\ lastHeapDesc' = a
  /\ cur' = a

LEMMA ExpandNewMakes ==
  ASSUME SoundInv, ExpandNew, ~damaged'
  PROVE  /\ \E g, a : SectionMade(g, a)
         /\ heapRuns' \subseteq AnyRun /\ RunsInv'
         /\ freeRuns' \subseteq [base : Nat, len : Nat \ {0}]
         /\ pc = "search" /\ pc' = "place" /\ damaged' \in BOOLEAN
         /\ UNCHANGED <<firstHeapDesc, req, live, sizes>>
<1> DEFINE n == Pages(Wanted(req.size))
<1>3. TypeOK /\ RunsInv /\ TileInv /\ NextInv /\ PrevInv /\ EndsInv /\ LiveInv
    BY DEF SoundInv
<1>1. PICK r \in freeRuns :
        LET m == Merged(r.base, n)
            a == m.base * PageSize
        IN /\ AllocRun(r, n)
           /\ GiveToHeap(r, n)
           /\ damaged' = (damaged \/ Touching(r.base, n) # {} \/ next[lastHeapDesc] # NULL)
           /\ magic' = [magic EXCEPT ![a] = TRUE]
           /\ prev' = [prev EXCEPT ![a] = lastHeapDesc]
           /\ next' = [next EXCEPT ![a] = NULL, ![lastHeapDesc] = a]
           /\ used' = [used EXCEPT ![a] = FALSE]
           /\ length' = [length EXCEPT ![a] = m.len * PageSize - DescSize]
           /\ lastHeapDesc' = a
           /\ cur' = a
    BY DEF ExpandNew
<1>2. pc = "search" /\ pc' = "place" /\ UNCHANGED <<firstHeapDesc, req, live, sizes>>
    BY <1>1 DEF ExpandNew, NothingFits, GiveToHeap
<1> DEFINE g == [base |-> r.base, len |-> n]
           a == Start(r)
<1>4. req.size \in Nat /\ req.size > 0
    BY <1>2, <1>3 DEF LiveInv, TypeOK
<1>5. /\ Wanted(req.size) \in Nat /\ Wanted(req.size) >= req.size + DescSize
      /\ Wanted(req.size) > 0
    BY <1>4, HeapAssumption DEF Wanted
<1>6. n \in Nat /\ n > 0 /\ n * PageSize >= req.size + DescSize
  <2>1. n \in Nat /\ n > 0 /\ n * PageSize >= Wanted(req.size)
      BY <1>5, PagesBytes
  <2>2. n * PageSize \in Nat /\ DescSize \in Nat
      BY <2>1, HeapAssumption, Times
  <2> HIDE DEF n
  <2> QED
      BY <1>4, <1>5, <2>1, <2>2
<1> HIDE DEF n
<1>7. /\ r.base \in Nat /\ r.len \in Nat /\ n <= r.len
      /\ Touching(r.base, n) = {} /\ next[lastHeapDesc] = NULL
    BY <1>1, <1>3, <1>6 DEF TypeOK, AllocRun
<1>8. Merged(r.base, n) = g
    BY <1>6, <1>7, MergedAlone
<1>9. /\ magic' = [magic EXCEPT ![a] = TRUE]
      /\ LinkedLast(a)
      /\ used' = [used EXCEPT ![a] = FALSE]
      /\ length' = [length EXCEPT ![a] = n * PageSize - DescSize]
      /\ lastHeapDesc' = a
      /\ cur' = a
    BY <1>1, <1>8 DEF Start, LinkedLast
<1>10. /\ heapRuns' = heapRuns \cup {g} /\ heapRuns' \subseteq AnyRun
       /\ freeRuns' \subseteq [base : Nat, len : Nat \ {0}]
       /\ RunsInv'
    BY <1>1, <1>3, <1>6, <1>7, GiveRuns
<1>11. NewSection(g, a)
  <2>1. g \in AnyRun /\ g.base = r.base /\ g.len = n
      BY <1>6, <1>7 DEF AnyRun
  <2>2. g.base > 0 /\ g.base + g.len <= NumPages
      BY <1>10 DEF RunsInv
  <2>3. a = Start(g)
      BY DEF Start
  <2>4. \A q \in heapRuns : Distant(q, g)
    <3>1. \A q \in heapRuns : Disjoint(q, r) /\ q.base \in Nat /\ q.len \in Nat
        BY <1>3 DEF RunsInv, TypeOK
    <3>2. \A q \in heapRuns : q.base + q.len # r.base /\ q.base # r.base + n
        BY <1>7 DEF Touching
    <3> HIDE DEF g
    <3> QED
        BY <1>6, <1>7, <2>1, <3>1, <3>2 DEF Disjoint, Distant
  <2> HIDE DEF g, a
  <2> QED
      BY <1>6, <1>9, <1>10, <2>1, <2>2, <2>3, <2>4 DEF NewSection
<1>12. lastHeapDesc \in Descs
    BY <1>2, <1>3, <1>7 DEF EndsInv
<1>13. SectionMade(g, a)
    BY <1>6, <1>7, <1>9, <1>11, <1>12 DEF SectionMade
<1> HIDE DEF g, a
<1> QED
    BY <1>1, <1>2, <1>10, <1>13

LEMMA SoundExpandNew ==
  ASSUME SoundInv, ExpandNew, ~damaged'
  PROVE  SoundInv'
<1>1. /\ heapRuns' \subseteq AnyRun /\ RunsInv'
      /\ freeRuns' \subseteq [base : Nat, len : Nat \ {0}]
      /\ pc = "search" /\ pc' = "place" /\ damaged' \in BOOLEAN
      /\ UNCHANGED <<firstHeapDesc, req, live, sizes>>
    BY ExpandNewMakes
<1>2. PICK g, a : SectionMade(g, a)
    BY ExpandNewMakes
<1>3. TypeOK /\ RunsInv /\ TileInv /\ NextInv /\ PrevInv /\ EndsInv /\ LiveInv
    BY DEF SoundInv
<1>4. /\ NewSection(g, a) /\ LinkedLast(a)
      /\ g.len * PageSize >= req.size + DescSize
      /\ lastHeapDesc \in Descs /\ next[lastHeapDesc] = NULL
      /\ used' = [used EXCEPT ![a] = FALSE] /\ lastHeapDesc' = a /\ cur' = a
    BY <1>2 DEF SectionMade
<1>5. firstHeapDesc \in Descs
    BY <1>1, <1>3 DEF EndsInv
<1>6. /\ a \in Addr /\ a \notin Descs /\ Descs' = Descs \cup {a}
      /\ length' \in [Addr -> Nat] /\ g.len * PageSize - DescSize \in Nat
    BY <1>3, <1>4, NewSectionShape
<1>7. TileInv' /\ NextInv' /\ PrevInv'
    BY <1>1, <1>3, <1>4, <1>5, NewSectionTiles, NewSectionNext, NewSectionPrev
<1>t. /\ magic \in [Addr -> BOOLEAN] /\ used \in [Addr -> BOOLEAN]
      /\ prev \in [Addr -> Addr] /\ next \in [Addr -> Addr]
      /\ length \in [Addr -> Nat] /\ lastHeapDesc \in Addr
      /\ req.size \in Nat
    BY <1>3 DEF TypeOK
<1>8. TypeOK'
  <2>1. /\ magic' \in [Addr -> BOOLEAN] /\ used' \in [Addr -> BOOLEAN]
        /\ prev' \in [Addr -> Addr] /\ next' \in [Addr -> Addr]
      BY <1>4, <1>6, <1>t, NullAddr DEF LinkedLast, NewSection
  <2> QED
      BY <1>1, <1>3, <1>4, <1>6, <2>1 DEF TypeOK, AnyRun
<1>9. EndsInv'
    BY <1>1, <1>4, <1>5, <1>6 DEF EndsInv
<1>10. ~used'[a] /\ length'[a] >= req.size
  <2> DEFINE bytes == g.len * PageSize
  <2>1. length' = [length EXCEPT ![a] = bytes - DescSize]
      BY <1>4 DEF NewSection
  <2>2. bytes - DescSize \in Nat /\ bytes >= req.size + DescSize /\ bytes \in Nat
    <3>1. g.len \in Nat /\ PageSize \in Nat
        BY <1>4, HeapAssumption DEF NewSection, AnyRun
    <3> QED
        BY <1>4, <1>6, <3>1, Times
  <2> HIDE DEF bytes
  <2> QED
      BY <1>4, <1>6, <1>t, <2>1, <2>2, HeapAssumption
<1>11. \A b \in live' : /\ DescOf(b.at) \in Descs' /\ used'[DescOf(b.at)]
                        /\ length'[DescOf(b.at)] >= b.size
    BY <1>1, <1>3, <1>4, <1>6, <1>t DEF LiveInv, Descs, NewSection
<1>12. LiveInv'
    BY <1>1, <1>3, <1>4, <1>6, <1>10, <1>11 DEF LiveInv, Holder
<1> QED
    BY <1>1, <1>7, <1>8, <1>9, <1>12 DEF SoundInv

LEMMA SoundFree ==
  ASSUME SoundInv, pc # "boot", NEW p \in Addr, Holder(p) # {}, Free(p),
         UNCHANGED <<freeRuns, heapRuns, sizes, damaged>>
  PROVE  SoundInv'
<1>1. PICK b \in live : b.at = p
    BY DEF Holder
<1>2. /\ DescOf(p) \in Descs /\ DescOf(p) \in Addr /\ used[DescOf(p)]
      /\ magic[DescOf(p)] /\ used \in [Addr -> BOOLEAN]
    BY <1>1 DEF SoundInv, LiveInv, Descs, TypeOK
<1>3. /\ UNCHANGED <<magic, prev, next, length, firstHeapDesc, lastHeapDesc>>
      /\ used' = [used EXCEPT ![DescOf(p)] = FALSE]
      /\ cur' = DescOf(p) /\ pc' = "mergePrev" /\ req' = NoReq
      /\ live' = live \ Holder(p)
    BY <1>2 DEF Free
<1>4. RunsInv' /\ TileInv' /\ NextInv' /\ PrevInv' /\ Descs' = Descs
    BY <1>3, Undisturbed
<1>5. TypeOK'
    BY <1>2, <1>3, NullAddr DEF SoundInv, TypeOK, NoReq
<1>6. EndsInv'
    BY <1>3, <1>4 DEF SoundInv, EndsInv
<1>7. ASSUME NEW c \in live'
      PROVE  /\ DescOf(c.at) \in Descs' /\ used'[DescOf(c.at)]
             /\ length'[DescOf(c.at)] >= c.size
  <2>1. c \in live /\ c.at # p /\ c.at \in Addr
      BY <1>3 DEF Holder, SoundInv, TypeOK
  <2>2. DescOf(c.at) # DescOf(p)
      BY <2>1, AddrNat, HeapAssumption DEF DescOf
  <2> QED
      BY <1>2, <1>3, <1>4, <2>1, <2>2 DEF SoundInv, LiveInv, Descs
<1>8. LiveInv'
    BY <1>2, <1>3, <1>4, <1>7 DEF SoundInv, LiveInv, NoReq
<1> QED
    BY <1>4, <1>5, <1>6, <1>8 DEF SoundInv

\* Two free neighbours become one block, and nothing else changes.
LEMMA Absorbed ==
  ASSUME SoundInv, pc # "boot", pc' # "boot",
         NEW b \in Descs, NEW d \in Descs, End(b) = d,
         ~used[b], ~used[d], Absorb(b, d),
         UNCHANGED <<freeRuns, heapRuns, sizes, damaged, live, req>>
  PROVE  /\ RunsInv' /\ TileInv' /\ NextInv' /\ PrevInv' /\ EndsInv'
         /\ magic' \in [Addr -> BOOLEAN] /\ used' = used
         /\ prev' \in [Addr -> Addr] /\ next' \in [Addr -> Addr]
         /\ length' \in [Addr -> Nat]
         /\ firstHeapDesc' \in Addr /\ lastHeapDesc' \in Addr
         /\ b \in Descs'
         /\ \A c \in live : /\ DescOf(c.at) \in Descs' /\ used'[DescOf(c.at)]
                            /\ length'[DescOf(c.at)] >= c.size
<1>1. TypeOK /\ RunsInv /\ TileInv /\ NextInv /\ PrevInv /\ EndsInv /\ LiveInv
    BY DEF SoundInv
<1>2. /\ b # d /\ next[b] = d /\ next[d] # d
      /\ Descs' = Descs \ {d}
      /\ next'[b] = next[d] /\ \A x \in Addr \ {b} : next'[x] = next[x]
      /\ next[d] # NULL => lastHeapDesc' = lastHeapDesc
      /\ next[d] = NULL => lastHeapDesc' = b
    BY <1>1, AbsorbShape
<1>3. used' = used /\ firstHeapDesc' = firstHeapDesc
    BY DEF Absorb
<1>4. TileInv' /\ NextInv' /\ PrevInv'
    BY <1>1, <1>3, AbsorbTiles, AbsorbNext, AbsorbPrev
<1>5. RunsInv'
    BY <1>1 DEF RunsInv
<1>6. b \in Addr /\ d \in Addr /\ d # NULL /\ length[b] \in Nat /\ length[d] \in Nat
    BY <1>1, DescFacts
<1>t. /\ magic \in [Addr -> BOOLEAN] /\ used \in [Addr -> BOOLEAN]
      /\ prev \in [Addr -> Addr] /\ next \in [Addr -> Addr]
      /\ length \in [Addr -> Nat]
      /\ lastHeapDesc \in Addr /\ firstHeapDesc \in Addr
    BY <1>1 DEF TypeOK
<1>7. /\ length' \in [Addr -> Nat] /\ \A x \in Addr \ {b} : length'[x] = length[x]
      /\ magic' \in [Addr -> BOOLEAN] /\ next' \in [Addr -> Addr]
    BY <1>6, <1>t, HeapAssumption DEF Absorb, LinksAfter
<1>8. prev' \in [Addr -> Addr] /\ lastHeapDesc' \in Addr
  <2>1. CASE next[d] # NULL
      BY <1>6, <1>t, <2>1 DEF Absorb, LinksAfter
  <2>2. CASE next[d] = NULL
      BY <1>6, <1>t, <2>2 DEF Absorb, LinksAfter
  <2> QED
      BY <2>1, <2>2
<1>9. firstHeapDesc # d
    BY <1>1, <1>2, <1>6 DEF NextInv
<1>10. EndsInv'
  <2>1. ASSUME next'[lastHeapDesc'] = NULL
        PROVE  lastHeapDesc' \in Descs'
    <3>1. CASE next[d] = NULL
        BY <1>2, <3>1
    <3>2. CASE next[d] # NULL
        BY <1>1, <1>2, <1>t, <2>1, <3>2 DEF EndsInv
    <3> QED
        BY <3>1, <3>2
  <2> QED
      BY <1>1, <1>2, <1>3, <1>9, <2>1 DEF EndsInv
<1>11. ASSUME NEW c \in live
       PROVE  /\ DescOf(c.at) \in Descs' /\ used'[DescOf(c.at)]
              /\ length'[DescOf(c.at)] >= c.size
    BY <1>1, <1>2, <1>3, <1>7 DEF LiveInv, Descs
<1> QED
    BY <1>2, <1>3, <1>4, <1>5, <1>7, <1>8, <1>10, <1>11, <1>t

\* kfree looks at prev, which may be stale: a merge backwards is into the
\* neighbour all the same.
LEMMA PrevIsNeighbour ==
  ASSUME SoundInv, pc = "mergePrev", JoinsPrev
  PROVE  /\ prev[cur] \in Descs /\ End(prev[cur]) = cur
         /\ ~used[prev[cur]] /\ ~used[cur] /\ next[prev[cur]] = cur
<1>1. cur \in Descs /\ prev[cur] \in Addr /\ cur \in Addr
    BY DEF SoundInv, LiveInv, TypeOK
<1>2. /\ prev[cur] # NULL /\ End(prev[cur]) = cur
      /\ ~used[prev[cur]] /\ ~used[cur]
    BY DEF JoinsPrev, Joins
<1>3. ~(Stale(prev[cur], cur) /\ \E r \in heapRuns : Within(prev[cur], r))
    BY <1>1, <1>2, SectionsApart, AddrNat DEF Stale, SectionStarts, Start, SoundInv
<1> QED
    BY <1>1, <1>2, <1>3 DEF SoundInv, PrevInv

LEMMA SoundMergePrev ==
  ASSUME SoundInv, MergePrev
  PROVE  SoundInv'
<1>1. /\ pc = "mergePrev" /\ pc' = "mergeNext"
      /\ UNCHANGED <<freeRuns, heapRuns, damaged, sizes, live, req>>
    BY DEF MergePrev, pages
<1>2. cur \in Descs /\ ~used[cur]
    BY <1>1 DEF SoundInv, LiveInv
<1>3. CASE JoinsPrev
  <2> DEFINE b == prev[cur]
  <2>1. Absorb(b, cur) /\ cur' = b
      BY <1>3 DEF MergePrev
  <2>2. b \in Descs /\ End(b) = cur /\ ~used[b]
      BY <1>1, <1>3, PrevIsNeighbour
  <2> HIDE DEF b
  <2>3. /\ RunsInv' /\ TileInv' /\ NextInv' /\ PrevInv' /\ EndsInv'
        /\ magic' \in [Addr -> BOOLEAN] /\ used' = used
        /\ prev' \in [Addr -> Addr] /\ next' \in [Addr -> Addr]
        /\ length' \in [Addr -> Nat]
        /\ firstHeapDesc' \in Addr /\ lastHeapDesc' \in Addr
        /\ b \in Descs'
        /\ \A c \in live : /\ DescOf(c.at) \in Descs' /\ used'[DescOf(c.at)]
                           /\ length'[DescOf(c.at)] >= c.size
      BY <1>1, <1>2, <2>1, <2>2, Absorbed
  <2>4. TypeOK'
      BY <1>1, <2>1, <2>2, <2>3 DEF SoundInv, TypeOK, Descs
  <2>5. Holder(req.old)' = Holder(req.old)
      BY <1>1 DEF Holder
  <2>6. LiveInv'
      BY <1>1, <2>1, <2>2, <2>3, <2>5 DEF SoundInv, LiveInv, Holder
  <2> QED
      BY <2>3, <2>4, <2>6 DEF SoundInv
<1>4. CASE ~JoinsPrev
  <2>1. UNCHANGED <<magic, prev, next, used, length, firstHeapDesc, lastHeapDesc, cur>>
      BY <1>4 DEF MergePrev, desc
  <2>2. RunsInv' /\ TileInv' /\ NextInv' /\ PrevInv' /\ Descs' = Descs
      BY <1>1, <2>1, Undisturbed
  <2>3. TypeOK' /\ EndsInv'
      BY <1>1, <2>1, <2>2 DEF SoundInv, TypeOK, EndsInv
  <2>4. LiveInv'
      BY <1>1, <1>2, <2>1, <2>2 DEF SoundInv, LiveInv, Holder
  <2> QED
      BY <2>2, <2>3, <2>4 DEF SoundInv
<1> QED
    BY <1>3, <1>4

LEMMA SoundMergeNext ==
  ASSUME SoundInv, MergeNext
  PROVE  SoundInv'
<1>1. /\ pc = "mergeNext" /\ pc' = "idle" /\ cur' = NULL
      /\ UNCHANGED <<freeRuns, heapRuns, damaged, sizes, live, req>>
    BY DEF MergeNext, pages
<1>2. cur \in Descs /\ ~used[cur]
    BY <1>1 DEF SoundInv, LiveInv
<1> DEFINE d == next[cur]
<1>3. CASE d # NULL /\ Joins(cur, d)
  <2>1. Absorb(cur, d)
      BY <1>3 DEF MergeNext
  <2>2. d \in Descs /\ End(cur) = d /\ ~used[d]
      BY <1>2, <1>3 DEF Joins, SoundInv, NextInv
  <2> HIDE DEF d
  <2>3. /\ RunsInv' /\ TileInv' /\ NextInv' /\ PrevInv' /\ EndsInv'
        /\ magic' \in [Addr -> BOOLEAN] /\ used' = used
        /\ prev' \in [Addr -> Addr] /\ next' \in [Addr -> Addr]
        /\ length' \in [Addr -> Nat]
        /\ firstHeapDesc' \in Addr /\ lastHeapDesc' \in Addr
        /\ \A c \in live : /\ DescOf(c.at) \in Descs' /\ used'[DescOf(c.at)]
                           /\ length'[DescOf(c.at)] >= c.size
      BY <1>1, <1>2, <2>1, <2>2, Absorbed
  <2>4. TypeOK'
      BY <1>1, <2>3, NullAddr DEF SoundInv, TypeOK
  <2>5. LiveInv'
      BY <1>1, <2>3 DEF SoundInv, LiveInv, Holder
  <2> QED
      BY <2>3, <2>4, <2>5 DEF SoundInv
<1>4. CASE ~(d # NULL /\ Joins(cur, d))
  <2>1. UNCHANGED <<magic, prev, next, used, length, firstHeapDesc, lastHeapDesc>>
      BY <1>4 DEF MergeNext, desc
  <2>2. RunsInv' /\ TileInv' /\ NextInv' /\ PrevInv' /\ Descs' = Descs
      BY <1>1, <2>1, Undisturbed
  <2>3. TypeOK' /\ EndsInv'
      BY <1>1, <2>1, <2>2, NullAddr DEF SoundInv, TypeOK, EndsInv
  <2>4. LiveInv'
      BY <1>1, <2>1, <2>2 DEF SoundInv, LiveInv, Holder
  <2> QED
      BY <2>2, <2>3, <2>4 DEF SoundInv
<1> QED
    BY <1>3, <1>4

LEMMA SoundStutter ==
  ASSUME SoundInv, UNCHANGED vars
  PROVE  SoundInv'
<1>1. /\ UNCHANGED <<magic, prev, next, used, length, firstHeapDesc, lastHeapDesc>>
      /\ UNCHANGED <<freeRuns, heapRuns, damaged, sizes, live, req, pc, cur>>
    BY DEF vars, desc, pages
<1>2. RunsInv' /\ TileInv' /\ NextInv' /\ PrevInv' /\ Descs' = Descs
    BY <1>1, Undisturbed
<1>3. TypeOK' /\ EndsInv'
    BY <1>1, <1>2 DEF SoundInv, TypeOK, EndsInv
<1>4. LiveInv'
    BY <1>1, <1>2 DEF SoundInv, LiveInv, Holder
<1> QED
    BY <1>2, <1>3, <1>4 DEF SoundInv

LEMMA DamageStays == [Next]_vars /\ ~damaged' => ~damaged
BY DEF Next, Continue, InitKernelHeap, Kalloc, Kfree, Krealloc, Request, Free, TakeExact,
       TakeBest, SearchHangs, ExpandAt, ExpandNew, ExpandFails, Place, FreeOld,
       MergePrev, MergeNext, vars, pages

LEMMA SoundStep == HInv /\ [Next]_vars => HInv'
<1> SUFFICES ASSUME HInv, [Next]_vars, ~damaged' PROVE SoundInv'
    BY MarkStep DEF HInv
<1>1. SoundInv /\ MarkInv
    BY DamageStays DEF HInv
<1>2. ASSUME NEW n \in sizes, Kalloc(n) PROVE SoundInv'
    BY <1>1, <1>2, NullAddr, SoundRequest DEF Kalloc
<1>3. ASSUME NEW b \in live PROVE b.at \in Addr /\ Holder(b.at) # {}
    BY <1>1 DEF SoundInv, TypeOK, Holder
<1>4. ASSUME NEW b \in live, Kfree(b) PROVE SoundInv'
    BY <1>1, <1>3, <1>4, SoundFree DEF Kfree, Free, pages
<1>5. ASSUME NEW b \in live, NEW n \in sizes, Krealloc(b, n) PROVE SoundInv'
  <2>1. magic[DescOf(b.at)] /\ pc = "idle"
      BY <1>1, <1>5 DEF SoundInv, LiveInv, Descs, Krealloc
  <2>2. CASE length[DescOf(b.at)] < n
    <3>1. Request(n, b.at)
        BY <1>5, <2>1, <2>2 DEF Krealloc
    <3> QED
        BY <1>1, <1>3, <2>1, <3>1, SoundRequest
  <2>3. CASE ~(length[DescOf(b.at)] < n)
      BY <1>1, <1>5, <2>3, SoundResize
  <2> QED
      BY <2>2, <2>3
<1>6. ASSUME FreeOld PROVE SoundInv'
  <2>1. pc = "copied" /\ req.old \in Addr /\ Holder(req.old) # {}
      BY <1>1, <1>6 DEF FreeOld, SoundInv, LiveInv, TypeOK
  <2> QED
      BY <1>1, <1>6, <2>1, SoundFree DEF FreeOld, Free, pages
<1> QED
    BY <1>1, <1>2, <1>4, <1>5, <1>6, SoundBoot, SoundTakeExact, SoundWait,
       SoundExpandAt, SoundExpandNew, SoundPlace, SoundMergePrev, SoundMergeNext,
       SoundStutter DEF Next, Continue

-----------------------------------------------------------------------------
(* The theorems.                                                           *)

\* What holds a heap together that no expansion has damaged, see HeapInv, and
\* what marks the descriptors in use in every heap, holds from boot on: the calls
\* of kalloc, kfree and krealloc keep it, whatever they are asked for.
THEOREM HeapInvariant == Spec => []HInv
<1>1. Init => HInv
    BY MarkInit, SoundInit DEF HInv
<1>2. HInv /\ [Next]_vars => HInv'
    BY SoundStep
<1> QED
    BY <1>1, <1>2, PTL DEF Spec

\* In any heap, damaged or not, what looks like a descriptor in use belongs to a
\* block that was handed out, or is the first one: kfree refuses other pointers.
THEOREM RefusesOtherPointers == Spec => []OnlyLiveFreeable
<1>1. HInv => OnlyLiveFreeable
    BY DEF HInv, MarkInv
<1> QED
    BY <1>1, HeapInvariant, PTL

\* As long as no expansion damages the heap, the blocks that kalloc and krealloc
\* handed out have descriptors of their own and do not reach into each other.
THEOREM GrantsStayApart == Spec => []GrantsApart
<1>1. ASSUME HInv, ~damaged PROVE GrantsApart
  <2>1. SoundInv
      BY <1>1 DEF HInv
  <2>2. \A b \in live : /\ DescOf(b.at) \in Descs /\ magic[DescOf(b.at)]
                        /\ used[DescOf(b.at)] /\ length[DescOf(b.at)] >= b.size
      BY <2>1 DEF SoundInv, LiveInv, Descs
  <2>3. \A b \in live : \E r \in heapRuns :
          /\ r.base * PageSize <= DescOf(b.at)
          /\ End(DescOf(b.at)) <= (r.base + r.len) * PageSize
      BY <2>1, <2>2 DEF SoundInv, TileInv, Within, Start, Stop
  <2>4. ASSUME NEW b \in live, NEW c \in live, b # c
        PROVE  \/ End(DescOf(b.at)) <= DescOf(c.at)
               \/ End(DescOf(c.at)) <= DescOf(b.at)
    <3>1. b.at # c.at /\ b.at \in Addr /\ c.at \in Addr
        BY <2>1, <2>4 DEF SoundInv, LiveInv, TypeOK
    <3>2. DescOf(b.at) # DescOf(c.at)
        BY <3>1, AddrNat, HeapAssumption DEF DescOf
    <3> QED
        BY <2>1, <2>2, <3>2 DEF SoundInv, TileInv
  <2> QED
      BY <2>2, <2>3, <2>4 DEF GrantsApart
<1>2. HInv => GrantsApart
    BY <1>1 DEF GrantsApart
<1> QED
    BY <1>2, HeapInvariant, PTL

-----------------------------------------------------------------------------
(* The sections of a heap that is not damaged are full.                    *)

LEMMA FilledInit == Init => FilledInv
BY DEF Init, FilledInv, Filled, Descs

\* Steps that touch no descriptor, but for how long the bytes at NULL say they are.
LEMMA FilledKept ==
  ASSUME SoundInv, FilledInv, pc # "boot", pc' # "boot",
         heapRuns \subseteq heapRuns',
         UNCHANGED <<magic, next, firstHeapDesc>>,
         \A x \in Addr \ {NULL} : length'[x] = length[x]
  PROVE  FilledInv'
<1>1. Descs' = Descs /\ Listed' = Listed
    BY DEF Descs, Listed, WalkFrom
<1>2. \A x \in Descs : EndNew(x) = End(x)
    BY DescFacts DEF SoundInv, EndNew, End
<1>3. Filled'
    BY <1>1, <1>2
    DEF FilledInv, Filled, Within, End, EndNew, SectionEnds, Start, Stop
<1> QED
    BY <1>1, <1>3 DEF FilledInv

RootedOnceUp == pc # "boot" => Rooted

LEMMA SoundRooted == SoundInv => RootedOnceUp
BY DescFacts DEF SoundInv, EndsInv, TypeOK, Descs, Rooted, RootedOnceUp

LEMMA RootedAfter == SoundInv' => RootedOnceUp'
BY SoundRooted, PTL

LEMMA FilledStep ==
  SoundInv /\ SoundInv' /\ FilledInv /\ [Next]_vars /\ ~damaged' => FilledInv'
<1> SUFFICES ASSUME SoundInv, SoundInv', FilledInv, [Next]_vars, ~damaged'
             PROVE  FilledInv'
    OBVIOUS
<1>t. TypeOK /\ RunsInv /\ TileInv /\ NextInv /\ EndsInv /\ Filled
    BY DEF SoundInv, FilledInv
<1>1. ASSUME pc # "boot"
      PROVE  firstHeapDesc \in Descs /\ Descs \subseteq Listed
    BY <1>1 DEF SoundInv, EndsInv, FilledInv
<1>2. CASE InitKernelHeap
  <2>1. PICK g, a : FirstMade(g, a)
      BY <1>2, BootMakes
  <2>2. pc' # "boot" /\ Descs = {}
      BY <1>2, BootMakes
  <2>4. NewSection(g, a) /\ firstHeapDesc' = a
      BY <2>1 DEF FirstMade
  <2>5. Filled'
      BY <1>t, <2>4, SectionFills
  <2>6. Descs' = {a}
      BY <1>t, <2>2, <2>4, NewSectionShape
  <2>7. Reaching'
      BY <2>2, RootedAfter, ListReachesAfter DEF RootedOnceUp
  <2> QED
      BY <2>2, <2>4, <2>5, <2>6, <2>7 DEF FilledInv, Reaching
<1>3. ASSUME pc # "boot", pc' # "boot",
             UNCHANGED <<magic, next, length, firstHeapDesc, heapRuns>>
      PROVE  FilledInv'
    BY <1>3, FilledKept
<1>4. CASE ExpandAt
  <2>1. PICK d \in Addr, r \in freeRuns :
          /\ Biggest(d) /\ r \in RunsAfter(d)
          /\ \E n : GiveToHeap(r, n) /\ Touching(r.base, n) = {}
          /\ \E l : length' = [length EXCEPT ![d] = l]
      BY <1>4 DEF ExpandAt, RunsAfter
  <2>2. pc = "search" /\ pc' # "boot" /\ UNCHANGED <<magic, next, firstHeapDesc>>
      BY <1>4 DEF ExpandAt, NothingFits
  <2>3. d = NULL
    <3>1. d \in Descs => End(d) = Start(r)
        BY <2>1 DEF RunsAfter, Start
    <3> QED
        BY <1>t, <2>1, <2>2, <3>1, BiggestDesc, EndsAtSection
  <2>4. heapRuns \subseteq heapRuns'
      BY <2>1 DEF GiveToHeap
  <2>5. \A x \in Addr \ {NULL} : length'[x] = length[x]
      BY <1>t, <2>1, <2>3 DEF TypeOK
  <2> QED
      BY <2>2, <2>4, <2>5, FilledKept
<1>5. CASE ExpandNew
  <2>1. PICK g, a : SectionMade(g, a)
      BY <1>5, ExpandNewMakes
  <2>2. /\ NewSection(g, a) /\ LinkedLast(a)
        /\ lastHeapDesc \in Descs /\ next[lastHeapDesc] = NULL
      BY <2>1 DEF SectionMade
  <2>3. pc # "boot" /\ pc' # "boot" /\ firstHeapDesc' = firstHeapDesc
      BY <1>5 DEF ExpandNew, NothingFits
  <2>4. Descs' \subseteq Listed'
      BY <1>t, <1>1, <2>2, <2>3, RootedAfter, NewSectionListed DEF RootedOnceUp
  <2>5. Filled'
      BY <1>t, <2>2, SectionFills
  <2> QED
      BY <2>3, <2>4, <2>5 DEF FilledInv
<1>6. CASE Place
  <2>1. /\ pc = "place" /\ pc' # "boot"
        /\ UNCHANGED <<firstHeapDesc, heapRuns>>
      BY <1>6 DEF Place, Return, pages
  <2>2. CASE Splits(cur, req.size)
    <3>1. SplitOff(cur, PayloadOf(cur) + req.size, req.size)
        BY <1>6, <2>2 DEF Place
    <3>2. cur \in Descs /\ req.size \in Nat \ {0}
        BY <2>1 DEF SoundInv, LiveInv, TypeOK
    <3>3. Descs' \subseteq Listed' /\ Filled'
        BY <1>t, <1>1, <2>1, <2>2, <3>1, <3>2, RootedAfter, SplitFills
         DEF RootedOnceUp
    <3> QED
        BY <2>1, <3>3 DEF FilledInv
  <2>3. CASE ~Splits(cur, req.size)
      BY <1>3, <1>6, <2>1, <2>3 DEF Place
  <2> QED
      BY <2>2, <2>3
<1>7. ASSUME NEW b \in Descs, NEW d \in Descs, End(b) = d, Absorb(b, d),
             pc # "boot", pc' # "boot", heapRuns' = heapRuns
      PROVE  FilledInv'
  <2>1. firstHeapDesc' = firstHeapDesc
      BY <1>7 DEF Absorb
  <2>2. Descs' \subseteq Listed' /\ Filled'
      BY <1>t, <1>1, <1>7, <2>1, RootedAfter, AbsorbFills
         DEF RootedOnceUp
  <2> QED
      BY <1>7, <2>2 DEF FilledInv
<1>8. CASE MergePrev
  <2>1. pc = "mergePrev" /\ pc' # "boot" /\ heapRuns' = heapRuns /\ cur \in Descs
      BY <1>8 DEF MergePrev, SoundInv, LiveInv, pages
  <2>2. CASE JoinsPrev
      BY <1>7, <1>8, <2>1, <2>2, PrevIsNeighbour DEF MergePrev
  <2>3. CASE ~JoinsPrev
      BY <1>3, <1>8, <2>1, <2>3 DEF MergePrev, desc
  <2> QED
      BY <2>2, <2>3
<1>9. CASE MergeNext
  <2>1. pc = "mergeNext" /\ pc' # "boot" /\ heapRuns' = heapRuns /\ cur \in Descs
      BY <1>9 DEF MergeNext, SoundInv, LiveInv, pages
  <2>2. CASE next[cur] # NULL /\ Joins(cur, next[cur])
    <3>1. next[cur] \in Descs /\ End(cur) = next[cur]
        BY <1>t, <2>1, <2>2 DEF NextInv, Joins
    <3> QED
        BY <1>7, <1>9, <2>1, <2>2, <3>1 DEF MergeNext
  <2>3. CASE ~(next[cur] # NULL /\ Joins(cur, next[cur]))
      BY <1>3, <1>9, <2>1, <2>3 DEF MergeNext, desc
  <2> QED
      BY <2>2, <2>3
<1>10. CASE TakeExact
    BY <1>3, <1>10 DEF TakeExact, Return, pages
<1>11. CASE TakeBest \/ SearchHangs \/ ExpandFails
    BY <1>3, <1>11 DEF TakeBest, SearchHangs, ExpandFails, NothingFits, desc, pages
<1>12. ASSUME NEW p, Free(p), pc # "boot"
       PROVE  FilledInv'
    BY <1>3, <1>12 DEF Free, pages
<1>13. ASSUME NEW n \in sizes, Kalloc(n) \/ \E b \in live : Krealloc(b, n)
       PROVE  FilledInv'
  <2>1. pc = "idle" /\ pc' # "boot" /\ UNCHANGED <<desc, pages>>
      BY <1>13 DEF Kalloc, Krealloc, Request
  <2> QED
      BY <1>3, <2>1 DEF desc, pages
<1>14. CASE UNCHANGED vars
  <2>1. UNCHANGED <<magic, next, length, firstHeapDesc, heapRuns, pc>>
      BY <1>14 DEF vars, desc, pages
  <2>2. Descs' = Descs /\ Listed' = Listed
      BY <2>1 DEF Descs, Listed, WalkFrom
  <2> QED
      BY <2>1, <2>2
      DEF FilledInv, Filled, Within, End, SectionEnds, Start, Stop
<1>15. ASSUME NEW b \in live, Kfree(b) PROVE FilledInv'
    BY <1>12, <1>15 DEF Kfree
<1>16. CASE FreeOld
    BY <1>12, <1>16 DEF FreeOld
<1> QED
    BY <1>2, <1>4, <1>5, <1>6, <1>8, <1>9, <1>10, <1>11, <1>13, <1>14, <1>15, <1>16
    DEF Next, Continue

\* As long as no expansion damages the heap, splits and merges keep its blocks
\* side by side from the first byte of a section to its last, kalloc's walk meets
\* them all, and kfree only merges backwards into the block the list has before.
THEOREM SectionsStayTiled == Spec => []BlocksTile
<1>1. Init => (~damaged => FilledInv)
    BY FilledInit
<1>2. HInv /\ HInv' /\ [Next]_vars /\ (~damaged => FilledInv)
        => (~damaged' => FilledInv')
    BY FilledStep, DamageStays DEF HInv
<1>3. HInv /\ (~damaged => FilledInv) => BlocksTile
  <2> SUFFICES ASSUME SoundInv, FilledInv PROVE BlocksTile
      BY DEF HInv, BlocksTile
  <2>1. CASE pc = "boot"
    <3>1. heapRuns = {} /\ firstHeapDesc = NULL /\ next \in [Addr -> Addr]
        BY <2>1 DEF SoundInv, EndsInv, FilledInv, TypeOK
    <3>2. PICK f : Walks(f, Cardinality(Addr)) /\ WalkFrom(NULL) = f[Cardinality(Addr)][NULL]
        BY <3>1, NullAddr, WalkUnfolds
    <3>3. Listed = {}
      <4>1. Cardinality(Addr) \in 0..Cardinality(Addr)
          BY AddrFinite
      <4> QED
          BY <3>1, <3>2, <4>1, NullAddr DEF Walks, Listed
    <3> QED
        BY <2>1, <3>1, <3>3 DEF BlocksTile
  <2>2. CASE pc # "boot"
    <3>1. Listed = Descs
        BY <2>2, ListedAreDescs DEF FilledInv
    <3>2. ASSUME NEW r \in heapRuns, Section(r) \cap Descs # {}
          PROVE  Start(r) \in Descs
      <4>1. PICK d \in Descs : d \in Section(r)
          BY <3>2
      <4>2. PICK q \in heapRuns : Within(d, q) /\ Start(q) \in Descs
          BY DEF FilledInv, Filled
      <4>3. q = r
        <5>1. /\ Start(q) \in Nat /\ Stop(q) \in Nat /\ Start(r) \in Nat /\ Stop(r) \in Nat
            BY RunTypes, RunBounds DEF SoundInv
        <5>2. d \in Nat /\ End(d) \in Nat /\ d < End(d)
            BY DescFacts DEF SoundInv
        <5>3. Start(r) <= d /\ d < Stop(r)
            BY <4>1, <5>1, <5>2 DEF Section, Start, Stop
        <5>4. q # r => Stop(q) < Start(r) \/ Stop(r) < Start(q)
            BY RunTypes, RunOrder DEF SoundInv, RunsInv
        <5> QED
            BY <4>2, <5>1, <5>2, <5>3, <5>4 DEF Within
      <4> QED
          BY <4>2, <4>3
    <3>3. pc = "mergePrev" /\ JoinsPrev => prev[cur] \in Descs /\ next[prev[cur]] = cur
        BY PrevIsNeighbour
    <3> QED
        BY <3>1, <3>2, <3>3 DEF BlocksTile, FilledInv, Filled, Start
  <2> QED
      BY <2>1, <2>2
<1> QED
    BY <1>1, <1>2, <1>3, HeapInvariant, PTL DEF Spec

\* No descriptor is inside a block, and neither is NULL nor the rest of a split.
LEMMA PayloadApart ==
  ASSUME SoundInv, NEW b \in live, NEW a \in Payload(b)
  PROVE  /\ a \in Addr /\ a # NULL /\ a \notin Descs
         /\ DescOf(b.at) \in Descs /\ used[DescOf(b.at)]
         /\ DescOf(b.at) < a /\ a < End(DescOf(b.at))
<1> DEFINE x == DescOf(b.at)
<1>1. /\ x \in Descs /\ used[x] /\ length[x] >= b.size
      /\ b.at \in Addr /\ b.size \in Nat
      /\ TypeOK /\ RunsInv /\ TileInv
    BY DEF SoundInv, LiveInv, TypeOK
<1>2. /\ x \in Nat /\ length[x] \in Nat /\ b.at \in Nat /\ End(x) \in Nat
      /\ DescSize \in Nat /\ DescSize > 0
    BY <1>1, DescFacts, AddrNat, HeapAssumption
<1>3. a \in Int /\ x < a /\ a < End(x)
    BY <1>1, <1>2 DEF Payload, DescOf, End
<1>4. PICK r \in heapRuns : Within(x, r)
    BY <1>1 DEF TileInv
<1>5. Start(r) \in Nat /\ Stop(r) \in Nat
    BY <1>1, RunTypes, RunBounds
<1>6. a \in Addr /\ a # NULL
    BY <1>1, <1>2, <1>3, <1>4, <1>5, InRun DEF Within
<1>7. a \notin Descs
    BY <1>1, <1>2, <1>3, DescFacts DEF TileInv
<1> QED
    BY <1>1, <1>3, <1>6, <1>7

Kept(a) ==
  /\ magic'[a] = magic[a] /\ used'[a] = used[a] /\ length'[a] = length[a]
  /\ prev'[a] = prev[a] /\ next'[a] = next[a]

\* Where a step of an undamaged heap writes: descriptors, NULL, and bytes that
\* belong to no block.
LEMMA StoresApart ==
  ASSUME SoundInv, [Next]_vars, ~damaged', NEW b \in live, NEW a \in Payload(b),
         MarkInv
  PROVE  Kept(a)
<1> DEFINE x == DescOf(b.at)
<1>1. /\ a \in Addr /\ a # NULL /\ a \notin Descs
      /\ x \in Descs /\ used[x] /\ x < a /\ a < End(x)
    BY PayloadApart
<1>t. /\ magic \in [Addr -> BOOLEAN] /\ used \in [Addr -> BOOLEAN]
      /\ prev \in [Addr -> Addr] /\ next \in [Addr -> Addr]
      /\ length \in [Addr -> Nat]
      /\ TypeOK /\ RunsInv /\ TileInv /\ NextInv
    BY DEF SoundInv, TypeOK
<1>2. CASE UNCHANGED desc
    BY <1>2 DEF desc, Kept
<1>3. CASE InitKernelHeap
    BY <1>3 DEF InitKernelHeap, SoundInv, EndsInv
<1>4. CASE TakeExact
  <2>1. PICK d \in Addr : /\ IsFirst(d, Exact(req.size))
                          /\ used' = [used EXCEPT ![d] = TRUE]
      BY <1>4 DEF TakeExact
  <2>2. pc = "search" /\ UNCHANGED <<magic, prev, next, length>>
      BY <1>4 DEF TakeExact
  <2>3. d \in Descs
      BY <2>1, <2>2, ListedAreDescs DEF IsFirst, Exact, Unused
  <2> QED
      BY <1>1, <1>t, <2>1, <2>2, <2>3 DEF Kept
<1>5. CASE ExpandAt
  <2>1. PICK d \in Addr : Biggest(d) /\ \E l : length' = [length EXCEPT ![d] = l]
      BY <1>5 DEF ExpandAt
  <2>2. pc = "search" /\ UNCHANGED <<magic, used, prev, next>>
      BY <1>5 DEF ExpandAt, NothingFits
  <2>3. d \in Descs \/ d = NULL
      BY <2>1, <2>2, BiggestDesc
  <2> QED
      BY <1>1, <1>t, <2>1, <2>2, <2>3 DEF Kept
<1>6. CASE ExpandNew
  <2>1. PICK g, y : SectionMade(g, y)
      BY <1>6, ExpandNewMakes
  <2>2. NewSection(g, y) /\ LinkedLast(y) /\ lastHeapDesc \in Descs
        /\ used' = [used EXCEPT ![y] = FALSE]
      BY <2>1 DEF SectionMade
  <2>3. a # y
    <3>1. PICK r \in heapRuns : Within(x, r)
        BY <1>1, <1>t DEF TileInv
    <3>2. End(x) < y \/ Stop(g) < x
        BY <1>1, <1>t, <2>2, <3>1, NewSectionShape DEF Descs
    <3>3. y \in Nat /\ y < Stop(g) /\ Stop(g) \in Nat
        BY <1>t, <2>2, NewSectionShape
    <3>4. x \in Nat /\ End(x) \in Nat /\ a \in Nat
        BY <1>1, <1>t, DescFacts, AddrNat
    <3> QED
        BY <1>1, <3>2, <3>3, <3>4
  <2> QED
      BY <1>1, <1>t, <2>2, <2>3 DEF Kept, NewSection, LinkedLast
<1>7. CASE Place
  <2>1. pc = "place" /\ cur \in Descs /\ ~used[cur]
      BY <1>7 DEF Place, SoundInv, LiveInv
  <2>2. CASE Splits(cur, req.size)
    <3> DEFINE s == PayloadOf(cur) + req.size
    <3>1. SplitOff(cur, s, req.size)
        BY <1>7, <2>2 DEF Place
    <3>2. req.size \in Nat \ {0}
        BY <2>1 DEF SoundInv, LiveInv, TypeOK
    <3> HIDE DEF s
    <3>3. s \in Addr /\ s \in Nat /\ cur < s /\ s < End(cur)
        BY <1>t, <2>1, <2>2, <3>1, <3>2, SplitShape DEF s
    <3>4. a # s
      <4>1. End(x) <= cur \/ End(cur) <= x
          BY <1>1, <1>t, <2>1 DEF TileInv
      <4>2. /\ x \in Nat /\ End(x) \in Nat /\ a \in Nat
            /\ cur \in Nat /\ End(cur) \in Nat
          BY <1>1, <1>t, <2>1, DescFacts, AddrNat
      <4> QED
          BY <1>1, <3>3, <4>1, <4>2
    <3> QED
        BY <1>1, <1>t, <2>1, <3>1, <3>4 DEF Kept, SplitOff
  <2>3. CASE ~Splits(cur, req.size)
      BY <1>1, <1>7, <1>t, <2>1, <2>3 DEF Place, Kept
  <2> QED
      BY <2>2, <2>3
<1>8. ASSUME NEW p, Holder(p) # {}, Free(p)
      PROVE  Kept(a)
  <2>1. DescOf(p) \in Descs
      BY <1>8 DEF Holder, SoundInv, LiveInv
  <2> QED
      BY <1>1, <1>8, <1>t, <2>1 DEF Free, Kept
<1>9. ASSUME NEW c \in Descs, NEW d \in Descs, Absorb(c, d)
      PROVE  Kept(a)
  <2>1. next[d] # NULL => next[d] \in Descs
      BY <1>t DEF NextInv
  <2>2. /\ length'[a] = length[a] /\ magic'[a] = magic[a] /\ used' = used
        /\ next'[a] = next[a]
      BY <1>1, <1>9, <1>t DEF Absorb, LinksAfter
  <2>3. prev'[a] = prev[a]
      BY <1>1, <1>9, <1>t, <2>1 DEF Absorb, LinksAfter
  <2> QED
      BY <2>2, <2>3 DEF Kept
<1>10. CASE MergePrev
  <2>1. JoinsPrev => prev[cur] \in Descs /\ cur \in Descs /\ Absorb(prev[cur], cur)
      BY <1>10, PrevIsNeighbour DEF MergePrev, SoundInv, LiveInv
  <2> QED
      BY <1>2, <1>9, <1>10, <2>1 DEF MergePrev
<1>11. CASE MergeNext
  <2>1. cur \in Descs /\ (next[cur] # NULL => next[cur] \in Descs)
      BY <1>11, <1>t DEF MergeNext, SoundInv, LiveInv, NextInv
  <2> QED
      BY <1>2, <1>9, <1>11, <2>1 DEF MergeNext
<1>12. CASE FreeOld
    BY <1>8, <1>12 DEF FreeOld, SoundInv, LiveInv
<1>13. ASSUME NEW c \in live, Kfree(c)
       PROVE  Kept(a)
    BY <1>8, <1>13 DEF Kfree, Holder
<1>14. CASE TakeBest \/ SearchHangs \/ ExpandFails
    BY <1>2, <1>14 DEF TakeBest, SearchHangs, ExpandFails
<1>15. ASSUME NEW n \in sizes, Kalloc(n) \/ \E c \in live : Krealloc(c, n)
       PROVE  Kept(a)
    BY <1>2, <1>15 DEF Kalloc, Krealloc, Request
<1>16. CASE UNCHANGED vars
    BY <1>2, <1>16 DEF vars
<1> QED
    BY <1>3, <1>4, <1>5, <1>6, <1>7, <1>10, <1>11, <1>12, <1>13, <1>14, <1>15, <1>16
    DEF Next, Continue

\* The heap's own stores never hit a byte of a block that somebody holds.
THEOREM StoresMissBlocks == Spec => NoScribble
<1>1. HInv /\ [Next]_vars => (~damaged' => BytesKept)
  <2> SUFFICES ASSUME HInv, [Next]_vars, ~damaged' PROVE BytesKept
      OBVIOUS
  <2>1. SoundInv /\ MarkInv
      BY DamageStays DEF HInv
  <2> QED
      BY <2>1, StoresApart DEF BytesKept, Kept
<1> QED
    BY <1>1, HeapInvariant, PTL DEF Spec, NoScribble

-----------------------------------------------------------------------------
(* The heap implements a BlockAllocator.                                   *)

Space == UNION {Section(r) : r \in heapRuns}

BlocksDisjoint ==
  /\ \A b \in live : b.at \in Nat /\ Payload(b) \subseteq Space
  /\ \A b, c \in live : b # c => Payload(b) \cap Payload(c) = {}

LEMMA SoundBlocks == SoundInv => BlocksDisjoint
<1> SUFFICES ASSUME SoundInv PROVE BlocksDisjoint
    OBVIOUS
<1>1. ASSUME NEW b \in live, NEW a \in Payload(b)
      PROVE  a \in Space
  <2>1. DescOf(b.at) \in Descs /\ DescOf(b.at) < a /\ a < End(DescOf(b.at))
      BY <1>1, PayloadApart
  <2>2. PICK r \in heapRuns : Within(DescOf(b.at), r)
      BY <2>1 DEF SoundInv, TileInv
  <2>3. Start(r) \in Nat /\ Stop(r) \in Nat
      BY RunTypes, RunBounds DEF SoundInv
  <2>4. a \in Nat /\ DescOf(b.at) \in Nat /\ End(DescOf(b.at)) \in Nat
      BY <1>1, <2>1, PayloadApart, DescFacts, AddrNat DEF SoundInv
  <2>5. a \in Section(r)
    <3>1. Section(r) = Start(r)..(Stop(r) - 1)
        BY DEF Section, Start, Stop
    <3> QED
        BY <2>1, <2>2, <2>3, <2>4, <3>1 DEF Within
  <2> QED
      BY <2>5 DEF Space
<1>2. ASSUME NEW b \in live, NEW c \in live, b # c,
             NEW a \in Payload(b), a \in Payload(c)
      PROVE  FALSE
  <2> DEFINE x == DescOf(b.at)
             y == DescOf(c.at)
  <2>1. /\ x \in Descs /\ x < a /\ a < End(x)
        /\ y \in Descs /\ y < a /\ a < End(y)
      BY <1>2, PayloadApart
  <2>2. x # y
    <3>1. b.at # c.at /\ b.at \in Addr /\ c.at \in Addr
        BY <1>2 DEF SoundInv, LiveInv, TypeOK
    <3> QED
        BY <3>1, AddrNat, HeapAssumption DEF DescOf
  <2>3. End(x) <= y \/ End(y) <= x
      BY <2>1, <2>2 DEF SoundInv, TileInv
  <2>4. /\ x \in Nat /\ End(x) \in Nat /\ y \in Nat /\ End(y) \in Nat /\ a \in Nat
      BY <1>2, <2>1, PayloadApart, DescFacts, AddrNat DEF SoundInv
  <2> QED
      BY <2>1, <2>3, <2>4
<1>3. \A b \in live : b.at \in Nat
    BY AddrNat DEF SoundInv, TypeOK
<1> QED
    BY <1>1, <1>2, <1>3 DEF BlocksDisjoint

\* A step that hands out one block more.
LEMMA ReturnAllocates ==
  ASSUME NEW d, Return(d), heapRuns' = heapRuns, BlocksDisjoint'
  PROVE  Blocks!Next \/ UNCHANGED <<heapRuns, live>>
<1> DEFINE g == [at |-> PayloadOf(d), size |-> req.size]
<1>1. live' = live \cup {g}
    BY DEF Return
<1> HIDE DEF g
<1>2. CASE g \in live
    BY <1>1, <1>2
<1>3. CASE g \notin live
  <2>1. Blocks!Apart(g, live)
    <3>1. Payload(g) \subseteq Space /\ \A c \in live : Payload(g) \cap Payload(c) = {}
        BY <1>1, <1>3 DEF BlocksDisjoint, Space, Section, Payload
    <3> QED
        BY <3>1 DEF Blocks!Apart, Blocks!Bytes, Payload, Space
  <2>2. Blocks!Alloc
      BY <1>1, <1>3, <2>1 DEF Blocks!Alloc, Section
  <2> QED
      BY <2>2 DEF Blocks!Next
<1> QED
    BY <1>2, <1>3

LEMMA FreeFrees ==
  ASSUME SoundInv, NEW p, Holder(p) # {}, Free(p), heapRuns' = heapRuns
  PROVE  Blocks!Next
<1>1. PICK b \in live : b.at = p
    BY DEF Holder
<1>2. Holder(p) = {b}
    BY <1>1 DEF Holder, SoundInv, LiveInv
<1>3. live' = live \ {b}
    BY <1>2 DEF Free
<1>4. Blocks!Free(b)
    BY <1>3 DEF Blocks!Free, Section
<1> QED
    BY <1>4 DEF Blocks!Next

LEMMA PagesGrow ==
  ASSUME heapRuns \subseteq heapRuns', live' = live
  PROVE  Blocks!Next
<1>1. UNION {Section(r) : r \in heapRuns} \subseteq (UNION {Section(r) : r \in heapRuns})'
    BY DEF Section
<1> QED
    BY <1>1 DEF Blocks!Next, Blocks!Grow

LEMMA AllocatorStep ==
  ASSUME SoundInv, MarkInv, [Next]_vars, ~damaged', BlocksDisjoint'
  PROVE  Blocks!Next \/ UNCHANGED <<heapRuns, live>>
<1>1. CASE InitKernelHeap
    BY <1>1, PagesGrow DEF InitKernelHeap, SoundInv, EndsInv
<1>2. CASE TakeExact
    BY <1>2, ReturnAllocates DEF TakeExact, pages
<1>3. CASE Place
    BY <1>3, ReturnAllocates DEF Place, pages
<1>4. CASE ExpandAt
  <2>1. PICK r, n : GiveToHeap(r, n) /\ Touching(r.base, n) = {}
      BY <1>4 DEF ExpandAt
  <2> QED
      BY <1>4, <2>1, PagesGrow DEF ExpandAt, GiveToHeap
<1>5. CASE ExpandNew
  <2>1. PICK r, n : GiveToHeap(r, n) /\ Touching(r.base, n) = {}
      BY <1>5 DEF ExpandNew
  <2> QED
      BY <1>5, <2>1, PagesGrow DEF ExpandNew, GiveToHeap
<1>6. CASE FreeOld
    BY <1>6, FreeFrees DEF FreeOld, Free, SoundInv, LiveInv, pages
<1>7. ASSUME NEW b \in live, Kfree(b)
      PROVE  Blocks!Next
    BY <1>7, FreeFrees DEF Kfree, Free, Holder, pages
<1>8. ASSUME NEW b \in live, NEW n \in sizes, Krealloc(b, n)
      PROVE  Blocks!Next \/ UNCHANGED <<heapRuns, live>>
  <2>1. CASE UNCHANGED <<heapRuns, live>>
      BY <2>1
  <2>2. CASE /\ live' = (live \ {b}) \cup {[b EXCEPT !.size = n]}
             /\ heapRuns' = heapRuns
    <3> DEFINE c == [at |-> b.at, size |-> n]
    <3>1. live' = (live \ {b}) \cup {c} /\ c.at = b.at
      <4>1. b = [at |-> b.at, size |-> b.size]
          BY DEF MarkInv
      <4>2. [b EXCEPT !.size = n] = c
          BY <4>1
      <4> QED
          BY <2>2, <4>2
    <3> HIDE DEF c
    <3>2. \A x \in live \ {b} : x # c
        BY <3>1 DEF SoundInv, LiveInv
    <3>3. Blocks!Apart(c, live \ {b})
      <4>1. /\ Payload(c) \subseteq Space
            /\ \A x \in live \ {b} : Payload(c) \cap Payload(x) = {}
          BY <2>2, <3>1, <3>2 DEF BlocksDisjoint, Space, Section, Payload
      <4> QED
          BY <4>1 DEF Blocks!Apart, Blocks!Bytes, Payload, Space
    <3>4. Blocks!Resize(b)
        BY <2>2, <3>1, <3>3 DEF Blocks!Resize, Section
    <3> QED
        BY <3>4 DEF Blocks!Next
  <2> QED
      BY <1>8, <2>1, <2>2 DEF Krealloc, Request, pages
<1>9. CASE \/ TakeBest \/ SearchHangs \/ ExpandFails \/ MergePrev \/ MergeNext
           \/ \E n \in sizes : Kalloc(n)
    BY <1>9 DEF TakeBest, SearchHangs, ExpandFails, MergePrev, MergeNext, Kalloc,
                Request, pages
<1>10. CASE UNCHANGED vars
    BY <1>10 DEF vars, pages
<1> QED
    BY <1>1, <1>2, <1>3, <1>4, <1>5, <1>6, <1>7, <1>8, <1>9, <1>10 DEF Next, Continue

\* The heap hands out blocks as a BlockAllocator does, whose space grows with the
\* sections that are added.
THEOREM AllocatesBlocks == Spec => AllocatorSpec
<1>1. Init => Blocks!Init
    BY DEF Init, Blocks!Init
<1>2. SoundInv' => BlocksDisjoint'
    BY SoundBlocks, PTL
<1>3. HInv /\ HInv' /\ [Next]_vars =>
        [~damaged' => Blocks!Next]_<<heapRuns, live>>
  <2> SUFFICES ASSUME HInv, HInv', [Next]_vars, ~damaged'
               PROVE  Blocks!Next \/ UNCHANGED <<heapRuns, live>>
      OBVIOUS
  <2>1. SoundInv /\ MarkInv /\ SoundInv'
      BY DamageStays DEF HInv
  <2> QED
      BY <1>2, <2>1, AllocatorStep
<1> QED
    BY <1>1, <1>3, HeapInvariant, PTL DEF Spec, AllocatorSpec
=============================================================================
