----------------------------- MODULE SetupProofs -----------------------------
(***************************************************************************)
(* What setupMemoryMap makes of the boot loader's map, for maps of any     *)
(* length, any page size and any size of an entry.  The loop over the      *)
(* regions is a recursive function; what holds after each number of        *)
(* regions is shown by induction on that number.                           *)
(***************************************************************************)
EXTENDS SetupMemoryMap, Integers, FiniteSetTheorems, SequenceTheorems,
        Induction, TLAPS

CONSTANTS NumPages, MaxCapacity, TableArea    \* of the physical memory manager

Manager == INSTANCE BootTable

-----------------------------------------------------------------------------
(* The loop over the regions.                                              *)

\* The equation of a loop that appends part[n] in its n-th iteration.
Appends(f, part, N) ==
  f = [n \in 0..N |-> IF n = 0 THEN <<>> ELSE f[n - 1] \o part[n]]

LEMMA LoopExists ==
  ASSUME NEW N \in Nat, NEW part
  PROVE  \E f : Appends(f, part, N)
<1> DEFINE S == {n \in Nat : \E f : Appends(f, part, n)}
<1>1. 0 \in S
  <2> DEFINE f == [n \in 0..0 |-> <<>>]
  <2>1. f = [n \in 0..0 |-> IF n = 0 THEN <<>> ELSE f[n - 1] \o part[n]]
      OBVIOUS
  <2> QED
      BY <2>1 DEF Appends
<1>2. ASSUME NEW n \in 0..(N - 1), n \in S
      PROVE  n + 1 \in S
  <2>1. PICK f : Appends(f, part, n)
      BY <1>2
  <2> DEFINE g == [m \in 0..(n + 1) |->
                     IF m = 0 THEN <<>> ELSE f[m - 1] \o part[m]]
  <2>2. /\ g = [m \in 0..(n + 1) |-> IF m = 0 THEN <<>> ELSE f[m - 1] \o part[m]]
        /\ \A m \in 0..n : g[m] = f[m]
      BY <2>1 DEF Appends
  <2> HIDE DEF g
  <2>3. \A m \in 0..(n + 1) : m # 0 => f[m - 1] = g[m - 1]
    <3> SUFFICES ASSUME NEW m \in 0..(n + 1), m # 0
                 PROVE  m - 1 \in 0..n
        BY <2>2
    <3> QED
        OBVIOUS
  <2>4. g = [m \in 0..(n + 1) |-> IF m = 0 THEN <<>> ELSE g[m - 1] \o part[m]]
      BY <2>2, <2>3
  <2>5. Appends(g, part, n + 1)
      BY <2>4 DEF Appends
  <2> QED
      BY <2>5
<1> HIDE DEF S
<1>3. 0..N \subseteq S
    BY <1>1, <1>2, Reaches
<1> QED
    BY <1>3 DEF S

\* The table after n regions is the one before the n-th and its entries.
LEMMA FilledStep ==
  ASSUME NEW st, Len(st) \in Nat
  PROVE  /\ Filled(st)[0] = <<>>
         /\ \A n \in 1..Len(st) :
              Filled(st)[n] = Filled(st)[n - 1] \o EntriesOfRegion(st, st[n])
<1> DEFINE part == [n \in 1..Len(st) |-> EntriesOfRegion(st, st[n])]
<1>1. \A f : Appends(f, part, Len(st))
               <=> f = [n \in 0..Len(st) |->
                          IF n = 0 THEN <<>>
                          ELSE f[n - 1] \o EntriesOfRegion(st, st[n])]
  <2> SUFFICES ASSUME NEW f
               PROVE  [n \in 0..Len(st) |->
                         IF n = 0 THEN <<>> ELSE f[n - 1] \o part[n]]
                      = [n \in 0..Len(st) |->
                           IF n = 0 THEN <<>>
                           ELSE f[n - 1] \o EntriesOfRegion(st, st[n])]
      BY DEF Appends
  <2>1. \A n \in 0..Len(st) : n # 0 => part[n] = EntriesOfRegion(st, st[n])
      OBVIOUS
  <2> QED
      BY <2>1
<1> DEFINE F == Filled(st)
<1>2. F = CHOOSE f : f = [n \in 0..Len(st) |->
                          IF n = 0 THEN <<>>
                          ELSE f[n - 1] \o EntriesOfRegion(st, st[n])]
    BY DEF Filled
<1>3. \E f : Appends(f, part, Len(st))
    BY LoopExists
<1>4. F = [n \in 0..Len(st) |->
             IF n = 0 THEN <<>> ELSE F[n - 1] \o EntriesOfRegion(st, st[n])]
    BY <1>1, <1>2, <1>3
<1> HIDE DEF F
<1>5. F[0] = <<>>
    BY <1>4
<1>6. \A n \in 1..Len(st) : F[n] = F[n - 1] \o EntriesOfRegion(st, st[n])
    BY <1>4
<1> QED
    BY <1>5, <1>6 DEF F

-----------------------------------------------------------------------------
(* Pages.                                                                  *)

LEMMA Quotient ==
  ASSUME NEW n \in Nat, NEW d \in Nat \ {0}
  PROVE  /\ n \div d \in Nat /\ n % d \in 0..(d - 1)
         /\ n = d * (n \div d) + (n % d)
<1>1. n \div d \in Int /\ n % d \in 0..(d - 1) /\ n = d * (n \div d) + (n % d)
    OBVIOUS
<1> DEFINE q == n \div d
<1>2. n < d * q + d
    BY <1>1
<1> HIDE DEF q
<1>3. q >= 0
  <2>1. q < 0 => d * (-q) >= d
      BY <1>1 DEF q
  <2> QED
      BY <1>1, <1>2, <2>1 DEF q
<1> QED
    BY <1>1, <1>3 DEF q

LEMMA Times ==
  ASSUME NEW a \in Nat, NEW b \in Nat, NEW p \in Nat \ {0}
  PROVE  /\ a * p \in Nat
         /\ a <= b => a * p <= b * p
         /\ a < b => a * p + p <= b * p
<1>1. ASSUME a <= b PROVE a * p <= b * p
  <2>1. b * p = a * p + (b - a) * p
      OBVIOUS
  <2>2. (b - a) * p \in Nat
      BY <1>1
  <2> QED
      BY <2>1, <2>2
<1>2. ASSUME a < b PROVE a * p + p <= b * p
  <2>1. b * p = (a * p + p) + (b - a - 1) * p
      OBVIOUS
  <2>2. (b - a - 1) * p \in Nat
      BY <1>2
  <2> QED
      BY <2>1, <2>2
<1> QED
    BY <1>1, <1>2

\* An address on a page boundary.
OnPage(x) == x % PageSize = 0

LEMMA PageMultiple ==
  ASSUME MemoryMapAssumption, NEW x \in Nat
  PROVE  OnPage(x) <=> \E k \in Nat : x = k * PageSize
<1>1. x \div PageSize \in Nat /\ x = PageSize * (x \div PageSize) + (x % PageSize)
    BY Quotient DEF MemoryMapAssumption
<1>2. ASSUME NEW k \in Nat, x = k * PageSize
      PROVE  x % PageSize = 0
  <2> DEFINE q == x \div PageSize
             r == x % PageSize
  <2>0. q \in Nat /\ r \in 0..(PageSize - 1) /\ x = PageSize * q + r
      BY Quotient DEF MemoryMapAssumption
  <2> HIDE DEF q, r
  <2>1. q \in Nat /\ r \in 0..(PageSize - 1) /\ x = q * PageSize + r
      BY <2>0 DEF MemoryMapAssumption
  <2>2. CASE q < k
    <3>1. q * PageSize + PageSize <= k * PageSize
        BY <2>1, <2>2, Times DEF MemoryMapAssumption
    <3> QED
        BY <2>1, <3>1, <1>2 DEF MemoryMapAssumption
  <2>3. CASE k < q
    <3>1. k * PageSize + PageSize <= q * PageSize
        BY <2>1, <2>3, Times DEF MemoryMapAssumption
    <3> QED
        BY <2>1, <3>1, <1>2, Times DEF MemoryMapAssumption
  <2>4. k = q => r = 0
      BY <2>1, <1>2 DEF MemoryMapAssumption
  <2>5. r = 0
      BY <2>1, <2>2, <2>3, <2>4
  <2> QED
      BY <2>5 DEF r
<1> DEFINE q == x \div PageSize
<1>3. ASSUME x % PageSize = 0
      PROVE  q \in Nat /\ x = q * PageSize
  <2>1. q \in Nat /\ x = PageSize * q + 0
      BY <1>1, <1>3
  <2> HIDE DEF q
  <2> QED
      BY <2>1 DEF MemoryMapAssumption
<1> HIDE DEF q
<1> QED
    BY <1>2, <1>3 DEF OnPage

\* RoundUp is the first page boundary from x on.
LEMMA RoundUpFirst ==
  ASSUME MemoryMapAssumption, NEW x \in Nat
  PROVE  /\ RoundUp(x) \in Nat
         /\ OnPage(RoundUp(x))
         /\ x <= RoundUp(x)
         /\ \A y \in Nat : OnPage(y) /\ x <= y => RoundUp(x) <= y
<1> DEFINE q == (x + PageSize - 1) \div PageSize
           r == (x + PageSize - 1) % PageSize
<1>1. x + PageSize - 1 \in Nat
    BY DEF MemoryMapAssumption
<1>2. q \in Nat /\ r \in 0..(PageSize - 1) /\ x + PageSize - 1 = PageSize * q + r
    BY <1>1, Quotient DEF MemoryMapAssumption
<1>3. RoundUp(x) = q * PageSize
    BY DEF RoundUp
<1> HIDE DEF q, r
<1>4. q * PageSize \in Nat
    BY <1>2 DEF MemoryMapAssumption
<1>5. x <= q * PageSize /\ q * PageSize < x + PageSize
    BY <1>2, <1>4 DEF MemoryMapAssumption
<1>6. ASSUME NEW y \in Nat, OnPage(y), x <= y
      PROVE  q * PageSize <= y
  <2>1. PICK k \in Nat : y = k * PageSize
      BY <1>6, PageMultiple
  <2>2. CASE k < q
    <3>1. k * PageSize + PageSize <= q * PageSize
        BY <2>2, <1>2, Times DEF MemoryMapAssumption
    <3>2. k * PageSize \in Nat
        BY DEF MemoryMapAssumption
    <3> QED
        BY <3>1, <3>2, <2>1, <1>4, <1>5, <1>6 DEF MemoryMapAssumption
  <2>3. CASE q <= k
      BY <2>1, <2>3, <1>2, Times DEF MemoryMapAssumption
  <2> QED
      BY <2>2, <2>3, <1>2
<1>7. OnPage(q * PageSize)
    BY <1>2, <1>4, PageMultiple
<1> QED
    BY <1>3, <1>4, <1>5, <1>6, <1>7

LEMMA PageSums ==
  ASSUME MemoryMapAssumption, NEW x \in Nat, NEW y \in Nat, OnPage(x)
  PROVE  /\ OnPage(y) => OnPage(x + y)
         /\ OnPage(y) /\ x <= y => OnPage(y - x)
         /\ RoundUp(x) = x
         /\ RoundUp(x + y) = x + RoundUp(y)
<1>1. PICK k \in Nat : x = k * PageSize
    BY PageMultiple
<1>2. ASSUME NEW z \in Nat, OnPage(z)
      PROVE  OnPage(x + z)
  <2>1. PICK m \in Nat : z = m * PageSize
      BY <1>2, PageMultiple
  <2>2. k + m \in Nat /\ x + z = (k + m) * PageSize
      BY <1>1, <2>1 DEF MemoryMapAssumption
  <2> QED
      BY <2>2, PageMultiple
<1>3. ASSUME NEW z \in Nat, OnPage(z), x <= z
      PROVE  OnPage(z - x)
  <2>1. PICK m \in Nat : z = m * PageSize
      BY <1>3, PageMultiple
  <2>2. k <= m
    <3>1. CASE m < k
      <4>1. m * PageSize + PageSize <= k * PageSize
          BY <3>1, Times DEF MemoryMapAssumption
      <4> QED
          BY <4>1, <1>1, <2>1, <1>3 DEF MemoryMapAssumption
    <3> QED
        BY <3>1
  <2>3. m - k \in Nat /\ z - x = (m - k) * PageSize
      BY <1>1, <2>1, <2>2 DEF MemoryMapAssumption
  <2>4. z - x \in Nat
      BY <1>3
  <2> QED
      BY <2>3, <2>4, PageMultiple
<1>4. RoundUp(x) = x
    BY RoundUpFirst
<1>5. RoundUp(x + y) = x + RoundUp(y)
  <2>1. RoundUp(y) \in Nat /\ OnPage(RoundUp(y)) /\ y <= RoundUp(y)
      BY RoundUpFirst
  <2>2. RoundUp(x + y) <= x + RoundUp(y)
      BY <2>1, <1>2, RoundUpFirst
  <2>3. /\ RoundUp(x + y) \in Nat /\ OnPage(RoundUp(x + y))
        /\ x + y <= RoundUp(x + y)
      BY RoundUpFirst
  <2>4. RoundUp(x + y) - x \in Nat /\ OnPage(RoundUp(x + y) - x)
      BY <2>3, <1>3
  <2>5. RoundUp(y) <= RoundUp(x + y) - x
      BY <2>3, <2>4, RoundUpFirst
  <2> QED
      BY <2>1, <2>2, <2>3, <2>5
<1> QED
    BY <1>2, <1>3, <1>4, <1>5

-----------------------------------------------------------------------------
(* What the loop makes of one region.                                      *)

MadeType == {"FREE", "META", "USED", "RESERVED"}
Made == [base : Nat, length : Nat \ {0}, type : MadeType]
MetaLen(st) == RoundUp(requiredFreeSize(st))
Ours(x) == x.type \in {"FREE", "META"}

\* A map with room for the table: setupMemoryMap goes on with it.
Lands(st) == IsMap(st) /\ pmmEntryLand(st) # 0

Land(st, c) ==
  /\ c \in DOMAIN st
  /\ pmm_isStUsable(st[c])
  /\ st[c].base = pmmEntryLand(st)
  /\ MetaLen(st) <= st[c].length
  /\ \A j \in DOMAIN st : j # c => st[j].base # pmmEntryLand(st)
  /\ \A j \in LandCandidates(st) : c <= j

LEMMA PairOfCat ==
  ASSUME NEW a, NEW b
  PROVE  <<a>> \o <<b>> = <<a, b>>
<1> DEFINE s == <<a>> \o <<b>>
           t == <<a, b>>
<1>1. s \in Seq({a, b}) /\ t \in Seq({a, b}) /\ Len(s) = 2 /\ Len(t) = 2
    OBVIOUS
<1>2. s[1] = a /\ s[2] = b /\ t[1] = a /\ t[2] = b
    OBVIOUS
<1> HIDE DEF s, t
<1>3. \A i \in 1..Len(s) : s[i] = t[i]
    BY <1>1, <1>2
<1>4. s = t
    BY <1>1, <1>3, SeqEqual
<1> QED
    BY <1>4 DEF s, t

LEMMA MapType ==
  ASSUME NEW st, IsMap(st)
  PROVE  /\ Len(st) \in Nat /\ DOMAIN st = 1..Len(st)
         /\ \A i \in DOMAIN st : /\ st[i].base \in Nat
                                 /\ st[i].length \in Nat \ {0}
                                 /\ st[i].type \in StType
                                 /\ End(st[i]) \in Nat
                                 /\ st[i].base < End(st[i])
<1>1. st \in Seq([base : Nat, length : Nat \ {0}, type : StType])
    BY DEF IsMap
<1>2. Len(st) \in Nat /\ DOMAIN st = 1..Len(st)
    BY <1>1
<1>3. ASSUME NEW i \in 1..Len(st)
      PROVE  st[i] \in [base : Nat, length : Nat \ {0}, type : StType]
    BY <1>1, ElementOfSeq
<1>4. ASSUME NEW i \in 1..Len(st)
      PROVE  /\ st[i].base \in Nat
             /\ st[i].length \in Nat \ {0}
             /\ st[i].type \in StType
    BY <1>3
<1> QED
    BY <1>2, <1>4 DEF End

LEMMA RequiredSize ==
  ASSUME MemoryMapAssumption, NEW st, IsMap(st)
  PROVE  /\ requiredNumEntries(st) \in Nat /\ requiredNumEntries(st) >= 4
         /\ requiredFreeSize(st) \in Nat \ {0}
         /\ MetaLen(st) \in Nat \ {0} /\ OnPage(MetaLen(st))
         /\ requiredFreeSize(st) <= MetaLen(st)
<1> DEFINE C == {i \in DOMAIN st : pmm_isStCounted(st[i])}
<1>1. IsFiniteSet(DOMAIN st)
    BY MapType, FS_Interval
<1>2. Cardinality(C) \in Nat
  <2>1. C \in SUBSET (DOMAIN st)
      OBVIOUS
  <2> QED
      BY <1>1, <2>1, FS_Subset, FS_CardinalityType
<1> HIDE DEF C
<1>3. requiredNumEntries(st) = 4 + Cardinality(C)
    BY DEF requiredNumEntries, C
<1>4. requiredNumEntries(st) * EntrySize \in Nat \ {0}
    BY <1>2, <1>3 DEF MemoryMapAssumption
<1> QED
    BY <1>2, <1>3, <1>4, RoundUpFirst DEF requiredFreeSize, MetaLen

LEMMA LandRegion ==
  ASSUME MemoryMapAssumption, NEW st, Lands(st)
  PROVE  \E c \in DOMAIN st : Land(st, c)
<1>1. IsMap(st) /\ LandCandidates(st) # {}
    BY DEF Lands, pmmEntryLand
<1>2. LandCandidates(st) \in SUBSET Nat /\ LandCandidates(st) \subseteq DOMAIN st
    BY <1>1, MapType DEF LandCandidates
<1>3. \E i \in LandCandidates(st) : \A j \in LandCandidates(st) : i <= j
    BY <1>1, <1>2, LeastNumber
<1> DEFINE c == CHOOSE i \in LandCandidates(st) :
                  \A j \in LandCandidates(st) : i <= j
<1>4. c \in LandCandidates(st) /\ \A j \in LandCandidates(st) : c <= j
    BY <1>3
<1>5. pmmEntryLand(st) = st[c].base
    BY <1>1 DEF pmmEntryLand
<1> HIDE DEF c
<1>6. c \in DOMAIN st /\ pmm_isStUsable(st[c])
      /\ requiredFreeSize(st) <= st[c].length
    BY <1>1, <1>4, MapType, RequiredSize DEF LandCandidates
<1>7. MetaLen(st) <= st[c].length
  <2>1. OnPage(st[c].length) /\ st[c].length \in Nat
      BY <1>1, <1>6, MapType DEF IsMap, OnPage
  <2> QED
      BY <2>1, <1>1, <1>6, RequiredSize, RoundUpFirst DEF MetaLen
<1>8. ASSUME NEW j \in DOMAIN st, j # c
      PROVE  st[j].base # st[c].base
  <2>1. Apart(st[c], st[j])
      BY <1>1, <1>6, <1>8 DEF IsMap
  <2> QED
      BY <2>1, <1>1, <1>6, MapType DEF Apart
<1> QED
    BY <1>4, <1>5, <1>6, <1>7, <1>8 DEF Land

\* An entry made of a region begins in it and ends where its last page does;
\* what may be handed out or holds the table ends in usable memory.
From(x, r) ==
  /\ x \in Made
  /\ r.base <= x.base
  /\ End(x) <= RoundUp(End(r))
  /\ Ours(x) => pmm_isStUsable(r) /\ End(x) <= End(r)
  /\ x.type = "FREE" => End(x) = End(r)

Kept(t, r) ==
  \E i \in 1..Len(t) :
    /\ t[i].base = r.base
    /\ \/ t[i].type \in {"FREE", "META"} /\ End(t[i]) = End(r)
       \/ /\ t[i].type = "META"
          /\ i + 1 \in 1..Len(t)
          /\ t[i + 1] = Entry(End(t[i]), End(r) - End(t[i]), "FREE")

\* The region the table is in, when the table takes all of it and when not.
LEMMA LandEntries ==
  ASSUME MemoryMapAssumption, NEW st, Lands(st), NEW c, Land(st, c)
  PROVE  LET e == st[c]
             m == Entry(e.base, MetaLen(st), "META")
             f == Entry(End(m), End(e) - End(m), "FREE")
         IN /\ From(m, e)
            /\ \/ End(m) = End(e) /\ EntriesOfRegion(st, e) = <<m>>
               \/ End(m) < End(e) /\ From(f, e) /\ EntriesOfRegion(st, e) = <<m, f>>
            /\ OnPage(e.base) /\ OnPage(End(m)) /\ OnPage(End(e))
            /\ OnPage(m.length) /\ OnPage(f.length) /\ End(m) <= End(e)
<1> DEFINE e == st[c]
           m == Entry(e.base, MetaLen(st), "META")
           f == Entry(End(m), End(e) - End(m), "FREE")
           f0 == Entry(e.base + MetaLen(st), e.length - MetaLen(st), "FREE")
<1>1. /\ IsMap(st) /\ c \in DOMAIN st /\ pmm_isStUsable(e)
      /\ e.base = pmmEntryLand(st) /\ MetaLen(st) <= e.length
    BY DEF Lands, Land
<1>2. /\ e.base \in Nat /\ e.length \in Nat \ {0} /\ MetaLen(st) \in Nat \ {0}
      /\ End(e) = e.base + e.length /\ OnPage(MetaLen(st))
    BY <1>1, MapType, RequiredSize DEF End
<1>3. OnPage(e.base) /\ OnPage(e.length)
    BY <1>1 DEF IsMap, OnPage
<1>4. EntriesOfRegion(st, e) = <<m>> \o (IF MetaLen(st) < e.length THEN <<f0>> ELSE <<>>)
    BY <1>1 DEF EntriesOfRegion, MetaEntries, MetaLen
<1>5. m.base = e.base /\ m.length = MetaLen(st) /\ m.type = "META"
      /\ End(m) = e.base + MetaLen(st)
    BY DEF Entry, End
<1>6. f = f0
    BY <1>2, <1>5 DEF Entry
<1>7. f.base = End(m) /\ f.length = End(e) - End(m) /\ f.type = "FREE"
      /\ f.length = e.length - MetaLen(st)
    BY <1>2, <1>5 DEF Entry
<1>8. OnPage(End(m)) /\ OnPage(End(e)) /\ OnPage(f.length)
    BY <1>1, <1>2, <1>3, <1>5, <1>7, PageSums
<1>9. m \in Made
    BY <1>2 DEF Made, MadeType, Entry
<1>10. MetaLen(st) < e.length => f \in Made
  <2> SUFFICES ASSUME MetaLen(st) < e.length
               PROVE  f \in Made
      OBVIOUS
  <2>1. End(m) \in Nat /\ End(e) - End(m) \in Nat \ {0}
      BY <1>2, <1>5
  <2> QED
      BY <2>1 DEF Made, MadeType, Entry
<1>11. End(f) = f.base + f.length
    BY DEF End
<1> HIDE DEF m, f, f0, e
<1>12. End(e) <= RoundUp(End(e))
    BY <1>2, RoundUpFirst
<1>12a. RoundUp(End(e)) \in Nat
    BY <1>2, RoundUpFirst
<1>13. From(m, e)
    BY <1>1, <1>2, <1>5, <1>9, <1>12, <1>12a DEF From, Ours
<1>14. MetaLen(st) < e.length => From(f, e)
    BY <1>1, <1>2, <1>5, <1>7, <1>10, <1>11, <1>12, <1>12a DEF From, Ours
<1>15. CASE MetaLen(st) < e.length
  <2>0. <<m>> \o <<f>> = <<m, f>>
      BY PairOfCat
  <2>1. EntriesOfRegion(st, e) = <<m, f>>
      BY <1>4, <1>6, <1>15, <2>0
  <2> QED
      BY <2>1, <1>1, <1>2, <1>3, <1>5, <1>8, <1>13, <1>14, <1>15 DEF e, m, f
<1>16. CASE ~(MetaLen(st) < e.length)
  <2>1. EntriesOfRegion(st, e) = <<m>>
      BY <1>4, <1>16
  <2>2. End(m) = End(e)
      BY <1>1, <1>2, <1>5, <1>16
  <2> QED
      BY <2>1, <2>2, <1>1, <1>2, <1>3, <1>5, <1>8, <1>13, <1>16 DEF e, m, f
<1> QED
    BY <1>15, <1>16

\* Any other region: one entry, if it is counted.
LEMMA OtherEntries ==
  ASSUME MemoryMapAssumption, NEW st, Lands(st), NEW i \in DOMAIN st,
         st[i].base # pmmEntryLand(st)
  PROVE  LET e == st[i]
             x == Entry(e.base, entryLen(e), EntryType(e))
         IN /\ EntriesOfRegion(st, e) = IF pmm_isStCounted(e) THEN <<x>> ELSE <<>>
            /\ pmm_isStCounted(e) => From(x, e)
            /\ pmm_isStUsable(e) =>
                 pmm_isStCounted(e) /\ x.type = "FREE" /\ End(x) = End(e)
            /\ x.base = e.base /\ x.type # "META"
            /\ OnPage(e.base) /\ OnPage(e.length) => x.length = e.length
<1> DEFINE e == st[i]
           x == Entry(e.base, entryLen(e), EntryType(e))
<1>1. /\ IsMap(st) /\ e.base \in Nat /\ e.length \in Nat \ {0}
      /\ End(e) = e.base + e.length
    BY MapType DEF Lands, End
<1>2. EntriesOfRegion(st, e) = IF pmm_isStCounted(e) THEN <<x>> ELSE <<>>
    BY DEF EntriesOfRegion
<1>3. entryLen(e) \in Nat /\ e.base + entryLen(e) = RoundUp(End(e))
  <2>1. CASE OnPage(e.base)
    <3>1. entryLen(e) = RoundUp(e.length)
        BY <2>1 DEF entryLen, OnPage
    <3>2. RoundUp(e.base + e.length) = e.base + RoundUp(e.length)
        BY <1>1, <2>1, PageSums
    <3>3. RoundUp(e.length) \in Nat
        BY <1>1, RoundUpFirst
    <3> QED
        BY <3>1, <3>2, <3>3, <1>1
  <2>2. CASE ~OnPage(e.base)
    <3>1. entryLen(e) = RoundUp(e.length + e.base) - e.base
        BY <2>2 DEF entryLen, OnPage
    <3>2. e.length + e.base = End(e)
        BY <1>1
    <3>3. RoundUp(End(e)) \in Nat /\ End(e) <= RoundUp(End(e))
        BY <1>1, RoundUpFirst
    <3> QED
        BY <3>1, <3>2, <3>3, <1>1
  <2> QED
      BY <2>1, <2>2
<1>4. RoundUp(End(e)) \in Nat /\ End(e) <= RoundUp(End(e))
    BY <1>1, RoundUpFirst
<1>5. x.base = e.base /\ x.length = entryLen(e) /\ x.type = EntryType(e)
      /\ End(x) = RoundUp(End(e))
    BY <1>3 DEF Entry, End
<1>6. /\ EntryType(e) \in {"FREE", "USED", "RESERVED"}
      /\ EntryType(e) = "FREE" <=> pmm_isStUsable(e)
    BY DEF EntryType, pmm_isStUsable
<1>7. OnPage(e.base) /\ OnPage(e.length) =>
        entryLen(e) = e.length /\ End(x) = End(e)
  <2> SUFFICES ASSUME OnPage(e.base), OnPage(e.length)
               PROVE  entryLen(e) = e.length /\ End(x) = End(e)
      OBVIOUS
  <2>1. entryLen(e) = RoundUp(e.length)
      BY DEF entryLen, OnPage
  <2> QED
      BY <2>1, <1>1, <1>3, <1>5, PageSums
<1>8. pmm_isStUsable(e) => OnPage(e.base) /\ OnPage(e.length) /\ pmm_isStCounted(e)
    BY <1>1 DEF IsMap, OnPage, pmm_isStUsable, pmm_isStCounted
<1>9. x \in Made
  <2>1. entryLen(e) \in Nat \ {0}
      BY <1>1, <1>3, <1>4
  <2> QED
      BY <2>1, <1>1, <1>6 DEF Made, MadeType, Entry
<1> HIDE DEF x, e
<1>10. From(x, e)
    BY <1>1, <1>4, <1>5, <1>6, <1>7, <1>8, <1>9 DEF From, Ours
<1> QED
    BY <1>2, <1>5, <1>6, <1>7, <1>8, <1>10 DEF x, e

\* All of it, region by region, for the induction.
RegionFacts(st, e, es) ==
  /\ es \in Seq(Made)
  /\ \A k \in 1..Len(es) : From(es[k], e)
  /\ \A k, l \in 1..Len(es) : k < l => End(es[k]) <= es[l].base
  /\ pmm_isStUsable(e) => Kept(es, e)
  /\ Len(es) <= (IF pmm_isStCounted(e) THEN 1 ELSE 0)
                  + (IF e.base = pmmEntryLand(st) THEN 1 ELSE 0)
  /\ e.base = pmmEntryLand(st) =>
       Len(es) >= 1 /\ es[1] = Entry(e.base, MetaLen(st), "META")
  /\ \A k \in 1..Len(es) : es[k].type = "META" =>
       e.base = pmmEntryLand(st) /\ es[k] = Entry(e.base, MetaLen(st), "META")
  /\ OnPage(e.base) /\ OnPage(e.length) =>
       \A k \in 1..Len(es) : OnPage(es[k].base) /\ OnPage(es[k].length)

LEMMA RegionEntries ==
  ASSUME MemoryMapAssumption, NEW st, Lands(st), NEW i \in DOMAIN st
  PROVE  RegionFacts(st, st[i], EntriesOfRegion(st, st[i]))
<1> DEFINE e == st[i]
           es == EntriesOfRegion(st, e)
<1>1. PICK c \in DOMAIN st : Land(st, c)
    BY LandRegion
<1>2. /\ e.base \in Nat /\ End(e) \in Nat
    BY MapType DEF Lands
<1>3. CASE i = c
  <2> DEFINE m == Entry(e.base, MetaLen(st), "META")
             f == Entry(End(m), End(e) - End(m), "FREE")
  <2>1. /\ From(m, e)
        /\ \/ End(m) = End(e) /\ es = <<m>>
           \/ End(m) < End(e) /\ From(f, e) /\ es = <<m, f>>
        /\ OnPage(e.base) /\ OnPage(End(m)) /\ OnPage(m.length) /\ OnPage(f.length)
      BY <1>1, <1>3, LandEntries
  <2>2. m.base = e.base /\ m.type = "META" /\ f.base = End(m) /\ f.type = "FREE"
      BY DEF Entry
  <2>3. /\ e.base = pmmEntryLand(st) /\ pmm_isStUsable(e) /\ pmm_isStCounted(e)
      BY <1>1, <1>3 DEF Land, pmm_isStUsable, pmm_isStCounted
  <2>4. m = Entry(e.base, MetaLen(st), "META")
        /\ f = Entry(End(m), End(e) - End(m), "FREE")
      OBVIOUS
  <2>4a. End(m) = m.base + m.length
      BY DEF End
  <2> HIDE DEF m, f, es
  <2>5. CASE End(m) = End(e) /\ es = <<m>>
    <3>0. m \in Made
        BY <2>1 DEF From
    <3>1. es \in Seq(Made) /\ Len(es) = 1 /\ es[1] = m
        BY <3>0, <2>5
    <3>2. Kept(es, e)
        BY <3>1, <2>2, <2>5 DEF Kept
    <3> QED
        BY <3>1, <3>2, <2>1, <2>2, <2>3, <2>4 DEF RegionFacts, es
  <2>6. CASE End(m) < End(e) /\ From(f, e) /\ es = <<m, f>>
    <3>0. m \in Made /\ f \in Made
        BY <2>1, <2>6 DEF From
    <3>1. es \in Seq(Made) /\ Len(es) = 2 /\ es[1] = m /\ es[2] = f
        BY <3>0, <2>6
    <3>2. Kept(es, e)
        BY <3>1, <2>2, <2>4 DEF Kept
    <3>3. m.base \in Nat /\ m.length \in Nat /\ End(m) \in Nat
        BY <3>0, <2>4a DEF Made
    <3>4. \A k \in 1..Len(es) : k = 1 \/ k = 2
        BY <3>1
    <3>5. \A k \in 1..Len(es) : From(es[k], e)
        BY <3>1, <3>4, <2>1, <2>6
    <3>6. \A k, l \in 1..Len(es) : k < l => End(es[k]) <= es[l].base
      <4> SUFFICES ASSUME NEW k \in 1..Len(es), NEW l \in 1..Len(es), k < l
                   PROVE  k = 1 /\ l = 2
          BY <3>1, <3>3, <2>2
      <4> QED
          BY <3>1
    <3>7. \A k \in 1..Len(es) : OnPage(es[k].base) /\ OnPage(es[k].length)
        BY <3>1, <3>4, <2>1, <2>2
    <3> QED
        BY <3>1, <3>2, <3>5, <3>6, <3>7, <2>1, <2>2, <2>3, <2>4 DEF RegionFacts, es
  <2> QED
      BY <2>1, <2>5, <2>6
<1>4. CASE i # c
  <2> DEFINE x == Entry(e.base, entryLen(e), EntryType(e))
  <2>1. e.base # pmmEntryLand(st)
      BY <1>1, <1>4 DEF Land
  <2>2. /\ es = IF pmm_isStCounted(e) THEN <<x>> ELSE <<>>
        /\ pmm_isStCounted(e) => From(x, e)
        /\ pmm_isStUsable(e) =>
             pmm_isStCounted(e) /\ x.type = "FREE" /\ End(x) = End(e)
        /\ x.base = e.base /\ x.type # "META"
        /\ OnPage(e.base) /\ OnPage(e.length) => x.length = e.length
      BY <2>1, OtherEntries
  <2> HIDE DEF x, es
  <2>3. CASE pmm_isStCounted(e)
    <3>0. x \in Made
        BY <2>2, <2>3 DEF From
    <3>1. es \in Seq(Made) /\ Len(es) = 1 /\ es[1] = x
        BY <3>0, <2>2, <2>3
    <3>2. pmm_isStUsable(e) => Kept(es, e)
        BY <3>1, <2>2 DEF Kept
    <3> QED
        BY <3>1, <3>2, <2>1, <2>2, <2>3 DEF RegionFacts, es
  <2>4. CASE ~pmm_isStCounted(e)
    <3>1. es \in Seq(Made) /\ Len(es) = 0
        BY <2>2, <2>4
    <3> QED
        BY <3>1, <2>1, <2>2, <2>4 DEF RegionFacts, es
  <2> QED
      BY <2>3, <2>4
<1> QED
    BY <1>3, <1>4

-----------------------------------------------------------------------------
(* The table after n regions.                                              *)

Joined(t, es, u) ==
  /\ u \in Seq(Made) /\ Len(u) = Len(t) + Len(es)
  /\ Len(t) \in Nat /\ Len(es) \in Nat
  /\ \A k \in 1..Len(t) : u[k] = t[k]
  /\ \A k \in 1..Len(es) : u[Len(t) + k] = es[k]
  /\ \A k \in 1..Len(u) : k \in 1..Len(t)
                           \/ (k - Len(t) \in 1..Len(es) /\ u[k] = es[k - Len(t)])

LEMMA JoinedCat ==
  ASSUME NEW t \in Seq(Made), NEW es \in Seq(Made)
  PROVE  Joined(t, es, t \o es)
<1> DEFINE u == t \o es
<1>1. /\ u \in Seq(Made) /\ Len(u) = Len(t) + Len(es)
      /\ \A k \in 1..(Len(t) + Len(es)) :
           u[k] = IF k <= Len(t) THEN t[k] ELSE es[k - Len(t)]
    BY ConcatProperties
<1>2. Len(t) \in Nat /\ Len(es) \in Nat
    OBVIOUS
<1> HIDE DEF u
<1>3. \A k \in 1..Len(t) : u[k] = t[k]
    BY <1>1, <1>2
<1>4. ASSUME NEW k \in 1..Len(es)
      PROVE  u[Len(t) + k] = es[k]
  <2>1. Len(t) + k \in 1..(Len(t) + Len(es)) /\ ~(Len(t) + k <= Len(t))
        /\ (Len(t) + k) - Len(t) = k
      BY <1>2
  <2> QED
      BY <2>1, <1>1
<1>5. ASSUME NEW k \in 1..Len(u), k \notin 1..Len(t)
      PROVE  k - Len(t) \in 1..Len(es) /\ u[k] = es[k - Len(t)]
  <2>1. k \in 1..(Len(t) + Len(es)) /\ ~(k <= Len(t))
      BY <1>1, <1>2, <1>5
  <2> QED
      BY <2>1, <1>1, <1>2
<1> QED
    BY <1>1, <1>2, <1>3, <1>4, <1>5 DEF Joined, u

\* Where the entries come from, that those of usable memory are alone, what
\* is kept, and where the table is.
Sound(st, n, t) ==
  /\ t \in Seq(Made)
  /\ \A k \in 1..Len(t) : \E i \in 1..n : From(t[k], st[i])
  /\ \A k, l \in 1..Len(t) : k # l /\ Ours(t[k]) => Apart(t[k], t[l])
  /\ \A i \in 1..n : pmm_isStUsable(st[i]) => Kept(t, st[i])
  /\ \A i \in 1..n : st[i].base = pmmEntryLand(st) =>
       \E k \in 1..Len(t) : t[k] = Entry(pmmEntryLand(st), MetaLen(st), "META")
  /\ \A k \in 1..Len(t) : t[k].type = "META" =>
       t[k] = Entry(pmmEntryLand(st), MetaLen(st), "META")

\* Entries made of two regions, one of them usable, do not overlap.
LEMMA FromApart ==
  ASSUME MemoryMapAssumption, NEW st, IsMap(st),
         NEW i \in DOMAIN st, NEW j \in DOMAIN st, i # j,
         NEW x, From(x, st[i]), NEW y, From(y, st[j]), Ours(x)
  PROVE  Apart(x, y) /\ Apart(y, x)
<1> DEFINE r == st[i]
           q == st[j]
<1>1. pmm_isStUsable(r) /\ r.base <= x.base /\ End(x) <= End(r)
    BY DEF From
<1>2. q.base <= y.base /\ End(y) <= RoundUp(End(q))
    BY DEF From
<1>3. OnPage(r.base) /\ Apart(r, q)
    BY <1>1 DEF IsMap, OnPage
<1>4. r.base \in Nat /\ q.base \in Nat /\ End(r) \in Nat /\ End(q) \in Nat
    BY MapType
<1>5. x.base \in Nat /\ y.base \in Nat /\ End(x) \in Nat /\ End(y) \in Nat
    BY DEF From, Made, End
<1>6. RoundUp(End(q)) \in Nat
    BY <1>4, RoundUpFirst
<1>7. CASE End(r) <= q.base
    BY <1>1, <1>2, <1>4, <1>5, <1>7 DEF Apart
<1>8. CASE End(q) <= r.base
  <2>1. RoundUp(End(q)) <= r.base
      BY <1>3, <1>4, <1>8, RoundUpFirst
  <2> QED
      BY <2>1, <1>1, <1>2, <1>4, <1>5, <1>6 DEF Apart
<1> QED
    BY <1>3, <1>7, <1>8 DEF Apart

LEMMA KeptLonger ==
  ASSUME NEW t, NEW es, NEW u, NEW r, Joined(t, es, u)
  PROVE  /\ Kept(t, r) => Kept(u, r)
         /\ Kept(es, r) => Kept(u, r)
<1>1. ASSUME Kept(t, r) PROVE Kept(u, r)
  <2>1. PICK i \in 1..Len(t) :
          /\ t[i].base = r.base
          /\ \/ t[i].type \in {"FREE", "META"} /\ End(t[i]) = End(r)
             \/ /\ t[i].type = "META"
                /\ i + 1 \in 1..Len(t)
                /\ t[i + 1] = Entry(End(t[i]), End(r) - End(t[i]), "FREE")
      BY <1>1 DEF Kept
  <2>2. i \in 1..Len(u) /\ u[i] = t[i]
        /\ (i + 1 \in 1..Len(t) => i + 1 \in 1..Len(u) /\ u[i + 1] = t[i + 1])
      BY DEF Joined
  <2> QED
      BY <2>1, <2>2 DEF Kept
<1>2. ASSUME Kept(es, r) PROVE Kept(u, r)
  <2>1. PICK i \in 1..Len(es) :
          /\ es[i].base = r.base
          /\ \/ es[i].type \in {"FREE", "META"} /\ End(es[i]) = End(r)
             \/ /\ es[i].type = "META"
                /\ i + 1 \in 1..Len(es)
                /\ es[i + 1] = Entry(End(es[i]), End(r) - End(es[i]), "FREE")
      BY <1>2 DEF Kept
  <2> DEFINE j == Len(t) + i
  <2>2. j \in 1..Len(u) /\ u[j] = es[i]
      BY DEF Joined
  <2>3. i + 1 \in 1..Len(es) => j + 1 \in 1..Len(u) /\ u[j + 1] = es[i + 1]
    <3>1. j + 1 = Len(t) + (i + 1)
        BY DEF Joined
    <3> QED
        BY <3>1 DEF Joined
  <2> HIDE DEF j
  <2> QED
      BY <2>1, <2>2, <2>3 DEF Kept
<1> QED
    BY <1>1, <1>2

LEMMA SoundStep ==
  ASSUME MemoryMapAssumption, NEW st, Lands(st), NEW n \in 1..Len(st),
         NEW t, Sound(st, n - 1, t),
         NEW es, RegionFacts(st, st[n], es), NEW u, Joined(t, es, u)
  PROVE  Sound(st, n, u)
<1> DEFINE e == st[n]
<1>1. IsMap(st) /\ Len(st) \in Nat /\ DOMAIN st = 1..Len(st)
    BY MapType DEF Lands
<1>2. /\ u \in Seq(Made)
      /\ \A k \in 1..Len(t) : u[k] = t[k] /\ k \in 1..Len(u)
      /\ \A k \in 1..Len(es) : u[Len(t) + k] = es[k] /\ Len(t) + k \in 1..Len(u)
      /\ \A k \in 1..Len(u) : k \in 1..Len(t)
                               \/ (k - Len(t) \in 1..Len(es) /\ u[k] = es[k - Len(t)])
      /\ Len(t) \in Nat /\ Len(es) \in Nat
    BY DEF Joined
<1>3. n - 1 \in Nat /\ 1..(n - 1) \subseteq 1..n /\ n \in 1..n
      /\ \A i \in 1..n : i \in 1..(n - 1) \/ i = n
    BY <1>1
<1>4. 1..n \subseteq DOMAIN st
    BY <1>1
<1>5. ASSUME NEW k \in 1..Len(u)
      PROVE  \E i \in 1..n : From(u[k], st[i])
  <2>1. CASE k \in 1..Len(t)
    <3>1. PICK i \in 1..(n - 1) : From(t[k], st[i])
        BY <2>1 DEF Sound
    <3> QED
        BY <3>1, <2>1, <1>2, <1>3
  <2>2. CASE k - Len(t) \in 1..Len(es) /\ u[k] = es[k - Len(t)]
    <3>1. From(es[k - Len(t)], e)
        BY <2>2 DEF RegionFacts
    <3> QED
        BY <3>1, <2>2, <1>3
  <2> QED
      BY <2>1, <2>2, <1>2
<1>6. ASSUME NEW k \in 1..Len(u), NEW l \in 1..Len(u), k # l, Ours(u[k])
      PROVE  Apart(u[k], u[l])
  <2>1. CASE k \in 1..Len(t) /\ l \in 1..Len(t)
      BY <2>1, <1>2, <1>6 DEF Sound
  <2>2. CASE k \in 1..Len(t) /\ l \notin 1..Len(t)
    <3>1. PICK i \in 1..(n - 1) : From(t[k], st[i])
        BY <2>2 DEF Sound
    <3>2. From(es[l - Len(t)], e) /\ u[l] = es[l - Len(t)] /\ u[k] = t[k]
        BY <2>2, <1>2 DEF RegionFacts
    <3>3. i \in DOMAIN st /\ n \in DOMAIN st /\ i # n
        BY <1>1, <1>3, <1>4
    <3> QED
        BY <3>1, <3>2, <3>3, <1>1, <1>6, FromApart
  <2>3. CASE k \notin 1..Len(t) /\ l \in 1..Len(t)
    <3>1. PICK i \in 1..(n - 1) : From(t[l], st[i])
        BY <2>3 DEF Sound
    <3>2. From(es[k - Len(t)], e) /\ u[k] = es[k - Len(t)] /\ u[l] = t[l]
        BY <2>3, <1>2 DEF RegionFacts
    <3>3. i \in DOMAIN st /\ n \in DOMAIN st /\ i # n
        BY <1>1, <1>3, <1>4
    <3> QED
        BY <3>1, <3>2, <3>3, <1>1, <1>6, FromApart
  <2>4. CASE k \notin 1..Len(t) /\ l \notin 1..Len(t)
    <3> DEFINE a == k - Len(t)
               b == l - Len(t)
    <3>1. a \in 1..Len(es) /\ b \in 1..Len(es) /\ u[k] = es[a] /\ u[l] = es[b]
        BY <2>4, <1>2
    <3>2. a < b \/ b < a
        BY <1>2, <1>6
    <3> HIDE DEF a, b
    <3>3. End(es[a]) <= es[b].base \/ End(es[b]) <= es[a].base
        BY <3>1, <3>2 DEF RegionFacts
    <3> QED
        BY <3>1, <3>3 DEF Apart
  <2> QED
      BY <2>1, <2>2, <2>3, <2>4
<1>7. ASSUME NEW i \in 1..n, pmm_isStUsable(st[i])
      PROVE  Kept(u, st[i])
  <2>1. CASE i \in 1..(n - 1)
      BY <2>1, <1>7, KeptLonger DEF Sound
  <2>2. CASE i = n
      BY <2>2, <1>7, KeptLonger DEF RegionFacts
  <2> QED
      BY <2>1, <2>2, <1>3
<1>8. ASSUME NEW i \in 1..n, st[i].base = pmmEntryLand(st)
      PROVE  \E k \in 1..Len(u) : u[k] = Entry(pmmEntryLand(st), MetaLen(st), "META")
  <2>1. CASE i \in 1..(n - 1)
    <3>1. PICK k \in 1..Len(t) : t[k] = Entry(pmmEntryLand(st), MetaLen(st), "META")
        BY <2>1, <1>8 DEF Sound
    <3> QED
        BY <3>1, <1>2
  <2>2. CASE i = n
    <3>1. 1 \in 1..Len(es) /\ es[1] = Entry(pmmEntryLand(st), MetaLen(st), "META")
        BY <2>2, <1>2, <1>8 DEF RegionFacts
    <3> QED
        BY <3>1, <1>2
  <2> QED
      BY <2>1, <2>2, <1>3
<1>9. ASSUME NEW k \in 1..Len(u), u[k].type = "META"
      PROVE  u[k] = Entry(pmmEntryLand(st), MetaLen(st), "META")
  <2>1. CASE k \in 1..Len(t)
      BY <2>1, <1>2, <1>9 DEF Sound
  <2>2. CASE k - Len(t) \in 1..Len(es) /\ u[k] = es[k - Len(t)]
      BY <2>2, <1>9 DEF RegionFacts
  <2> QED
      BY <2>1, <2>2, <1>2
<1> QED
    BY <1>2, <1>5, <1>6, <1>7, <1>8, <1>9 DEF Sound

LEMMA SoundTable ==
  ASSUME MemoryMapAssumption, NEW st, Lands(st)
  PROVE  \A n \in 0..Len(st) : Sound(st, n, Filled(st)[n])
<1> DEFINE S == {n \in 0..Len(st) : Sound(st, n, Filled(st)[n])}
<1>1. Len(st) \in Nat /\ DOMAIN st = 1..Len(st)
    BY MapType DEF Lands
<1>2. 0 \in S
  <2>1. Filled(st)[0] = <<>>
      BY <1>1, FilledStep
  <2>2. Sound(st, 0, <<>>)
    <3>1. <<>> \in Seq(Made) /\ 1..Len(<<>>) = {} /\ 1..0 = {}
        OBVIOUS
    <3> QED
        BY <3>1 DEF Sound
  <2> QED
      BY <2>1, <2>2, <1>1
<1>3. ASSUME NEW n \in 0..(Len(st) - 1), n \in S
      PROVE  n + 1 \in S
  <2> DEFINE m == n + 1
             t == Filled(st)[n]
             es == EntriesOfRegion(st, st[m])
             u == Filled(st)[m]
  <2>1. m \in 1..Len(st) /\ m - 1 = n /\ m \in 0..Len(st)
      BY <1>1
  <2>2. u = t \o es
      BY <1>1, <2>1, FilledStep
  <2>3. Sound(st, m - 1, t)
      BY <1>3, <2>1
  <2>4. RegionFacts(st, st[m], es)
      BY <1>1, <2>1, RegionEntries
  <2> HIDE DEF t, es, u, m
  <2>5. Joined(t, es, u)
      BY <2>2, <2>3, <2>4, JoinedCat DEF Sound, RegionFacts
  <2>6. Sound(st, m, u)
      BY <2>1, <2>3, <2>4, <2>5, SoundStep
  <2> QED
      BY <2>1, <2>6 DEF m, u
<1> HIDE DEF S
<1>4. 0..Len(st) \subseteq S
    BY <1>1, <1>2, <1>3, Reaches
<1> QED
    BY <1>4 DEF S

\* The step of the loop, for the other inductions.
LEMMA TableStep ==
  ASSUME MemoryMapAssumption, NEW st, Lands(st), NEW n \in 1..Len(st)
  PROVE  LET t == Filled(st)[n - 1]
             es == EntriesOfRegion(st, st[n])
             u == Filled(st)[n]
         IN Joined(t, es, u) /\ RegionFacts(st, st[n], es) /\ Sound(st, n - 1, t)
<1>1. Len(st) \in Nat /\ DOMAIN st = 1..Len(st)
    BY MapType DEF Lands
<1>2. n - 1 \in 0..Len(st) /\ n \in DOMAIN st
    BY <1>1
<1>3. Filled(st)[n] = Filled(st)[n - 1] \o EntriesOfRegion(st, st[n])
    BY <1>1, FilledStep
<1>4. Sound(st, n - 1, Filled(st)[n - 1])
    BY <1>2, SoundTable
<1>5. RegionFacts(st, st[n], EntriesOfRegion(st, st[n]))
    BY <1>2, RegionEntries
<1> QED
    BY <1>3, <1>4, <1>5, JoinedCat DEF Sound, RegionFacts

CountedBefore(st, n) == {i \in 1..n : pmm_isStCounted(st[i])}
LandsBefore(st, n) == \E i \in 1..n : st[i].base = pmmEntryLand(st)

\* At most an entry for each counted region, and one more for the table.
LEMMA TableLength ==
  ASSUME MemoryMapAssumption, NEW st, Lands(st)
  PROVE  Len(Filled(st)[Len(st)]) + 3 <= requiredNumEntries(st)
<1> DEFINE N == Len(st)
           Bound(n) == Cardinality(CountedBefore(st, n))
                         + (IF LandsBefore(st, n) THEN 1 ELSE 0)
           S == {n \in 0..N : Len(Filled(st)[n]) <= Bound(n)}
<1>1. IsMap(st) /\ N \in Nat /\ DOMAIN st = 1..N
    BY MapType DEF Lands
<1>2. 0 \in S
  <2>1. Filled(st)[0] = <<>>
      BY <1>1, FilledStep
  <2>2. CountedBefore(st, 0) = {}
      BY DEF CountedBefore
  <2>3. Bound(0) \in Nat
      BY <2>2, FS_EmptySet
  <2> QED
      BY <2>1, <2>3, <1>1
<1>3. ASSUME NEW n \in 0..(N - 1), n \in S
      PROVE  n + 1 \in S
  <2> DEFINE m == n + 1
             t == Filled(st)[n]
             es == EntriesOfRegion(st, st[m])
             u == Filled(st)[m]
             here == IF pmm_isStCounted(st[m]) THEN 1 ELSE 0
             land == IF st[m].base = pmmEntryLand(st) THEN 1 ELSE 0
  <2>1. m \in 1..N /\ m - 1 = n /\ m \in 0..N
      BY <1>1
  <2>2. Joined(t, es, u) /\ RegionFacts(st, st[m], es)
      BY <2>1, TableStep
  <2>3. Len(u) = Len(t) + Len(es) /\ Len(t) \in Nat /\ Len(es) \in Nat
      BY <2>2 DEF Joined
  <2>4. Len(es) <= here + land
      BY <2>2 DEF RegionFacts
  <2>5. Len(t) <= Bound(n)
      BY <1>3
  <2>6. /\ Cardinality(CountedBefore(st, n)) \in Nat
        /\ Cardinality(CountedBefore(st, m))
             = Cardinality(CountedBefore(st, n)) + here
    <3>1. IsFiniteSet(CountedBefore(st, n))
      <4>1. CountedBefore(st, n) \in SUBSET (1..n) /\ IsFiniteSet(1..n)
          BY FS_Interval DEF CountedBefore
      <4> QED
          BY <4>1, FS_Subset
    <3>2. m \notin CountedBefore(st, n)
          /\ CountedBefore(st, m) = IF pmm_isStCounted(st[m])
                                      THEN CountedBefore(st, n) \cup {m}
                                      ELSE CountedBefore(st, n)
        BY <2>1 DEF CountedBefore
    <3>3. /\ Cardinality(CountedBefore(st, n)) \in Nat
          /\ Cardinality(CountedBefore(st, n) \cup {m})
               = Cardinality(CountedBefore(st, n)) + 1
        BY <3>1, <3>2, FS_AddElement, FS_CardinalityType
    <3> QED
        BY <3>2, <3>3
  <2>7. (IF LandsBefore(st, n) THEN 1 ELSE 0) + land
          <= (IF LandsBefore(st, m) THEN 1 ELSE 0)
    <3>1. PICK c \in DOMAIN st : Land(st, c)
        BY LandRegion
    <3>2. LandsBefore(st, n) => ~(st[m].base = pmmEntryLand(st))
      <4> SUFFICES ASSUME NEW i \in 1..n, st[i].base = pmmEntryLand(st),
                          st[m].base = pmmEntryLand(st)
                   PROVE  FALSE
          BY DEF LandsBefore
      <4>1. i \in DOMAIN st /\ m \in DOMAIN st /\ i # m
          BY <1>1, <2>1
      <4> QED
          BY <4>1, <3>1 DEF Land
    <3>3. LandsBefore(st, n) \/ st[m].base = pmmEntryLand(st) => LandsBefore(st, m)
      <4>1. 1..n \subseteq 1..m /\ m \in 1..m
          BY <2>1
      <4> QED
          BY <4>1 DEF LandsBefore
    <3> QED
        BY <3>2, <3>3
  <2> HIDE DEF m, t, es, u, here, land
  <2>8. here \in Nat /\ land \in Nat
      BY DEF here, land
  <2>9. Len(u) <= Bound(m)
      BY <2>3, <2>4, <2>5, <2>6, <2>7, <2>8
  <2> QED
      BY <2>1, <2>9 DEF m, u
<1>4. N \in S
  <2> HIDE DEF S
  <2>1. 0..N \subseteq S
      BY <1>1, <1>2, <1>3, Reaches
  <2> QED
      BY <2>1, <1>1
<1>5. CountedBefore(st, N) = {i \in DOMAIN st : pmm_isStCounted(st[i])}
    BY <1>1 DEF CountedBefore
<1>6. requiredNumEntries(st) = 4 + Cardinality(CountedBefore(st, N))
    BY <1>5 DEF requiredNumEntries
<1>7. Sound(st, N, Filled(st)[N])
    BY <1>1, SoundTable
<1>8. Len(Filled(st)[N]) \in Nat /\ requiredNumEntries(st) \in Nat
    BY <1>1, <1>7, RequiredSize DEF Sound
<1>9. Cardinality(CountedBefore(st, N)) \in Nat
  <2>1. IsFiniteSet(1..N) /\ CountedBefore(st, N) \in SUBSET (1..N)
      BY <1>1, FS_Interval DEF CountedBefore
  <2> QED
      BY <2>1, FS_Subset, FS_CardinalityType
<1> QED
    BY <1>4, <1>6, <1>8, <1>9

-----------------------------------------------------------------------------
(* Maps of whole pages.                                                    *)

Ordered(t) == \A k, l \in 1..Len(t) : k < l => End(t[k]) <= t[l].base
InPages(t) == \A k \in 1..Len(t) : OnPage(t[k].base) /\ OnPage(t[k].length)

LEMMA OrderedTable ==
  ASSUME MemoryMapAssumption, NEW st, Lands(st), WholePages(st)
  PROVE  LET t == Filled(st)[Len(st)] IN Ordered(t) /\ InPages(t)
<1> DEFINE N == Len(st)
           S == {n \in 0..N : Ordered(Filled(st)[n]) /\ InPages(Filled(st)[n])}
<1>1. IsMap(st) /\ N \in Nat /\ DOMAIN st = 1..N
    BY MapType DEF Lands
<1>2. 0 \in S
  <2>1. Filled(st)[0] = <<>>
      BY <1>1, FilledStep
  <2>2. 1..Len(<<>>) = {}
      OBVIOUS
  <2> QED
      BY <2>1, <2>2, <1>1 DEF Ordered, InPages
<1>3. ASSUME NEW n \in 0..(N - 1), n \in S
      PROVE  n + 1 \in S
  <2> DEFINE m == n + 1
             t == Filled(st)[n]
             es == EntriesOfRegion(st, st[m])
             u == Filled(st)[m]
             e == st[m]
  <2>1. m \in 1..N /\ m - 1 = n /\ m \in 0..N /\ m \in DOMAIN st
      BY <1>1
  <2>2. Joined(t, es, u) /\ RegionFacts(st, e, es) /\ Sound(st, n, t)
      BY <2>1, TableStep
  <2>3. Ordered(t) /\ InPages(t)
      BY <1>3
  <2>4. OnPage(e.base) /\ OnPage(e.length)
      BY <2>1 DEF WholePages, OnPage
  <2> HIDE DEF t, es, u, m, e
  <2>5. /\ \A k \in 1..Len(t) : u[k] = t[k]
        /\ \A k \in 1..Len(u) :
             \/ k \in 1..Len(t)
             \/ k - Len(t) \in 1..Len(es) /\ u[k] = es[k - Len(t)]
        /\ Len(t) \in Nat /\ Len(es) \in Nat
      BY <2>2 DEF Joined
  <2>6. InPages(u)
    <3> SUFFICES ASSUME NEW k \in 1..Len(u)
                 PROVE  OnPage(u[k].base) /\ OnPage(u[k].length)
        BY DEF InPages
    <3>1. CASE k \in 1..Len(t)
        BY <3>1, <2>3, <2>5 DEF InPages
    <3>2. CASE k - Len(t) \in 1..Len(es) /\ u[k] = es[k - Len(t)]
        BY <3>2, <2>2, <2>4 DEF RegionFacts
    <3> QED
        BY <3>1, <3>2, <2>5
  <2>7. Ordered(u)
    <3> SUFFICES ASSUME NEW k \in 1..Len(u), NEW l \in 1..Len(u), k < l
                 PROVE  End(u[k]) <= u[l].base
        BY DEF Ordered
    <3>1. CASE l \in 1..Len(t)
      <4>1. k \in 1..Len(t)
          BY <3>1, <2>5
      <4> QED
          BY <4>1, <3>1, <2>3, <2>5 DEF Ordered
    <3>2. CASE l \notin 1..Len(t) /\ k \in 1..Len(t)
      <4>1. PICK i \in 1..n : From(t[k], st[i])
          BY <3>2, <2>2 DEF Sound
      <4>2. i \in DOMAIN st /\ i < m /\ m \in DOMAIN st
          BY <1>1, <2>1
      <4>3. End(st[i]) <= e.base
          BY <4>2 DEF WholePages, e
      <4>4. OnPage(End(st[i])) /\ End(st[i]) \in Nat
        <5>1. /\ OnPage(st[i].base) /\ OnPage(st[i].length)
              /\ st[i].base \in Nat /\ st[i].length \in Nat
            BY <4>2, <1>1, MapType DEF WholePages, OnPage
        <5>2. OnPage(st[i].base + st[i].length)
            BY <5>1, PageSums
        <5> QED
            BY <5>1, <5>2 DEF End
      <4>5. RoundUp(End(st[i])) = End(st[i])
        <5>1. End(st[i]) + 0 = End(st[i])
            BY <4>4
        <5> QED
            BY <4>4, PageSums
      <4>6. End(t[k]) <= End(st[i]) /\ End(t[k]) \in Nat
          BY <4>1, <4>5 DEF From, Made, End
      <4>7. From(u[l], e)
          BY <3>2, <2>2, <2>5 DEF RegionFacts
      <4>8. e.base <= u[l].base /\ u[l].base \in Nat /\ e.base \in Nat
          BY <4>2, <4>7, <1>1, MapType DEF From, Made, e
      <4>9. End(u[k]) = End(t[k])
          BY <3>2, <2>5
      <4> QED
          BY <4>3, <4>4, <4>6, <4>8, <4>9
    <3>3. CASE l \notin 1..Len(t) /\ k \notin 1..Len(t)
      <4> DEFINE a == k - Len(t)
                 b == l - Len(t)
      <4>1. a \in 1..Len(es) /\ b \in 1..Len(es) /\ u[k] = es[a] /\ u[l] = es[b]
          BY <3>3, <2>5
      <4>2. a < b
          BY <2>5
      <4> HIDE DEF a, b
      <4> QED
          BY <4>1, <4>2, <2>2 DEF RegionFacts
    <3> QED
        BY <3>1, <3>2, <3>3
  <2> QED
      BY <2>1, <2>6, <2>7 DEF m, u
<1>4. 0..N \subseteq S
  <2> HIDE DEF S
  <2> QED
      BY <1>1, <1>2, <1>3, Reaches
<1> QED
    BY <1>1, <1>4

\* The first usable region is long enough for the table.
LandsFirst(st) ==
  \A i \in DOMAIN st : pmm_isStUsable(st[i]) => \E j \in LandCandidates(st) : j <= i

\* Then no free entry comes before the table's own.
LEMMA FirstNotFree ==
  ASSUME MemoryMapAssumption, NEW st, Lands(st), LandsFirst(st)
  PROVE  LET t == Filled(st)[Len(st)] IN t[1].type # "FREE"
<1> DEFINE N == Len(st)
           Kind(t) == Len(t) >= 1 => t[1].type # "FREE"
           S == {n \in 0..N : Kind(Filled(st)[n])}
<1>1. IsMap(st) /\ N \in Nat /\ DOMAIN st = 1..N
    BY MapType DEF Lands
<1>2. PICK c \in DOMAIN st : Land(st, c)
    BY LandRegion
<1>3. 0 \in S
  <2>1. Filled(st)[0] = <<>> /\ Len(<<>>) = 0
      BY <1>1, FilledStep
  <2> QED
      BY <2>1, <1>1
<1>4. ASSUME NEW n \in 0..(N - 1), n \in S
      PROVE  n + 1 \in S
  <2> DEFINE m == n + 1
             t == Filled(st)[n]
             es == EntriesOfRegion(st, st[m])
             u == Filled(st)[m]
  <2>1. m \in 1..N /\ m - 1 = n /\ m \in 0..N /\ m \in DOMAIN st
      BY <1>1
  <2>2. Joined(t, es, u) /\ RegionFacts(st, st[m], es) /\ Sound(st, n, t)
      BY <2>1, TableStep
  <2>3. Len(t) >= 1 => t[1].type # "FREE"
      BY <1>4
  <2> HIDE DEF t, es, u
  <2>4. Len(u) >= 1 => u[1].type # "FREE"
    <3> SUFFICES ASSUME Len(u) >= 1, u[1].type = "FREE"
                 PROVE  FALSE
        OBVIOUS
    <3>0. Len(t) \in Nat /\ Len(es) \in Nat /\ Len(u) \in Nat
        BY <2>2 DEF Joined
    <3>1. Len(t) = 0
      <4>1. Len(t) >= 1 => u[1] = t[1]
          BY <2>2 DEF Joined
      <4> QED
          BY <4>1, <3>0, <2>3
    <3>2. 1 \in 1..Len(es) /\ u[1] = es[1]
      <4>1. 1 \in 1..Len(u) /\ 1 \notin 1..Len(t) /\ 1 - Len(t) = 1
          BY <3>0, <3>1
      <4> QED
          BY <4>1, <2>2 DEF Joined
    <3>3. From(es[1], st[m])
        BY <3>2, <2>2 DEF RegionFacts
    <3>4. pmm_isStUsable(st[m])
        BY <3>2, <3>3 DEF From, Ours
    <3>5. PICK j \in LandCandidates(st) : j <= m
        BY <3>4, <2>1 DEF LandsFirst
    <3>6. c <= m
      <4>1. c <= j /\ j \in 1..N
          BY <1>1, <1>2, <3>5 DEF Land, LandCandidates
      <4> QED
          BY <4>1, <3>5, <1>1, <2>1
    <3>7. CASE c = m
      <4>1. es[1] = Entry(st[m].base, MetaLen(st), "META")
          BY <3>7, <1>2, <2>2 DEF Land, RegionFacts
      <4> QED
          BY <4>1, <3>2 DEF Entry
    <3>8. CASE c < m
      <4>1. c \in 1..n
          BY <3>8, <1>1, <2>1
      <4>2. PICK k \in 1..Len(t) : t[k] = Entry(pmmEntryLand(st), MetaLen(st), "META")
          BY <4>1, <1>2, <2>2 DEF Land, Sound
      <4> QED
          BY <4>2, <3>1
    <3> QED
        BY <3>6, <3>7, <3>8, <1>1, <2>1
  <2> QED
      BY <2>1, <2>4 DEF u
<1>5. N \in S
  <2> HIDE DEF S
  <2>1. 0..N \subseteq S
      BY <1>1, <1>3, <1>4, Reaches
  <2> QED
      BY <2>1, <1>1
<1>6. Len(Filled(st)[N]) >= 1
  <2>1. Sound(st, N, Filled(st)[N]) /\ c \in 1..N
      BY <1>1, SoundTable
  <2>2. PICK k \in 1..Len(Filled(st)[N]) : TRUE
      BY <2>1, <1>2 DEF Sound, Land
  <2> QED
      BY <2>1, <2>2 DEF Sound
<1> QED
    BY <1>5, <1>6

\* The loader lists memory that touches and is usable as one region.
Merged(st) ==
  \A i, j \in DOMAIN st : pmm_isStUsable(st[i]) /\ pmm_isStUsable(st[j])
    => End(st[i]) # st[j].base

LEMMA FreeApart ==
  ASSUME MemoryMapAssumption, NEW st, Lands(st), Merged(st)
  PROVE  LET t == Filled(st)[Len(st)] IN
         \A k, l \in 1..Len(t) : t[k].type = "FREE" /\ t[l].type = "FREE"
           => End(t[k]) # t[l].base
<1> DEFINE t == Filled(st)[Len(st)]
<1>1. IsMap(st) /\ Len(st) \in Nat /\ DOMAIN st = 1..Len(st)
    BY MapType DEF Lands
<1>2. Sound(st, Len(st), t)
    BY <1>1, SoundTable
<1> HIDE DEF t
<1> SUFFICES ASSUME NEW k \in 1..Len(t), NEW l \in 1..Len(t),
                    t[k].type = "FREE", t[l].type = "FREE", End(t[k]) = t[l].base
             PROVE  FALSE
    BY DEF t
<1>3. PICK i \in DOMAIN st : From(t[k], st[i])
    BY <1>1, <1>2 DEF Sound
<1>4. PICK j \in DOMAIN st : From(t[l], st[j])
    BY <1>1, <1>2 DEF Sound
<1>5. /\ pmm_isStUsable(st[i]) /\ End(t[k]) = End(st[i])
      /\ pmm_isStUsable(st[j]) /\ End(t[l]) = End(st[j])
    BY <1>3, <1>4 DEF From, Ours
<1>6. /\ st[i].base \in Nat /\ End(st[i]) \in Nat /\ st[i].base < End(st[i])
      /\ st[j].base \in Nat /\ End(st[j]) \in Nat /\ st[j].base < End(st[j])
    BY <1>1, MapType
<1>7. /\ t[l].base \in Nat /\ End(t[l]) = t[l].base + t[l].length
      /\ t[l].length \in Nat \ {0} /\ st[j].base <= t[l].base
    BY <1>4 DEF From, Made, End
<1>8. CASE i = j
    BY <1>8, <1>5, <1>6, <1>7
<1>9. CASE i # j
  <2>1. Apart(st[i], st[j])
      BY <1>9, <1>1, <1>5 DEF IsMap
  <2>2. End(st[i]) # st[j].base
      BY <1>5 DEF Merged
  <2> QED
      BY <2>1, <2>2, <1>5, <1>6, <1>7 DEF Apart
<1> QED
    BY <1>8, <1>9

-----------------------------------------------------------------------------
(* The slots of the table.                                                 *)

LEMMA TimesCancel ==
  ASSUME NEW a \in Nat, NEW b \in Nat, NEW p \in Nat \ {0}, a * p <= b * p
  PROVE  a <= b
<1>1. b < a => b * p + p <= a * p /\ b * p \in Nat /\ a * p \in Nat
    BY Times
<1> QED
    BY <1>1

\* A quotient without a remainder.
LEMMA ExactQuotient ==
  ASSUME NEW a \in Nat, NEW p \in Nat \ {0}
  PROVE  (a * p) \div p = a
<1> DEFINE q == (a * p) \div p
           r == (a * p) % p
<1>1. a * p \in Nat
    BY Times
<1>2. q \in Nat /\ r \in 0..(p - 1) /\ a * p = p * q + r
    BY <1>1, Quotient
<1> HIDE DEF q, r
<1>3. a * p = q * p + r /\ q * p \in Nat
    BY <1>2
<1>4. a < q => a * p + p <= q * p
    BY <1>2, Times
<1>5. q < a => q * p + p <= a * p
    BY <1>2, Times
<1>6. q = a
    BY <1>1, <1>2, <1>3, <1>4, <1>5
<1> QED
    BY <1>6 DEF q

\* The slots of the table are counted page by page, rounded down.  No slot is
\* missing while one page is enough, or if no page has bytes left over.
SlotsForAll(st) ==
  requiredNumEntries(st) <= PMM_ENTRIES_PER_BLOCK \/ PageSize % EntrySize = 0

LEMMA CapacityEnough ==
  ASSUME MemoryMapAssumption, NEW st, Lands(st), SlotsForAll(st)
  PROVE  TableCapacity(st) \in Nat /\ requiredNumEntries(st) <= TableCapacity(st)
<1> DEFINE R == requiredNumEntries(st)
           B == PMM_ENTRIES_PER_BLOCK
           L == MetaLen(st)
<1>1. R \in Nat /\ L \in Nat \ {0} /\ OnPage(L) /\ R * EntrySize <= L
    BY RequiredSize DEF Lands, requiredFreeSize
<1>2. PICK k \in Nat : L = k * PageSize
    BY <1>1, PageMultiple
<1>3. PageSize \in Nat \ {0} /\ EntrySize \in Nat \ {0}
    BY DEF MemoryMapAssumption
<1>4. /\ B \in Nat
      /\ PageSize % EntrySize = 0 => PageSize = EntrySize * B
  <2>1. /\ PageSize \div EntrySize \in Nat
        /\ PageSize = EntrySize * (PageSize \div EntrySize) + (PageSize % EntrySize)
      BY <1>3, Quotient
  <2> DEFINE q == PageSize \div EntrySize
  <2>2. B = q
      BY DEF PMM_ENTRIES_PER_BLOCK
  <2>3. q \in Nat /\ EntrySize * q \in Nat
        /\ PageSize = EntrySize * q + (PageSize % EntrySize)
      BY <2>1, <1>3
  <2> HIDE DEF q
  <2> QED
      BY <2>2, <2>3
<1>5. TableCapacity(st) = (B * L) \div PageSize
    BY DEF TableCapacity, MetaLen
<1> HIDE DEF R, B, L
<1>6. TableCapacity(st) = B * k
  <2>1. B * L = (B * k) * PageSize /\ B * k \in Nat
      BY <1>2, <1>3, <1>4
  <2> QED
      BY <2>1, <1>3, <1>5, ExactQuotient
<1>7. k # 0
    BY <1>1, <1>2, <1>3
<1>8. CASE R <= B
  <2>1. 1 * B <= k * B
    <3>1. CASE B = 0
        BY <3>1
    <3>2. CASE B # 0
      <4>1. 1 \in Nat /\ 1 <= k /\ B \in Nat \ {0}
          BY <1>4, <1>7, <3>2
      <4> QED
          BY <4>1, Times
    <3> QED
        BY <3>1, <3>2
  <2>2. k * B = B * k /\ B * k \in Nat
      BY <1>2, <1>4
  <2>3. R <= B * k
      BY <2>1, <2>2, <1>1, <1>4, <1>8
  <2> QED
      BY <2>2, <2>3, <1>6 DEF R
<1>9. CASE PageSize % EntrySize = 0
  <2>1. L = (k * B) * EntrySize /\ k * B \in Nat
      BY <1>2, <1>3, <1>4, <1>9
  <2>2. R * EntrySize <= (k * B) * EntrySize
      BY <2>1, <1>1
  <2>3. R <= k * B
      BY <2>1, <2>2, <1>1, <1>3, TimesCancel
  <2>4. k * B = B * k /\ B * k \in Nat
      BY <1>2, <1>4
  <2>5. R <= B * k
      BY <2>3, <2>4
  <2> QED
      BY <2>4, <2>5, <1>6 DEF R
<1> QED
    BY <1>8, <1>9 DEF SlotsForAll, R, B

-----------------------------------------------------------------------------
(* The theorems.                                                           *)

SetupInv ==
  /\ stEntries \in StMaps
  /\ made = NotRun \/ made = setupMemoryMap(stEntries)

LEMMA SetupHolds == SetupSpec => []SetupInv
<1>1. SetupInit => SetupInv
    BY DEF SetupInit, SetupInv
<1>2. SetupInv /\ [SetupNext]_setupVars => SetupInv'
    BY DEF SetupInv, SetupNext, Setup, setupVars
<1> QED
    BY <1>1, <1>2, PTL DEF SetupSpec

LEMMA MadeTable ==
  ASSUME SetupInv, MemoryMapAssumption, MapAssumption
  PROVE  \/ made.entries = <<>> /\ made.outcome # "ok"
         \/ /\ Lands(stEntries)
            /\ made.entries = Filled(stEntries)[Len(stEntries)]
            /\ made.land = pmmEntryLand(stEntries)
            /\ made.capacity = TableCapacity(stEntries)
            /\ Sound(stEntries, Len(stEntries), made.entries)
            /\ DOMAIN made.entries = 1..Len(made.entries)
            /\ DOMAIN stEntries = 1..Len(stEntries)
<1>1. IsMap(stEntries)
    BY DEF SetupInv, MapAssumption
<1>2. CASE made = NotRun
    BY <1>2 DEF NotRun
<1>3. CASE made = setupMemoryMap(stEntries) /\ pmmEntryLand(stEntries) = 0
    BY <1>3 DEF setupMemoryMap
<1>4. CASE made = setupMemoryMap(stEntries) /\ pmmEntryLand(stEntries) # 0
  <2>1. Lands(stEntries)
      BY <1>1, <1>4 DEF Lands
  <2>2. /\ made.entries = Filled(stEntries)[Len(stEntries)]
        /\ made.land = pmmEntryLand(stEntries)
        /\ made.capacity = TableCapacity(stEntries)
      BY <1>4 DEF setupMemoryMap
  <2>3. Len(stEntries) \in Nat /\ DOMAIN stEntries = 1..Len(stEntries)
      BY <1>1, MapType
  <2>4. Sound(stEntries, Len(stEntries), made.entries)
      BY <2>1, <2>2, <2>3, SoundTable
  <2>5. made.entries \in Seq(Made)
      BY <2>4 DEF Sound
  <2>6. DOMAIN made.entries = 1..Len(made.entries)
      BY <2>5
  <2> QED
      BY <2>1, <2>2, <2>3, <2>4, <2>6
<1> QED
    BY <1>2, <1>3, <1>4 DEF SetupInv

\* Memory that may be handed out or that holds the table is in one entry only,
\* however the regions that are not usable lie and overlap.
THEOREM UsableMemoryAlone == SetupSpec => []FreeIsAlone
<1>1. SetupInv => FreeIsAlone
  <2> SUFFICES ASSUME SetupInv, NEW i \in DOMAIN made.entries,
                      NEW j \in DOMAIN made.entries, i # j,
                      made.entries[i].type \in {"FREE", "META"}
               PROVE  Apart(made.entries[i], made.entries[j])
      BY DEF FreeIsAlone
  <2>1. DOMAIN <<>> = {}
      OBVIOUS
  <2> QED
      BY <2>1, MadeTable, MemoryMapAssumption, MapAssumption DEF Sound, Ours
<1> QED
    BY <1>1, SetupHolds, PTL

\* No usable memory is lost, whatever the map.
THEOREM NoUsableMemoryLost == SetupSpec => []UsableKept
<1>1. SetupInv => UsableKept
  <2> SUFFICES ASSUME SetupInv, made.outcome = "ok", NEW k \in DOMAIN stEntries,
                      pmm_isStUsable(stEntries[k])
               PROVE  \E i \in DOMAIN made.entries :
                        LET e == made.entries[i] r == stEntries[k] IN
                        /\ e.base = r.base
                        /\ \/ e.type \in {"FREE", "META"} /\ End(e) = End(r)
                           \/ /\ e.type = "META"
                              /\ i + 1 \in DOMAIN made.entries
                              /\ made.entries[i + 1] =
                                   Entry(End(e), End(r) - End(e), "FREE")
      BY DEF UsableKept
  <2>1. /\ Sound(stEntries, Len(stEntries), made.entries)
        /\ DOMAIN made.entries = 1..Len(made.entries)
        /\ DOMAIN stEntries = 1..Len(stEntries)
      BY MadeTable, MemoryMapAssumption, MapAssumption
  <2>2. Kept(made.entries, stEntries[k])
      BY <2>1 DEF Sound
  <2> QED
      BY <2>1, <2>2 DEF Kept
<1> QED
    BY <1>1, SetupHolds, PTL

\* The table lies inside usable memory and has a place for every entry made,
\* whatever the map.
THEOREM TableInUsableMemory == SetupSpec => []TableInside
<1>1. SetupInv => TableInside
  <2> SUFFICES ASSUME SetupInv, made.outcome = "ok"
               PROVE  \E i \in DOMAIN made.entries, k \in DOMAIN stEntries :
                        LET e == made.entries[i] r == stEntries[k] IN
                        /\ e.type = "META" /\ e.base = made.land
                        /\ pmm_isStUsable(r) /\ r.base = e.base /\ End(e) <= End(r)
                        /\ Len(made.entries) * EntrySize <= e.length
      BY DEF TableInside
  <2>0. MemoryMapAssumption
      BY MemoryMapAssumption
  <2> DEFINE st == stEntries
             t == made.entries
  <2>1. /\ Lands(st) /\ t = Filled(st)[Len(st)] /\ made.land = pmmEntryLand(st)
        /\ Sound(st, Len(st), t)
        /\ DOMAIN t = 1..Len(t) /\ DOMAIN st = 1..Len(st)
      BY MadeTable, MemoryMapAssumption, MapAssumption
  <2> HIDE DEF st, t
  <2>2. PICK c \in DOMAIN st : Land(st, c)
      BY <2>0, <2>1, LandRegion
  <2>3. PICK i \in 1..Len(t) : t[i] = Entry(pmmEntryLand(st), MetaLen(st), "META")
      BY <2>1, <2>2 DEF Sound, Land
  <2>4. /\ t[i].type = "META" /\ t[i].base = pmmEntryLand(st)
        /\ t[i].length = MetaLen(st)
      BY <2>3 DEF Entry
  <2>5. pmm_isStUsable(st[c]) /\ st[c].base = t[i].base /\ MetaLen(st) <= st[c].length
      BY <2>2, <2>4 DEF Land
  <2>6. /\ st[c].base \in Nat /\ st[c].length \in Nat /\ MetaLen(st) \in Nat
      BY <2>0, <2>1, <2>2, MapType, RequiredSize DEF Lands
  <2>7. End(t[i]) <= End(st[c])
      BY <2>4, <2>5, <2>6 DEF End
  <2>8. Len(t) * EntrySize <= t[i].length
    <3>1. Len(t) \in Nat /\ requiredNumEntries(st) \in Nat /\ EntrySize \in Nat \ {0}
          /\ requiredFreeSize(st) \in Nat
          /\ requiredFreeSize(st) <= MetaLen(st)
        BY <2>0, <2>1, RequiredSize DEF Sound, Lands, MemoryMapAssumption
    <3>2. Len(t) <= requiredNumEntries(st)
        BY <2>0, <2>1, <3>1, TableLength
    <3>3. Len(t) * EntrySize <= requiredNumEntries(st) * EntrySize
        BY <3>1, <3>2, Times
    <3>4. Len(t) * EntrySize \in Nat
        BY <3>1, Times
    <3> QED
        BY <3>1, <3>3, <3>4, <2>4, <2>6 DEF requiredFreeSize
  <2> QED
      BY <2>1, <2>4, <2>5, <2>7, <2>8 DEF st, t
<1> QED
    BY <1>1, SetupHolds, PTL

\* A map of whole pages gives entries in the order of addresses.
THEOREM EntriesInOrder == SetupSpec => []PagesInOrder
<1>1. SetupInv => PagesInOrder
  <2> SUFFICES ASSUME SetupInv, WholePages(stEntries),
                      NEW i \in DOMAIN made.entries, NEW j \in DOMAIN made.entries,
                      i < j
               PROVE  End(made.entries[i]) <= made.entries[j].base
      BY DEF PagesInOrder
  <2>1. /\ Lands(stEntries) /\ made.entries = Filled(stEntries)[Len(stEntries)]
        /\ DOMAIN made.entries = 1..Len(made.entries)
    <3>1. DOMAIN <<>> = {}
        OBVIOUS
    <3> QED
        BY <3>1, MadeTable, MemoryMapAssumption, MapAssumption
  <2>2. Ordered(made.entries)
      BY <2>1, OrderedTable, MemoryMapAssumption
  <2> QED
      BY <2>1, <2>2 DEF Ordered
<1> QED
    BY <1>1, SetupHolds, PTL

\* After setupMemoryMap a block can be split without extending the table, for
\* every map whose entries fit the slots of one page (79 counted regions in the
\* code), and for every map at all if the size of an entry divides a page.
THEOREM RoomForTheFirstSplit ==
  ASSUME \A st \in StMaps : SlotsForAll(st)
  PROVE  SetupSpec => []RoomToSplit
<1>1. SetupInv => RoomToSplit
  <2> SUFFICES ASSUME SetupInv, made.outcome = "ok"
               PROVE  Len(made.entries) + 1 < made.capacity - 1
      BY DEF RoomToSplit
  <2> DEFINE st == stEntries
             t == made.entries
  <2>0. MemoryMapAssumption /\ SlotsForAll(st)
      BY MemoryMapAssumption DEF SetupInv
  <2>1. /\ Lands(st) /\ t = Filled(st)[Len(st)] /\ made.capacity = TableCapacity(st)
        /\ Sound(st, Len(st), t)
      BY MadeTable, MemoryMapAssumption, MapAssumption
  <2> HIDE DEF st, t
  <2>2. Len(t) \in Nat /\ requiredNumEntries(st) \in Nat
      BY <2>0, <2>1, RequiredSize DEF Sound, Lands
  <2>3. Len(t) + 3 <= requiredNumEntries(st)
      BY <2>0, <2>1, TableLength
  <2>4. TableCapacity(st) \in Nat /\ requiredNumEntries(st) <= TableCapacity(st)
      BY <2>0, <2>1, CapacityEnough
  <2>5. Len(t) + 1 < made.capacity - 1
      BY <2>1, <2>2, <2>3, <2>4
  <2> QED
      BY <2>5 DEF t
<1> QED
    BY <1>1, SetupHolds, PTL

-----------------------------------------------------------------------------
(* The table the physical memory manager starts from.                      *)

\* What the manager's model takes for granted of a map beyond IsMap: regions of
\* whole pages within the memory it manages, the table within its bounds.
WithinBounds(st) ==
  /\ WholePages(st)
  /\ NumPages \in Nat
  /\ \A i \in DOMAIN st : End(st[i]) <= NumPages * PageSize
  /\ pmmEntryLand(st) \div PageSize \in TableArea
  /\ MaxCapacity \in Nat /\ TableCapacity(st) <= MaxCapacity

\* The number of the page at an address, and of the pages in a length.
LEMMA InPageUnits ==
  ASSUME MemoryMapAssumption, NEW x \in Nat, OnPage(x)
  PROVE  x \div PageSize \in Nat /\ x = (x \div PageSize) * PageSize
<1>1. PICK k \in Nat : x = k * PageSize
    BY PageMultiple
<1>2. x \div PageSize = k
    BY <1>1, ExactQuotient DEF MemoryMapAssumption
<1> QED
    BY <1>1, <1>2

LEMMA TableEntries ==
  ASSUME MemoryMapAssumption, NEW st, Lands(st), WithinBounds(st)
  PROVE  LET t == Filled(st)[Len(st)]
             b(k) == t[k].base \div PageSize
             n(k) == t[k].length \div PageSize
         IN /\ t \in Seq(Made)
            /\ \A k \in 1..Len(t) :
                 /\ b(k) \in Nat /\ n(k) \in Nat \ {0}
                 /\ t[k].base = b(k) * PageSize
                 /\ End(t[k]) = (b(k) + n(k)) * PageSize
                 /\ b(k) + n(k) <= NumPages
            /\ \A k, l \in 1..Len(t) : k < l => b(k) + n(k) <= b(l)
<1> DEFINE t == Filled(st)[Len(st)]
           b(k) == t[k].base \div PageSize
           n(k) == t[k].length \div PageSize
<1>1. IsMap(st) /\ Len(st) \in Nat /\ DOMAIN st = 1..Len(st) /\ PageSize \in Nat \ {0}
    BY MapType DEF Lands, MemoryMapAssumption
<1>2. Sound(st, Len(st), t) /\ Ordered(t) /\ InPages(t)
    BY <1>1, SoundTable, OrderedTable DEF WithinBounds
<1> HIDE DEF t
<1>3. t \in Seq(Made) /\ \A k \in 1..Len(t) : t[k] \in Made
    BY <1>2, ElementOfSeq DEF Sound
<1>4. ASSUME NEW k \in 1..Len(t)
      PROVE  /\ b(k) \in Nat /\ n(k) \in Nat \ {0}
             /\ t[k].base = b(k) * PageSize
             /\ End(t[k]) = (b(k) + n(k)) * PageSize
  <2>1. t[k].base \in Nat /\ t[k].length \in Nat \ {0}
      BY <1>3 DEF Made
  <2>2. /\ b(k) \in Nat /\ t[k].base = b(k) * PageSize
        /\ n(k) \in Nat /\ t[k].length = n(k) * PageSize
      BY <1>2, <2>1, InPageUnits DEF InPages
  <2> HIDE DEF b, n
  <2>3. n(k) # 0
      BY <1>1, <2>1, <2>2
  <2> QED
      BY <1>1, <2>2, <2>3 DEF End
<1> HIDE DEF b, n
<1>5. ASSUME NEW k \in 1..Len(t)
      PROVE  b(k) + n(k) <= NumPages
  <2>1. PICK i \in 1..Len(st) : From(t[k], st[i])
      BY <1>2 DEF Sound
  <2>2. End(st[i]) \in Nat /\ OnPage(End(st[i]))
    <3>1. st[i].base \in Nat /\ st[i].length \in Nat /\ End(st[i]) \in Nat
        BY <1>1, MapType
    <3>2. OnPage(st[i].base) /\ OnPage(st[i].length)
        BY <1>1 DEF WithinBounds, WholePages, OnPage
    <3> QED
        BY <3>1, <3>2, PageSums DEF End
  <2>3. End(t[k]) <= End(st[i])
      BY <2>1, <2>2, PageSums DEF From
  <2>4. End(st[i]) <= NumPages * PageSize /\ NumPages \in Nat
      BY <1>1 DEF WithinBounds
  <2>5. (b(k) + n(k)) * PageSize <= NumPages * PageSize
    <3>1. (b(k) + n(k)) * PageSize \in Nat /\ NumPages * PageSize \in Nat
        BY <1>1, <1>4, <2>4, Times
    <3> QED
        BY <1>4, <2>2, <2>3, <2>4, <3>1
  <2>6. b(k) + n(k) \in Nat
      BY <1>4
  <2> QED
      BY <1>1, <2>4, <2>5, <2>6, TimesCancel
<1>6. ASSUME NEW k \in 1..Len(t), NEW l \in 1..Len(t), k < l
      PROVE  b(k) + n(k) <= b(l)
  <2>1. (b(k) + n(k)) * PageSize <= b(l) * PageSize
      BY <1>2, <1>4, <1>6 DEF Ordered
  <2>2. b(k) + n(k) \in Nat /\ b(l) \in Nat
      BY <1>4
  <2> QED
      BY <1>1, <2>1, <2>2, TimesCancel
<1>7. /\ t \in Seq(Made)
      /\ \A k \in 1..Len(t) :
           /\ b(k) \in Nat /\ n(k) \in Nat \ {0}
           /\ t[k].base = b(k) * PageSize
           /\ End(t[k]) = (b(k) + n(k)) * PageSize
           /\ b(k) + n(k) <= NumPages
      /\ \A k, l \in 1..Len(t) : k < l => b(k) + n(k) <= b(l)
    BY <1>3, <1>4, <1>5, <1>6
<1> QED
    BY <1>7 DEF t, b, n

\* The table of the manager, written out.
LEMMA TableWritten ==
  ASSUME MemoryMapAssumption, NEW st, Lands(st)
  PROVE  LET t == Filled(st)[Len(st)]
             m == TableOf(st)
         IN /\ m.land = pmmEntryLand(st) \div PageSize
            /\ m.capacity = TableCapacity(st)
            /\ Len(m.entries) = Len(t) /\ DOMAIN m.entries = 1..Len(t)
            /\ m.entries = [k \in 1..Len(t) |->
                              [base   |-> t[k].base \div PageSize,
                               length |-> t[k].length \div PageSize,
                               type   |-> t[k].type]]
            /\ m.meta \in 1..Len(t) /\ t[m.meta].type = "META"
            /\ t[m.meta].base = pmmEntryLand(st)
<1> DEFINE t == Filled(st)[Len(st)]
           m == TableOf(st)
           es == [k \in DOMAIN t |-> [base   |-> t[k].base \div PageSize,
                                      length |-> t[k].length \div PageSize,
                                      type   |-> t[k].type]]
<1>1. /\ setupMemoryMap(st).land = pmmEntryLand(st)
      /\ setupMemoryMap(st).capacity = TableCapacity(st)
      /\ setupMemoryMap(st).entries = t
    BY DEF setupMemoryMap, Lands
<1>2. /\ m.land = pmmEntryLand(st) \div PageSize
      /\ m.capacity = TableCapacity(st)
      /\ m.entries = es
      /\ m.meta = CHOOSE i \in DOMAIN t : t[i].type = "META"
    BY <1>1 DEF TableOf
<1>3. IsMap(st) /\ Len(st) \in Nat
    BY MapType DEF Lands
<1>4. Sound(st, Len(st), t)
    BY <1>3, SoundTable
<1>5. PICK c \in DOMAIN st : Land(st, c)
    BY LandRegion
<1> HIDE DEF t, m
<1>6. t \in Seq(Made) /\ DOMAIN t = 1..Len(t) /\ Len(t) \in Nat
    BY <1>4 DEF Sound
<1>7. \E k \in 1..Len(t) : t[k].type = "META"
  <2>1. c \in 1..Len(st) /\ st[c].base = pmmEntryLand(st)
      BY <1>3, <1>5, MapType DEF Land
  <2>2. \E k \in 1..Len(t) : t[k] = Entry(pmmEntryLand(st), MetaLen(st), "META")
      BY <1>4, <2>1 DEF Sound
  <2> QED
      BY <2>2 DEF Entry
<1>8. m.meta \in 1..Len(t) /\ t[m.meta].type = "META"
    BY <1>2, <1>6, <1>7
<1>9. t[m.meta].base = pmmEntryLand(st)
    BY <1>4, <1>8 DEF Sound, Entry
<1>10. DOMAIN es = 1..Len(t) /\ Len(es) = Len(t)
    BY <1>6
<1>11. /\ m.land = pmmEntryLand(st) \div PageSize
       /\ m.capacity = TableCapacity(st)
       /\ Len(m.entries) = Len(t) /\ DOMAIN m.entries = 1..Len(t)
       /\ m.entries = [k \in 1..Len(t) |-> [base   |-> t[k].base \div PageSize,
                                            length |-> t[k].length \div PageSize,
                                            type   |-> t[k].type]]
       /\ m.meta \in 1..Len(t) /\ t[m.meta].type = "META"
       /\ t[m.meta].base = pmmEntryLand(st)
    BY <1>2, <1>6, <1>8, <1>9, <1>10
<1> QED
    BY <1>11 DEF t, m

\* What setupMemoryMap leaves, in pages, is a table the physical memory manager can
\* start from: what PmmAssumption asks of it.  It has room for the first split,
\* its first entry is kept if the first usable region is long enough for the
\* table, and no two free entries touch if no two usable regions do.
THEOREM ManagerGetsATable ==
  ASSUME NEW st, Lands(st), WithinBounds(st), SlotsForAll(st)
  PROVE  /\ Manager!IsTable(TableOf(st)) /\ Manager!IsRoomy(TableOf(st))
         /\ LandsFirst(st) => Manager!IsFirstKept(TableOf(st))
         /\ Merged(st) => Manager!IsMerged(TableOf(st))
<1>0. MemoryMapAssumption
    BY MemoryMapAssumption
<1> DEFINE t == Filled(st)[Len(st)]
           m == TableOf(st)
           b(k) == t[k].base \div PageSize
           n(k) == t[k].length \div PageSize
<1>1. /\ m.land = pmmEntryLand(st) \div PageSize
      /\ m.capacity = TableCapacity(st)
      /\ Len(m.entries) = Len(t) /\ DOMAIN m.entries = 1..Len(t)
      /\ m.entries = [k \in 1..Len(t) |->
                        [base |-> b(k), length |-> n(k), type |-> t[k].type]]
      /\ m.meta \in 1..Len(t) /\ t[m.meta].type = "META"
      /\ t[m.meta].base = pmmEntryLand(st)
    BY <1>0, TableWritten
<1>2. /\ t \in Seq(Made)
      /\ \A k \in 1..Len(t) :
           /\ b(k) \in Nat /\ n(k) \in Nat \ {0}
           /\ t[k].base = b(k) * PageSize
           /\ End(t[k]) = (b(k) + n(k)) * PageSize
           /\ b(k) + n(k) <= NumPages
      /\ \A k, l \in 1..Len(t) : k < l => b(k) + n(k) <= b(l)
    BY <1>0, TableEntries
<1>3. IsMap(st)
    BY DEF Lands
<1>4. /\ Len(t) + 3 <= requiredNumEntries(st)
      /\ requiredNumEntries(st) \in Nat
      /\ TableCapacity(st) \in Nat /\ requiredNumEntries(st) <= TableCapacity(st)
    BY <1>0, <1>3, TableLength, RequiredSize, CapacityEnough
<1>5. LandsFirst(st) => t[1].type # "FREE"
    BY <1>0, FirstNotFree
<1>6. Merged(st) => \A k, l \in 1..Len(t) :
                      t[k].type = "FREE" /\ t[l].type = "FREE" => End(t[k]) # t[l].base
    BY <1>0, FreeApart
<1> HIDE DEF t, m, b, n
<1>7. Len(t) \in Nat /\ \A k \in 1..Len(t) : t[k].type \in Manager!EntryType
  <2>1. \A k \in 1..Len(t) : t[k] \in Made
      BY <1>2, ElementOfSeq
  <2> QED
      BY <1>2, <2>1 DEF Made, MadeType, Manager!EntryType
<1>8. \A k \in 1..Len(t) : /\ m.entries[k].base = b(k)
                           /\ m.entries[k].length = n(k)
                           /\ m.entries[k].type = t[k].type
    BY <1>1
<1>9. m.entries \in Seq([base : Nat, length : Nat \ {0}, type : Manager!EntryType])
  <2>1. m.entries \in [1..Len(t) -> [base : Nat, length : Nat \ {0},
                                      type : Manager!EntryType]]
      BY <1>1, <1>2, <1>7
  <2> DEFINE R == [base : Nat, length : Nat \ {0}, type : Manager!EntryType]
  <2>2. m.entries \in [1..Len(t) -> R]
      BY <2>1
  <2> HIDE DEF R
  <2>3. m.entries \in Seq(R)
      BY <1>7, <2>2
  <2> QED
      BY <2>3 DEF R
<1>10. Manager!IsTable(m)
  <2>1. m.land \in TableArea /\ NumPages \in Nat /\ MaxCapacity \in Nat
        /\ TableCapacity(st) <= MaxCapacity
      BY <1>1 DEF WithinBounds
  <2>2. m.capacity \in 1..MaxCapacity /\ Len(m.entries) \in 1..m.capacity
      BY <1>1, <1>4, <1>7, <2>1
  <2>3. \A i \in DOMAIN m.entries :
          Manager!PagesOf(m.entries[i].base, m.entries[i].length) \subseteq Manager!Page
    <3> SUFFICES ASSUME NEW i \in 1..Len(t)
                 PROVE  Manager!PagesOf(b(i), n(i)) \subseteq Manager!Page
        BY <1>1, <1>8
    <3> QED
        BY <1>2, <2>1 DEF Manager!PagesOf, Manager!Page
  <2>4. \A i, j \in DOMAIN m.entries : i < j =>
          m.entries[i].base + m.entries[i].length <= m.entries[j].base
      BY <1>1, <1>2, <1>8
  <2>5. m.meta \in DOMAIN m.entries /\ m.entries[m.meta].type = "META"
      BY <1>1, <1>8
  <2>6. m.entries[m.meta].base = m.land
      BY <1>1, <1>8 DEF b
  <2> QED
      BY <1>9, <2>1, <2>2, <2>3, <2>4, <2>5, <2>6 DEF Manager!IsTable
<1>11. Manager!IsRoomy(m)
    BY <1>1, <1>4, <1>7 DEF Manager!IsRoomy
<1>12. LandsFirst(st) => Manager!IsFirstKept(m)
  <2>1. 1 \in 1..Len(t)
      BY <1>1, <1>7
  <2> QED
      BY <1>5, <1>8, <2>1 DEF Manager!IsFirstKept
<1>13. ASSUME Merged(st) PROVE Manager!IsMerged(m)
  <2> SUFFICES ASSUME NEW i \in 1..Len(t), NEW j \in 1..Len(t),
                      t[i].type = "FREE", t[j].type = "FREE", b(i) + n(i) = b(j)
               PROVE  FALSE
      BY <1>1, <1>8 DEF Manager!IsMerged
  <2>1. End(t[i]) = t[j].base
      BY <1>2
  <2> QED
      BY <1>6, <1>13, <2>1
<1> QED
    BY <1>10, <1>11, <1>12, <1>13 DEF m
=============================================================================
