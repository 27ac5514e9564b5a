------------------------------ MODULE Induction ------------------------------
(***************************************************************************)
(* Induction on natural numbers, said with a set instead of a predicate,   *)
(* so that a proof can cite it: what a loop of the code computes is a      *)
(* recursive function here, and what holds after each round of the loop is *)
(* the set of the rounds after which it holds.                             *)
(***************************************************************************)
EXTENDS Integers, WellFoundedInduction, TLAPS

\* A set of natural numbers has a least one.
LEMMA LeastNumber ==
  ASSUME NEW T \in SUBSET Nat, T # {}
  PROVE  \E n \in T : \A m \in T : n <= m
<1>1. PICK n \in T : \A y \in T : ~(<<y, n>> \in OpToRel(<, Nat))
    BY NatLessThanWellFounded, WFMin
<1>2. \A m \in T : ~(m < n)
    BY <1>1 DEF OpToRel
<1> QED
    BY <1>2

\* A set that has 0 and, with every number below N, the next one, has 0..N.
LEMMA Reaches ==
  ASSUME NEW N \in Nat, NEW S, 0 \in S,
         \A n \in 0..(N - 1) : n \in S => n + 1 \in S
  PROVE  0..N \subseteq S
<1> SUFFICES ASSUME 0..N \ S # {}
             PROVE  FALSE
    OBVIOUS
<1>1. 0..N \ S \in SUBSET Nat
    OBVIOUS
<1>2. PICK n \in 0..N \ S : \A m \in 0..N \ S : n <= m
    BY <1>1, LeastNumber
<1>3. n # 0 /\ n - 1 \in 0..(N - 1)
    BY <1>2
<1>4. n - 1 \in S
    BY <1>2, <1>3
<1>5. (n - 1) + 1 = n
    BY <1>3
<1> QED
    BY <1>3, <1>4, <1>5

\* A recursive function: x at first, then G[k] of the value before.
Recurs(f, x, G, N) == f = [k \in 0..N |-> IF k = 0 THEN x ELSE G[k][f[k - 1]]]

LEMMA RecursionExists ==
  ASSUME NEW N \in Nat, NEW x, NEW G
  PROVE  \E f : Recurs(f, x, G, N)
<1> DEFINE S == {n \in Nat : \E f : Recurs(f, x, G, n)}
<1>1. 0 \in S
  <2> DEFINE f == [k \in 0..0 |-> x]
  <2>1. f = [k \in 0..0 |-> IF k = 0 THEN x ELSE G[k][f[k - 1]]]
      OBVIOUS
  <2> QED
      BY <2>1 DEF Recurs
<1>2. ASSUME NEW n \in 0..(N - 1), n \in S
      PROVE  n + 1 \in S
  <2>1. PICK f : Recurs(f, x, G, n)
      BY <1>2
  <2> DEFINE g == [k \in 0..(n + 1) |-> IF k = 0 THEN x ELSE G[k][f[k - 1]]]
  <2>2. /\ g = [k \in 0..(n + 1) |-> IF k = 0 THEN x ELSE G[k][f[k - 1]]]
        /\ \A k \in 0..n : g[k] = f[k]
      BY <2>1 DEF Recurs
  <2> HIDE DEF g
  <2>3. \A k \in 0..(n + 1) : k # 0 => f[k - 1] = g[k - 1]
    <3> SUFFICES ASSUME NEW k \in 0..(n + 1), k # 0
                 PROVE  k - 1 \in 0..n
        BY <2>2
    <3> QED
        OBVIOUS
  <2>4. g = [k \in 0..(n + 1) |-> IF k = 0 THEN x ELSE G[k][g[k - 1]]]
      BY <2>2, <2>3
  <2>5. Recurs(g, x, G, n + 1)
      BY <2>4 DEF Recurs
  <2> QED
      BY <2>5
<1> HIDE DEF S
<1>3. 0..N \subseteq S
    BY <1>1, <1>2, Reaches
<1> QED
    BY <1>3 DEF S

\* It has the type that every step keeps.
LEMMA RecursionType ==
  ASSUME NEW N \in Nat, NEW x, NEW G, NEW D, NEW f,
         x \in D, \A k \in 1..N : \A d \in D : G[k][d] \in D, Recurs(f, x, G, N)
  PROVE  /\ f \in [0..N -> D] /\ f[0] = x
         /\ \A k \in 0..(N - 1) : f[k + 1] = G[k + 1][f[k]]
<1> DEFINE S == {n \in 0..N : f[n] \in D}
<1>1. /\ \A k \in 0..N : f[k] = IF k = 0 THEN x ELSE G[k][f[k - 1]]
      /\ f = [k \in 0..N |-> f[k]]
    BY DEF Recurs
<1>2. 0 \in S
  <2>1. 0 \in 0..N
      OBVIOUS
  <2> QED
      BY <1>1, <2>1
<1>3. \A k \in 0..(N - 1) : k + 1 \in 1..N /\ k + 1 \in 0..N /\ k + 1 # 0 /\ (k + 1) - 1 = k
    OBVIOUS
<1>4. \A k \in 0..(N - 1) : f[k + 1] = G[k + 1][f[k]]
    BY <1>1, <1>3
<1>5. \A n \in 0..(N - 1) : n \in S => n + 1 \in S
    BY <1>3, <1>4
<1>6. 0..N \subseteq S
  <2> HIDE DEF S
  <2> QED
      BY <1>2, <1>5, Reaches
<1>7. 0 \in 0..N /\ \A k \in 0..N : f[k] \in D
    BY <1>6
<1>8. f[0] = x
    BY <1>1, <1>7
<1> HIDE DEF S
<1> QED
    BY <1>1, <1>4, <1>7, <1>8

\* Two of them agree as far as both go.
LEMMA RecursionAgrees ==
  ASSUME NEW N \in Nat, NEW M \in Nat, N <= M, NEW x, NEW G, NEW f, NEW g,
         Recurs(f, x, G, N), Recurs(g, x, G, M)
  PROVE  \A k \in 0..N : f[k] = g[k]
<1> DEFINE S == {k \in 0..N : f[k] = g[k]}
<1>1. /\ \A k \in 0..N : f[k] = IF k = 0 THEN x ELSE G[k][f[k - 1]]
      /\ \A k \in 0..M : g[k] = IF k = 0 THEN x ELSE G[k][g[k - 1]]
    BY DEF Recurs
<1>2. 0 \in 0..N /\ 0 \in 0..M
    OBVIOUS
<1>3. 0 \in S
    BY <1>1, <1>2
<1>4. ASSUME NEW n \in 0..(N - 1), n \in S
      PROVE  n + 1 \in S
  <2>1. n + 1 \in 0..N /\ n + 1 \in 0..M /\ n + 1 # 0 /\ (n + 1) - 1 = n
      OBVIOUS
  <2> QED
      BY <1>1, <1>4, <2>1
<1> HIDE DEF S
<1>5. 0..N \subseteq S
    BY <1>3, <1>4, Reaches
<1> QED
    BY <1>5 DEF S

\* It can be one function for all numbers.
RecursOnNat(f, x, G) == f = [k \in Nat |-> IF k = 0 THEN x ELSE G[k][f[k - 1]]]

LEMMA RecursionOnNat ==
  ASSUME NEW x, NEW G
  PROVE  \E f : RecursOnNat(f, x, G)
<1> DEFINE h(n) == CHOOSE g : Recurs(g, x, G, n)
           f == [k \in Nat |-> h(k)[k]]
<1>1. \A n \in Nat : Recurs(h(n), x, G, n)
    BY RecursionExists
<1> HIDE DEF h
<1>2. ASSUME NEW k \in Nat
      PROVE  f[k] = IF k = 0 THEN x ELSE G[k][f[k - 1]]
  <2>1. /\ f[k] = h(k)[k] /\ k \in 0..k
        /\ h(k)[k] = IF k = 0 THEN x ELSE G[k][h(k)[k - 1]]
      BY <1>1 DEF Recurs
  <2>2. CASE k = 0
      BY <2>1, <2>2
  <2>3. CASE k # 0
    <3>1. k - 1 \in Nat /\ k - 1 <= k /\ k - 1 \in 0..(k - 1)
        BY <2>3
    <3>2. Recurs(h(k - 1), x, G, k - 1) /\ Recurs(h(k), x, G, k)
        BY <1>1, <3>1
    <3>3. h(k - 1)[k - 1] = h(k)[k - 1]
        BY <3>1, <3>2, RecursionAgrees
    <3> QED
        BY <2>1, <2>3, <3>1, <3>3
  <2> QED
      BY <2>2, <2>3
<1>3. f = [k \in Nat |-> f[k]]
    OBVIOUS
<1> HIDE DEF f
<1>4. f = [k \in Nat |-> IF k = 0 THEN x ELSE G[k][f[k - 1]]]
    BY <1>2, <1>3
<1> QED
    BY <1>4 DEF RecursOnNat

\* A loop: its state is x at first and F of it after every round.
Iterates(f, x, F, N) == f = [k \in 0..N |-> IF k = 0 THEN x ELSE F[f[k - 1]]]

LEMMA LoopRecurs ==
  ASSUME NEW N \in Nat, NEW x, NEW F, NEW f
  PROVE  Iterates(f, x, F, N) <=> Recurs(f, x, [k \in 1..N |-> F], N)
<1> DEFINE G == [k \in 1..N |-> F]
<1>1. [k \in 0..N |-> IF k = 0 THEN x ELSE F[f[k - 1]]]
        = [k \in 0..N |-> IF k = 0 THEN x ELSE G[k][f[k - 1]]]
  <2>1. \A k \in 0..N : k # 0 => k \in 1..N
      OBVIOUS
  <2> QED
      BY <2>1
<1> QED
    BY <1>1 DEF Iterates, Recurs

LEMMA IterationExists ==
  ASSUME NEW N \in Nat, NEW x, NEW F
  PROVE  \E f : Iterates(f, x, F, N)
  BY RecursionExists, LoopRecurs

LEMMA IterationType ==
  ASSUME NEW N \in Nat, NEW x, NEW F, NEW D, NEW f,
         x \in D, F \in [D -> D], Iterates(f, x, F, N)
  PROVE  /\ f \in [0..N -> D] /\ f[0] = x
         /\ \A k \in 0..(N - 1) : f[k + 1] = F[f[k]]
<1> DEFINE G == [k \in 1..N |-> F]
<1>1. Recurs(f, x, G, N) /\ \A k \in 1..N : \A d \in D : G[k][d] \in D
    BY LoopRecurs
<1>2. \A k \in 0..(N - 1) : G[k + 1] = F
    OBVIOUS
<1> HIDE DEF G
<1> QED
    BY <1>1, <1>2, RecursionType
=============================================================================
