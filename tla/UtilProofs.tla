---------------------------- MODULE UtilProofs ----------------------------
(***************************************************************************)
(* Numbers.c and string.c are right whatever the sizes: the conversions    *)
(* about every number, as long as there are digits enough for a long, and  *)
(* the functions on strings about every memory.                            *)
(***************************************************************************)
EXTENDS Strings, Numbers, Induction


-----------------------------------------------------------------------------
(* Powers, quotients and remainders.                                       *)

LEMMA PowerSteps ==
  ASSUME NEW b \in Nat \ {0}
  PROVE  /\ Power(b, 0) = 1
         /\ \A n \in Nat : Power(b, n) \in Nat \ {0} /\ Power(b, n + 1) = b * Power(b, n)
<1> DEFINE G == [k \in Nat |-> [d \in Nat |-> b * d]]
           p == CHOOSE p : p = [k \in Nat |-> IF k = 0 THEN 1 ELSE b * p[k - 1]]
<1>1. \E f : f = [k \in Nat |-> IF k = 0 THEN 1 ELSE b * f[k - 1]]
  <2>1. PICK f : f = [k \in Nat |-> IF k = 0 THEN 1 ELSE G[k][f[k - 1]]]
    <3> HIDE DEF G
    <3>1. PICK f : RecursOnNat(f, 1, G)
      <4>1. \A x : \E f : RecursOnNat(f, x, G)
          BY RecursionOnNat
      <4> QED
          BY <4>1
    <3> QED
        BY <3>1 DEF RecursOnNat
  <2>2. ASSUME NEW n \in Nat
        PROVE  f[n] \in Nat
    <3> DEFINE S == {k \in Nat : f[k] \in Nat}
    <3>1. 0 \in S
        BY <2>1
    <3>2. ASSUME NEW k \in 0..(n - 1), k \in S
          PROVE  k + 1 \in S
      <4>1. k + 1 \in Nat /\ k + 1 # 0 /\ (k + 1) - 1 = k /\ f[k] \in Nat
          BY <3>2
      <4>2. f[k + 1] = G[k + 1][f[k]]
          BY <2>1, <4>1
      <4>3. b * f[k] \in Nat
          BY <4>1
      <4> QED
          BY <4>1, <4>2, <4>3
    <3> HIDE DEF S
    <3>3. 0..n \subseteq S
        BY <3>1, <3>2, Reaches
    <3>4. n \in 0..n
        OBVIOUS
    <3> QED
        BY <3>3, <3>4 DEF S
  <2>3. ASSUME NEW k \in Nat, k # 0
        PROVE  G[k][f[k - 1]] = b * f[k - 1]
    <3>1. k - 1 \in Nat
        BY <2>3
    <3> QED
        BY <2>2, <3>1
  <2> HIDE DEF G
  <2>4. f = [k \in Nat |-> IF k = 0 THEN 1 ELSE b * f[k - 1]]
      BY <2>1, <2>3
  <2> QED
      BY <2>4
<1>2. p = [k \in Nat |-> IF k = 0 THEN 1 ELSE b * p[k - 1]]
    BY <1>1
<1>3. \A n : Power(b, n) = p[n]
    BY DEF Power
<1> HIDE DEF p, G
<1>4. p[0] = 1
    BY <1>2
<1>5. \A n \in Nat : p[n + 1] = b * p[n]
  <2> SUFFICES ASSUME NEW n \in Nat PROVE p[n + 1] = b * p[n]
      OBVIOUS
  <2>1. n + 1 \in Nat /\ n + 1 # 0 /\ (n + 1) - 1 = n
      OBVIOUS
  <2> QED
      BY <1>2, <2>1
<1>6. ASSUME NEW n \in Nat
      PROVE  p[n] \in Nat \ {0}
  <2> DEFINE S == {k \in Nat : p[k] \in Nat \ {0}}
  <2>1. 0 \in S
      BY <1>4
  <2>2. ASSUME NEW k \in 0..(n - 1), k \in S
        PROVE  k + 1 \in S
    <3>1. k + 1 \in Nat /\ k \in Nat /\ p[k] \in Nat \ {0}
        BY <2>2
    <3>2. b * p[k] \in Nat \ {0}
        BY <3>1
    <3> QED
        BY <1>5, <3>1, <3>2
  <2> HIDE DEF S
  <2>3. 0..n \subseteq S
      BY <2>1, <2>2, Reaches
  <2>4. n \in 0..n
      OBVIOUS
  <2> QED
      BY <2>3, <2>4 DEF S
<1> QED
    BY <1>3, <1>4, <1>5, <1>6

LEMMA PowerAdds ==
  ASSUME NEW b \in Nat \ {0}, NEW m \in Nat, NEW n \in Nat
  PROVE  Power(b, m + n) = Power(b, m) * Power(b, n)
<1> DEFINE S == {k \in Nat : Power(b, m + k) = Power(b, m) * Power(b, k)}
<1>1. 0 \in S
  <2>1. Power(b, m) * 1 = Power(b, m) /\ m + 0 = m
      BY PowerSteps
  <2> QED
      BY <2>1, PowerSteps
<1>2. ASSUME NEW k \in 0..(n - 1), k \in S
      PROVE  k + 1 \in S
  <2>1. /\ k + 1 \in Nat /\ k \in Nat /\ m + k \in Nat /\ m + (k + 1) = (m + k) + 1
        /\ Power(b, m + k) = Power(b, m) * Power(b, k)
      BY <1>2
  <2>2. /\ Power(b, (m + k) + 1) = b * Power(b, m + k)
        /\ Power(b, k + 1) = b * Power(b, k)
        /\ Power(b, m) \in Nat /\ Power(b, k) \in Nat
      BY <2>1, PowerSteps
  <2>3. b * (Power(b, m) * Power(b, k)) = Power(b, m) * (b * Power(b, k))
      BY <2>2
  <2> QED
      BY <2>1, <2>2, <2>3
<1> HIDE DEF S
<1>3. 0..n \subseteq S
    BY <1>1, <1>2, Reaches
<1>4. n \in 0..n
    OBVIOUS
<1> QED
    BY <1>3, <1>4 DEF S

\* There is one way to divide with a remainder.
LEMMA OneQuotient ==
  ASSUME NEW d \in Nat \ {0}, NEW q \in Int, NEW r \in 0..(d - 1)
  PROVE  (q * d + r) \div d = q /\ (q * d + r) % d = r
<1> DEFINE v == q * d + r
           p == v \div d
           s == v % d
<1>1. v \in Int /\ p \in Int /\ s \in 0..(d - 1) /\ v = d * p + s
    OBVIOUS
<1>2. (q - p) * d = s - r
    BY <1>1
<1>3. s - r < d /\ r - s < d
    BY <1>1
<1> HIDE DEF v, p, s
<1>4. q - p = 0
  <2>1. CASE q - p >= 1
    <3>1. (q - p) * d >= 1 * d
        BY <1>1, <2>1
    <3> QED
        BY <1>1, <1>2, <1>3, <3>1
  <2>2. CASE q - p <= -1
    <3>1. (p - q) * d >= 1 * d
        BY <1>1, <2>2
    <3>2. (p - q) * d = r - s
        BY <1>1, <1>2
    <3> QED
        BY <1>1, <1>3, <3>1, <3>2
  <2> QED
      BY <1>1, <2>1, <2>2
<1>5. q = p /\ r = s
    BY <1>1, <1>2, <1>4
<1> QED
    BY <1>5 DEF p, s, v

-----------------------------------------------------------------------------
(* The number that characters show.                                        *)

Buffer == [0..(BufSize - 1) -> Int]

LEMMA ReadSteps ==
  ASSUME BufSize \in Nat, NEW o \in Buffer, NEW a \in 0..BufSize, NEW base \in Nat
  PROVE  /\ Reads(o, a, 0, base) = 0
         /\ \A n \in 0..(BufSize - a) : Reads(o, a, n, base) \in Int
         /\ \A n \in 0..(BufSize - a - 1) :
              Reads(o, a, n + 1, base) = base * Reads(o, a, n, base) + o[a + n]
<1> DEFINE N == BufSize - a
           G == [k \in 1..N |-> [d \in Int |-> base * d + o[a + k - 1]]]
           p == CHOOSE p : p = [k \in 0..N |->
                  IF k = 0 THEN 0 ELSE base * p[k - 1] + o[a + k - 1]]
<1>0. N \in Nat
    OBVIOUS
<1>1. \A k \in 1..N : o[a + k - 1] \in Int
  <2> SUFFICES ASSUME NEW k \in 1..N PROVE o[a + k - 1] \in Int
      OBVIOUS
  <2>1. a + k - 1 \in 0..(BufSize - 1)
      OBVIOUS
  <2> QED
      BY <2>1 DEF Buffer
<1>2. \A k \in 1..N : \A d \in Int : base * d + o[a + k - 1] \in Int
  <2> SUFFICES ASSUME NEW k \in 1..N, NEW d \in Int
               PROVE  base * d + o[a + k - 1] \in Int
      OBVIOUS
  <2>1. base * d \in Int /\ o[a + k - 1] \in Int
      BY <1>1
  <2>2. \A x, y \in Int : x + y \in Int
      OBVIOUS
  <2> QED
      BY <2>1, <2>2
<1>3. \E f : f = [k \in 0..N |-> IF k = 0 THEN 0 ELSE base * f[k - 1] + o[a + k - 1]]
  <2>1. \A k \in 1..N : \A d \in Int : G[k][d] = base * d + o[a + k - 1]
      OBVIOUS
  <2> HIDE DEF G, N
  <2>2. \A k \in 1..N : \A d \in Int : G[k][d] \in Int
      BY <1>2, <2>1
  <2>3. PICK f : Recurs(f, 0, G, N)
    <3>1. \A x : \E f : Recurs(f, x, G, N)
        BY <1>0, RecursionExists
    <3> QED
        BY <3>1
  <2>4. f \in [0..N -> Int]
    <3>1. 0 \in Int
        OBVIOUS
    <3> QED
        BY <1>0, <2>2, <2>3, <3>1, RecursionType
  <2>5. \A k \in 0..N : k # 0 => k \in 1..N /\ k - 1 \in 0..N
      BY <1>0
  <2>6. \A k \in 0..N : k # 0 => G[k][f[k - 1]] = base * f[k - 1] + o[a + k - 1]
      BY <2>1, <2>4, <2>5
  <2>7. f = [k \in 0..N |-> IF k = 0 THEN 0 ELSE base * f[k - 1] + o[a + k - 1]]
      BY <2>3, <2>6 DEF Recurs
  <2> QED
      BY <2>7
<1>4. p = [k \in 0..N |-> IF k = 0 THEN 0 ELSE base * p[k - 1] + o[a + k - 1]]
    BY <1>3
<1>5. \A n : Reads(o, a, n, base) = p[n]
    BY DEF Reads
<1> HIDE DEF p, G, N
<1>6. p[0] = 0 /\ \A n \in 0..(N - 1) : p[n + 1] = base * p[n] + o[a + n]
  <2>1. 0 \in 0..N
      BY <1>0
  <2>2. ASSUME NEW n \in 0..(N - 1)
        PROVE  p[n + 1] = base * p[n] + o[a + n]
    <3>1. n + 1 \in 0..N /\ n + 1 # 0 /\ (n + 1) - 1 = n /\ a + (n + 1) - 1 = a + n
        BY <1>0
    <3>2. p[n + 1] = base * p[(n + 1) - 1] + o[a + (n + 1) - 1]
        BY <1>4, <3>1
    <3> QED
        BY <3>1, <3>2
  <2> QED
      BY <1>4, <2>1, <2>2
<1>7. 0..N \subseteq {n \in 0..N : p[n] \in Int}
  <2> DEFINE S == {n \in 0..N : p[n] \in Int}
  <2>1. 0 \in S
      BY <1>0, <1>6
  <2>2. ASSUME NEW n \in 0..(N - 1), n \in S
        PROVE  n + 1 \in S
    <3>1. n + 1 \in 0..N /\ n + 1 \in 1..N /\ a + (n + 1) - 1 = a + n /\ p[n] \in Int
        BY <1>0, <2>2
    <3>2. base * p[n] + o[a + n] \in Int
        BY <1>2, <3>1
    <3> QED
        BY <1>6, <3>1, <3>2
  <2> HIDE DEF S
  <2>3. 0..N \subseteq S
      BY <1>0, <2>1, <2>2, Reaches
  <2> QED
      BY <2>3 DEF S
<1> QED
    BY <1>5, <1>6, <1>7 DEF N

\* n characters of o from a on are those of p from b on.
SameText(o, a, p, b, n) == \A i \in 0..(n - 1) : o[a + i] = p[b + i]

\* Two rows of the same characters show the same number.
LEMMA ReadSame ==
  ASSUME BufSize \in Nat, NEW o \in Buffer, NEW p \in Buffer, NEW base \in Nat,
         NEW a \in 0..BufSize, NEW b \in 0..BufSize,
         NEW n \in Nat, a + n <= BufSize, b + n <= BufSize,
         SameText(o, a, p, b, n)
  PROVE  Reads(o, a, n, base) = Reads(p, b, n, base)
<1> DEFINE S == {k \in 0..n : Reads(o, a, k, base) = Reads(p, b, k, base)}
<1>1. 0 \in S
    BY ReadSteps
<1>2. ASSUME NEW k \in 0..(n - 1), k \in S
      PROVE  k + 1 \in S
  <2>1. k + 1 \in 0..n /\ k \in 0..(BufSize - a - 1) /\ k \in 0..(BufSize - b - 1)
      OBVIOUS
  <2>2. /\ Reads(o, a, k + 1, base) = base * Reads(o, a, k, base) + o[a + k]
        /\ Reads(p, b, k + 1, base) = base * Reads(p, b, k, base) + p[b + k]
      BY <2>1, ReadSteps
  <2> QED
      BY <1>2, <2>1, <2>2 DEF SameText
<1> HIDE DEF S
<1>3. 0..n \subseteq S
    BY <1>1, <1>2, Reaches
<1>4. n \in 0..n
    OBVIOUS
<1> QED
    BY <1>3, <1>4 DEF S

\* Zeroes show nothing.
LEMMA ReadNothing ==
  ASSUME BufSize \in Nat, NEW o \in Buffer, NEW base \in Nat, NEW a \in 0..BufSize,
         NEW z \in Nat, a + z <= BufSize,
         \A i \in 0..(z - 1) : o[a + i] = 0
  PROVE  Reads(o, a, z, base) = 0
<1> DEFINE S == {k \in 0..z : Reads(o, a, k, base) = 0}
<1>1. 0 \in S
    BY ReadSteps
<1>2. ASSUME NEW k \in 0..(z - 1), k \in S
      PROVE  k + 1 \in S
  <2>1. k + 1 \in 0..z /\ k \in 0..(BufSize - a - 1)
      OBVIOUS
  <2>2. Reads(o, a, k + 1, base) = base * 0 + o[a + k]
      BY <1>2, <2>1, ReadSteps
  <2> QED
      BY <2>1, <2>2
<1> HIDE DEF S
<1>3. 0..z \subseteq S
    BY <1>1, <1>2, Reaches
<1>4. z \in 0..z
    OBVIOUS
<1> QED
    BY <1>3, <1>4 DEF S

\* Leading zeroes add nothing.
LEMMA ReadZeroes ==
  ASSUME BufSize \in Nat, NEW o \in Buffer, NEW base \in Nat, NEW a \in 0..BufSize,
         NEW b \in a..BufSize, NEW n \in Nat, b + n <= BufSize,
         \A x \in a..(b - 1) : o[x] = 0
  PROVE  Reads(o, a, b - a + n, base) = Reads(o, b, n, base)
<1> DEFINE z == b - a
           T == {k \in 0..n : Reads(o, a, z + k, base) = Reads(o, b, k, base)}
<1>1. /\ z \in Nat /\ a + z = b /\ b \in 0..BufSize
      /\ \A i \in 0..(z - 1) : a + i \in a..(b - 1)
    OBVIOUS
<1>2. Reads(o, a, z, base) = 0
    BY <1>1, ReadNothing
<1> HIDE DEF z
<1>3. 0 \in T
  <2>1. z + 0 = z /\ Reads(o, b, 0, base) = 0 /\ 0 \in 0..n
      BY <1>1, ReadSteps
  <2> QED
      BY <1>2, <2>1
<1>4. ASSUME NEW k \in 0..(n - 1), k \in T
      PROVE  k + 1 \in T
  <2>1. /\ k + 1 \in 0..n /\ z + k \in 0..(BufSize - a - 1)
        /\ k \in 0..(BufSize - b - 1)
        /\ z + (k + 1) = (z + k) + 1 /\ a + (z + k) = b + k
      BY <1>1
  <2>2. /\ Reads(o, a, (z + k) + 1, base) = base * Reads(o, a, z + k, base) + o[a + (z + k)]
        /\ Reads(o, b, k + 1, base) = base * Reads(o, b, k, base) + o[b + k]
      BY <1>1, <2>1, ReadSteps
  <2> QED
      BY <1>4, <2>1, <2>2
<1> HIDE DEF T
<1>5. 0..n \subseteq T
    BY <1>3, <1>4, Reaches
<1>6. n \in 0..n
    OBVIOUS
<1> QED
    BY <1>5, <1>6 DEF T, z

\* So many digits show a number below that power of the base.
LEMMA ReadBound ==
  ASSUME BufSize \in Nat, NEW o \in Buffer, NEW base \in Nat \ {0}, NEW a \in 0..BufSize,
         NEW n \in Nat, a + n <= BufSize,
         \A i \in 0..(n - 1) : o[a + i] \in 0..(base - 1)
  PROVE  Reads(o, a, n, base) \in 0..(Power(base, n) - 1)
<1> DEFINE S == {k \in 0..n : Reads(o, a, k, base) \in 0..(Power(base, k) - 1)}
<1>1. 0 \in S
  <2>1. Reads(o, a, 0, base) = 0 /\ Power(base, 0) = 1
      BY ReadSteps, PowerSteps
  <2> QED
      BY <2>1
<1>2. ASSUME NEW k \in 0..(n - 1), k \in S
      PROVE  k + 1 \in S
  <2> DEFINE u == Reads(o, a, k, base)
             w == Power(base, k)
             d == o[a + k]
  <2>1. k + 1 \in 0..n /\ k \in 0..(BufSize - a - 1) /\ k \in Nat
      OBVIOUS
  <2>2. /\ Reads(o, a, k + 1, base) = base * u + d
        /\ Power(base, k + 1) = base * w
        /\ w \in Nat \ {0} /\ u \in 0..(w - 1) /\ d \in 0..(base - 1)
      BY <1>2, <2>1, ReadSteps, PowerSteps
  <2> HIDE DEF u, w, d
  <2>3. base * u + d \in Nat /\ base * u + d < base * w
    <3>1. w = u + 1 + (w - u - 1) /\ w - u - 1 \in Nat /\ u \in Nat /\ d \in Nat
        BY <2>2
    <3>2. base * w = base * u + base + base * (w - u - 1)
        BY <2>2, <3>1
    <3>3. base * u \in Nat /\ base * (w - u - 1) \in Nat
        BY <3>1
    <3> QED
        BY <2>2, <3>1, <3>2, <3>3
  <2> QED
      BY <2>1, <2>2, <2>3
<1> HIDE DEF S
<1>3. 0..n \subseteq S
    BY <1>1, <1>2, Reaches
<1>4. n \in 0..n
    OBVIOUS
<1> QED
    BY <1>3, <1>4 DEF S

-----------------------------------------------------------------------------
(* Doubling a row of digits.                                               *)

\* The carry into each digit, and what becomes of the digit.
LEMMA ShiftRounds ==
  ASSUME NEW o \in Buffer, NEW n \in 0..1, NEW c \in 0..1,
         Decimal(o, n, Digits)
  PROVE  \E f \in [0..Digits -> 0..1] :
           /\ f[0] = c
           /\ \A k \in 1..Digits :
                LET x == n + Digits - k IN
                /\ Shifted(o, n, c)[x] \in 0..9
                /\ 10 * f[k] + Shifted(o, n, c)[x] = 2 * o[x] + f[k - 1]
<1> DEFINE D == Digits
           E(k, d) == IF 2 * Magic(o[n + D - k]) + d >= 16 THEN 1 ELSE 0
           G == [k \in 1..D |-> [d \in 0..1 |-> E(k, d)]]
           f == CHOOSE f : f = [k \in 0..D |-> IF k = 0 THEN c ELSE E(k, f[k - 1])]
<1>0. D \in Nat /\ BufSize \in Nat /\ n + D <= BufSize
    BY NumbersAssumption
<1>1. \E g : g = [k \in 0..D |-> IF k = 0 THEN c ELSE E(k, g[k - 1])]
  <2>1. \A k \in 1..D : \A d \in 0..1 : G[k][d] = E(k, d) /\ E(k, d) \in 0..1
      OBVIOUS
  <2> HIDE DEF G, E, D
  <2>2. PICK g : Recurs(g, c, G, D)
    <3>1. \A x : \E g : Recurs(g, x, G, D)
        BY <1>0, RecursionExists
    <3> QED
        BY <3>1
  <2>3. g \in [0..D -> 0..1]
    <3>1. \A k \in 1..D : \A d \in 0..1 : G[k][d] \in 0..1
        BY <2>1
    <3> QED
        BY <1>0, <2>2, <3>1, RecursionType
  <2>4. \A k \in 0..D : k # 0 => k \in 1..D /\ k - 1 \in 0..D
      BY <1>0
  <2>5. \A k \in 0..D : k # 0 => G[k][g[k - 1]] = E(k, g[k - 1])
      BY <2>1, <2>3, <2>4
  <2>6. g = [k \in 0..D |-> IF k = 0 THEN c ELSE E(k, g[k - 1])]
      BY <2>2, <2>5 DEF Recurs
  <2> QED
      BY <2>6
<1>2. f = [k \in 0..D |-> IF k = 0 THEN c ELSE E(k, f[k - 1])]
    BY <1>1
<1>3. Shifted(o, n, c) = [x \in DOMAIN o |->
        IF x \in n..(n + D - 1) THEN (2 * Magic(o[x]) + f[n + D - 1 - x]) % 16 ELSE o[x]]
    BY DEF Shifted
<1> HIDE DEF f, D, G
<1>4. f[0] = c /\ \A k \in 1..D : f[k] = E(k, f[k - 1])
  <2>1. 0 \in 0..D /\ \A k \in 1..D : k \in 0..D /\ k # 0
      BY <1>0
  <2> QED
      BY <1>2, <2>1
<1>5. 0..D \subseteq {k \in 0..D : f[k] \in 0..1}
  <2> DEFINE S == {k \in 0..D : f[k] \in 0..1}
  <2>1. 0 \in S
      BY <1>0, <1>4
  <2>2. ASSUME NEW k \in 0..(D - 1), k \in S
        PROVE  k + 1 \in S
    <3>1. k + 1 \in 1..D /\ k + 1 \in 0..D
        BY <1>0
    <3> QED
        BY <1>4, <3>1
  <2> HIDE DEF S
  <2>3. 0..D \subseteq S
      BY <1>0, <2>1, <2>2, Reaches
  <2> QED
      BY <2>3 DEF S
<1>6. f \in [0..D -> 0..1]
    BY <1>2, <1>5
<1>7. ASSUME NEW k \in 1..D
      PROVE  LET x == n + D - k IN
             /\ Shifted(o, n, c)[x] \in 0..9
             /\ 10 * f[k] + Shifted(o, n, c)[x] = 2 * o[x] + f[k - 1]
  <2> DEFINE x == n + D - k
             d == o[x]
             e == f[k - 1]
  <2>1. x \in n..(n + D - 1) /\ x \in 0..(BufSize - 1) /\ n + D - 1 - x = k - 1 /\ k - 1 \in 0..D
      BY <1>0
  <2>2. DOMAIN o = 0..(BufSize - 1)
      BY DEF Buffer
  <2>3. Shifted(o, n, c)[x] = (2 * Magic(d) + e) % 16
      BY <1>3, <2>1, <2>2
  <2>4. f[k] = IF 2 * Magic(d) + e >= 16 THEN 1 ELSE 0
      BY <1>4
  <2>5. d \in 0..9 /\ e \in 0..1
    <3>1. d \in 0..9
        BY <2>1 DEF Decimal, D
    <3> QED
        BY <1>6, <2>1, <3>1
  <2> HIDE DEF d, e
  <2>6. (2 * Magic(d) + e) % 16 = IF d >= 5 THEN 2 * d + e - 10 ELSE 2 * d + e
    <3>1. CASE d >= 5
      <4>1. 2 * Magic(d) + e = 1 * 16 + (2 * d + e - 10) /\ 2 * d + e - 10 \in 0..15
          BY <2>5, <3>1 DEF Magic
      <4> QED
          BY <3>1, <4>1
    <3>2. CASE d < 5
      <4>1. 2 * Magic(d) + e = 2 * d + e /\ 2 * d + e \in 0..15
          BY <2>5, <3>2 DEF Magic
      <4> QED
          BY <2>5, <3>2, <4>1
    <3> QED
        BY <2>5, <3>1, <3>2
  <2>7. (2 * Magic(d) + e >= 16) <=> d >= 5
      BY <2>5 DEF Magic
  <2>8. Shifted(o, n, c)[x] \in 0..9 /\ 10 * f[k] + Shifted(o, n, c)[x] = 2 * d + e
      BY <2>3, <2>4, <2>5, <2>6, <2>7
  <2> QED
      BY <2>8 DEF d, e
<1> QED
    BY <1>4, <1>6, <1>7 DEF D

\* One more digit of both rows: a and b are what they show so far, m what has
\* been carried out, g and h the carries out of and into the digits d and e.
LEMMA CarrySum ==
  ASSUME NEW a \in Int, NEW b \in Int, NEW m \in Int, NEW d \in Int, NEW e \in Int,
         NEW g \in Int, NEW h \in Int,
         a + m = 2 * b + g, 10 * g + d = 2 * e + h
  PROVE  (10 * a + d) + 10 * m = 2 * (10 * b + e) + h
  OBVIOUS

\* The row shows twice the number and the bit, as long as there are digits enough.
LEMMA ShiftDoubles ==
  ASSUME NEW o \in Buffer, NEW n \in 0..1, NEW c \in 0..1,
         Decimal(o, n, Digits),
         2 * Reads(o, n, Digits, 10) + c < Power(10, Digits)
  PROVE  LET s == Shifted(o, n, c) IN
         /\ s \in Buffer /\ Decimal(s, n, Digits)
         /\ \A x \in 0..(BufSize - 1) : x \notin n..(n + Digits - 1) => s[x] = o[x]
         /\ Reads(s, n, Digits, 10) = 2 * Reads(o, n, Digits, 10) + c
<1> DEFINE D == Digits
           s == Shifted(o, n, c)
<1>0. /\ D \in Nat /\ BufSize \in Nat /\ n + D <= BufSize /\ n \in 0..BufSize
      /\ 10 \in Nat \ {0}
    BY NumbersAssumption
<1>1. PICK f \in [0..D -> 0..1] :
        /\ f[0] = c
        /\ \A k \in 1..D :
             LET x == n + D - k IN
             s[x] \in 0..9 /\ 10 * f[k] + s[x] = 2 * o[x] + f[k - 1]
    BY ShiftRounds
<1>2. /\ DOMAIN s = 0..(BufSize - 1) /\ s = [x \in 0..(BufSize - 1) |-> s[x]]
      /\ \A x \in 0..(BufSize - 1) : x \notin n..(n + D - 1) => s[x] = o[x]
    BY DEF Shifted, Buffer
<1> HIDE DEF s
<1>3. \A x \in n..(n + D - 1) : s[x] \in 0..9
  <2> SUFFICES ASSUME NEW x \in n..(n + D - 1)
               PROVE  s[x] \in 0..9
      OBVIOUS
  <2>1. n + D - x \in 1..D /\ n + D - (n + D - x) = x
      BY <1>0
  <2> QED
      BY <1>1, <2>1
<1>4. s \in Buffer
  <2>1. \A x \in 0..(BufSize - 1) : o[x] \in Int
      BY DEF Buffer
  <2>2. ASSUME NEW x \in 0..(BufSize - 1)
        PROVE  s[x] \in Int
    <3>1. CASE x \in n..(n + D - 1)
      <4>1. s[x] \in 0..9
          BY <1>3, <3>1
      <4> QED
          BY <4>1
    <3>2. CASE x \notin n..(n + D - 1)
        BY <1>2, <2>1, <3>2
    <3> QED
        BY <3>1, <3>2
  <2> QED
      BY <1>2, <2>2 DEF Buffer
<1>5. Decimal(s, n, Digits)
    BY <1>3 DEF Decimal
<1> DEFINE T == {k \in 0..D : Reads(s, n, k, 10) + Power(10, k) * f[D]
                                = 2 * Reads(o, n, k, 10) + f[D - k]}
<1>6. 0 \in T
  <2>1. /\ Reads(s, n, 0, 10) = 0 /\ Reads(o, n, 0, 10) = 0 /\ Power(10, 0) = 1
        /\ D - 0 = D /\ f[D] \in 0..1 /\ 0 \in 0..D
      BY <1>0, <1>4, ReadSteps, PowerSteps
  <2> QED
      BY <2>1
<1>7. ASSUME NEW k \in 0..(D - 1), k \in T
      PROVE  k + 1 \in T
  <2> DEFINE a == Reads(s, n, k, 10)
             b == Reads(o, n, k, 10)
             P == Power(10, k)
             K == f[D]
  <2>1. /\ k + 1 \in 0..D /\ k \in 0..(BufSize - n - 1) /\ k \in 0..(BufSize - n) /\ k \in Nat
        /\ D - k \in 1..D /\ n + D - (D - k) = n + k /\ D - (k + 1) = (D - k) - 1
        /\ D - (k + 1) \in 0..D /\ n + k \in n..(n + D - 1) /\ D \in 0..D /\ D - k \in 0..D
      BY <1>0
  <2>2. /\ Reads(s, n, k + 1, 10) = 10 * a + s[n + k]
        /\ Reads(o, n, k + 1, 10) = 10 * b + o[n + k]
        /\ Power(10, k + 1) = 10 * P /\ P \in Nat /\ a \in Int /\ b \in Int
    <3>1. Reads(s, n, k + 1, 10) = 10 * a + s[n + k] /\ a \in Int
        BY <1>0, <1>4, <2>1, ReadSteps
    <3>2. Reads(o, n, k + 1, 10) = 10 * b + o[n + k] /\ b \in Int
        BY <1>0, <2>1, ReadSteps
    <3>3. Power(10, k + 1) = 10 * P /\ P \in Nat
        BY <1>0, <2>1, PowerSteps
    <3> QED
        BY <3>1, <3>2, <3>3
  <2>3. 10 * f[D - k] + s[n + k] = 2 * o[n + k] + f[D - (k + 1)]
      BY <1>1, <2>1
  <2>4. a + P * K = 2 * b + f[D - k]
      BY <1>7
  <2>5. s[n + k] \in Int /\ o[n + k] \in Int /\ K \in 0..1
        /\ f[D - k] \in Int /\ f[D - (k + 1)] \in Int
    <3>1. \A x \in 0..9 : x \in Int
        OBVIOUS
    <3>2. s[n + k] \in 0..9 /\ o[n + k] \in 0..9
        BY <1>3, <2>1 DEF Decimal, D
    <3>3. \A j \in 0..D : f[j] \in 0..1 /\ f[j] \in Int
        OBVIOUS
    <3> QED
        BY <2>1, <3>1, <3>2, <3>3
  <2> HIDE DEF a, b, P, K, T
  <2>6. (10 * P) * K = 10 * (P * K) /\ P * K \in Int
      BY <2>2, <2>5
  <2>7. (10 * a + s[n + k]) + 10 * (P * K) = 2 * (10 * b + o[n + k]) + f[D - (k + 1)]
    <3> DEFINE m == P * K
               d == s[n + k]
               e == o[n + k]
               g == f[D - k]
               h == f[D - (k + 1)]
    <3>1. a + m = 2 * b + g /\ 10 * g + d = 2 * e + h
        BY <2>3, <2>4
    <3>2. /\ a \in Int /\ b \in Int /\ m \in Int /\ d \in Int /\ e \in Int
          /\ g \in Int /\ h \in Int
        BY <2>2, <2>5, <2>6
    <3> HIDE DEF m, d, e, g, h
    <3>3. (10 * a + d) + 10 * m = 2 * (10 * b + e) + h
        BY <3>1, <3>2, CarrySum
    <3> QED
        BY <3>3 DEF m, d, e, g, h
  <2> QED
      BY <2>1, <2>2, <2>6, <2>7 DEF T, K
<1> HIDE DEF T
<1>8. D \in T
  <2>1. 0..D \subseteq T
      BY <1>0, <1>6, <1>7, Reaches
  <2> QED
      BY <1>0, <2>1
<1> DEFINE V == Reads(s, n, D, 10)
           W == Reads(o, n, D, 10)
           P == Power(10, D)
<1>9. V + P * f[D] = 2 * W + c /\ f[D] \in 0..1
  <2>1. D - D = 0 /\ D \in 0..D
      BY <1>0
  <2> QED
      BY <1>1, <1>8, <2>1 DEF T
<1>10. V \in 0..(P - 1) /\ W \in Int /\ P \in Nat
  <2>1. \A i \in 0..(D - 1) : s[n + i] \in 0..(10 - 1)
      BY <1>0, <1>3
  <2>2. D \in 0..(BufSize - n)
      BY <1>0
  <2> QED
      BY <1>0, <1>4, <2>1, <2>2, ReadBound, ReadSteps, PowerSteps
<1>11. 2 * W + c < P
    OBVIOUS
<1> HIDE DEF V, W, P
<1>12. f[D] = 0
  <2> SUFFICES ASSUME f[D] = 1 PROVE FALSE
      BY <1>9
  <2>1. V + P = 2 * W + c
      BY <1>9, <1>10
  <2> QED
      BY <1>10, <1>11, <2>1
<1>13. V = 2 * W + c
    BY <1>9, <1>10, <1>12
<1> QED
    BY <1>2, <1>4, <1>5, <1>13 DEF V, W, s, D

-----------------------------------------------------------------------------
(* The steps of ultoa.                                                     *)

\* One bit leaves the number and enters the digits.
LEMMA BitMoves ==
  ASSUME NEW i \in 0..(Bits - 1), NEW q \in Nat,
         NEW r \in 0..(Power(2, Bits - i) - 1)
  PROVE  LET c == TopBit(r * Power(2, i)) IN
         /\ c \in 0..1
         /\ \E s \in 0..(Power(2, Bits - (i + 1)) - 1) :
              /\ (2 * (r * Power(2, i))) % Power(2, Bits) = s * Power(2, i + 1)
              /\ q * Power(2, Bits - i) + r = (2 * q + c) * Power(2, Bits - (i + 1)) + s
<1> DEFINE m == Bits - (i + 1)
           P == Power(2, m)
           Q == Power(2, i)
<1>1. /\ Bits \in Nat /\ m \in Nat /\ i \in Nat /\ Bits - i = m + 1 /\ Bits - 1 = m + i
      /\ Bits = (m + i) + 1 /\ 2 \in Nat \ {0} /\ m + i \in Nat
    BY NumbersAssumption
<1>2. /\ P \in Nat \ {0} /\ Q \in Nat \ {0}
      /\ Power(2, Bits - i) = 2 * P /\ Power(2, i + 1) = 2 * Q
    BY <1>1, PowerSteps
<1>3. Power(2, Bits - 1) = P * Q
    BY <1>1, PowerAdds
<1>4. Power(2, Bits) = 2 * (P * Q)
    BY <1>1, <1>3, PowerSteps
<1> HIDE DEF P, Q, m
<1> DEFINE c == r \div P
           s == r % P
<1>5. r \in 0..(2 * P - 1)
    BY <1>2
<1>6. c \in Int /\ s \in 0..(P - 1) /\ r = P * c + s
    BY <1>2, <1>5
<1> HIDE DEF c, s
<1>7. c \in 0..1
  <2>1. CASE c >= 2
    <3>1. P * c >= P * 2
        BY <1>2, <1>6, <2>1
    <3> QED
        BY <1>2, <1>5, <1>6, <3>1
  <2>2. CASE c <= -1
    <3>1. P * c <= P * (-1)
        BY <1>2, <1>6, <2>2
    <3> QED
        BY <1>2, <1>5, <1>6, <3>1
  <2> QED
      BY <1>6, <2>1, <2>2
<1> DEFINE R == P * Q
           t == s * Q
<1>8. R \in Nat \ {0} /\ t \in Nat /\ t < R
  <2>1. P - s >= 1 /\ P - s \in Nat /\ s \in Nat
      BY <1>2, <1>6
  <2>2. (P - s) * Q >= 1 * Q
      BY <1>2, <2>1
  <2>3. P * Q = s * Q + (P - s) * Q
      BY <1>2, <2>1
  <2>4. s * Q \in Nat /\ P * Q \in Nat \ {0} /\ (P - s) * Q \in Nat /\ 1 * Q = Q
      BY <1>2, <2>1
  <2> DEFINE w == (P - s) * Q
  <2>5. R = t + w /\ w >= Q /\ w \in Nat /\ t \in Nat /\ R \in Nat \ {0}
      BY <2>2, <2>3, <2>4
  <2> HIDE DEF w, R, t
  <2> QED
      BY <1>2, <2>5
<1>9. r * Q = c * R + t
    BY <1>2, <1>6, <1>7
<1> HIDE DEF R, t
<1>10. TopBit(r * Q) = c
  <2>1. (c * R + t) \div R = c
      BY <1>7, <1>8, OneQuotient
  <2> QED
      BY <1>3, <1>9, <2>1 DEF TopBit, R
<1>11. (2 * (r * Q)) % Power(2, Bits) = 2 * t
  <2>1. 2 * R \in Nat \ {0} /\ 2 * t \in 0..(2 * R - 1) /\ c \in Int
      BY <1>7, <1>8
  <2>2. (c * (2 * R) + 2 * t) % (2 * R) = 2 * t
      BY <2>1, OneQuotient
  <2>3. 2 * (r * Q) = c * (2 * R) + 2 * t
      BY <1>7, <1>8, <1>9
  <2> QED
      BY <1>4, <2>2, <2>3 DEF R
<1>12. 2 * t = s * Power(2, i + 1)
    BY <1>2, <1>6 DEF t
<1>13. q * (2 * P) + r = (2 * q + c) * P + s
    BY <1>2, <1>6, <1>7
<1>14. s \in 0..(Power(2, m) - 1)
    BY <1>6 DEF P
<1> QED
    BY <1>2, <1>7, <1>10, <1>11, <1>12, <1>13, <1>14 DEF P, Q, m

\* Every number fits the digits.
LEMMA SizeFits ==
  ASSUME value \in Unsigned \cup SignedLong
  PROVE  Magnitude(value) \in 0..(Power(2, Bits) - 1)
<1>1. /\ Bits - 1 \in Nat /\ Bits = (Bits - 1) + 1 /\ 2 \in Nat \ {0}
    BY NumbersAssumption
<1>2. Power(2, Bits - 1) \in Nat \ {0} /\ Power(2, Bits) = 2 * Power(2, Bits - 1)
    BY <1>1, PowerSteps
<1> QED
    BY <1>2 DEF Magnitude, Unsigned, SignedLong

LEMMA ClearedRow ==
  ASSUME NEW o \in Buffer, NEW n \in 0..1
  PROVE  LET c == Cleared(o, n) IN
         /\ c \in Buffer /\ Decimal(c, n, Digits) /\ c[n + Digits] = Nul
         /\ \A x \in 0..(n - 1) : c[x] = o[x]
         /\ Reads(c, n, Digits, 10) = 0
<1> DEFINE c == Cleared(o, n)
<1>1. /\ Digits \in Nat \ {0} /\ BufSize \in Nat /\ n + Digits < BufSize /\ n \in 0..BufSize
      /\ 10 \in Nat \ {0} /\ n + Digits \in 0..(BufSize - 1)
    BY NumbersAssumption
<1>2. /\ DOMAIN c = 0..(BufSize - 1)
      /\ \A x \in 0..(BufSize - 1) :
           c[x] = IF x \in n..(n + Digits - 1) THEN 0 ELSE IF x = n + Digits THEN Nul ELSE o[x]
      /\ c = [x \in 0..(BufSize - 1) |-> c[x]]
    BY DEF Cleared, Buffer
<1> HIDE DEF c
<1>3. c \in Buffer
  <2>1. \A x \in 0..(BufSize - 1) : o[x] \in Int
      BY DEF Buffer
  <2>2. \A x \in 0..(BufSize - 1) : c[x] \in Int
      BY <1>2, <2>1 DEF Nul
  <2> QED
      BY <1>2, <2>2 DEF Buffer
<1>4. \A x \in n..(n + Digits - 1) : c[x] = 0
    BY <1>1, <1>2
<1>5. c[n + Digits] = Nul
    BY <1>1, <1>2
<1>6. \A x \in 0..(n - 1) : c[x] = o[x]
    BY <1>1, <1>2
<1>7. Reads(c, n, Digits, 10) = 0
  <2>1. \A i \in 0..(Digits - 1) : c[n + i] = 0
      BY <1>1, <1>4
  <2>2. Digits \in Nat /\ BufSize \in Nat /\ n \in 0..BufSize /\ n + Digits <= BufSize
      BY <1>1
  <2> QED
      BY <1>3, <2>1, <2>2, ReadNothing
<1> QED
    BY <1>3, <1>4, <1>5, <1>6, <1>7 DEF Decimal, c

\* Min is the least element.
LEMMA MinIs ==
  ASSUME NEW S \in SUBSET Int, NEW k \in S, \A y \in S : k <= y
  PROVE  Min(S) = k
<1>1. Min(S) \in S /\ \A y \in S : Min(S) <= y
    BY DEF Min
<1>2. Min(S) <= k /\ k <= Min(S) /\ k \in Int /\ Min(S) \in Int
    BY <1>1
<1> QED
    BY <1>2

EndsAt(o, k) == o[k] = Nul /\ \A x \in 0..(k - 1) : o[x] # Nul

LEMMA LengthIs ==
  ASSUME BufSize \in Nat, NEW o \in Buffer, NEW k \in 0..(BufSize - 1), EndsAt(o, k)
  PROVE  StrLen(o) = k
<1> DEFINE S == {x \in DOMAIN o : o[x] = Nul}
<1>1. DOMAIN o = 0..(BufSize - 1)
    BY DEF Buffer
<1>2. S \in SUBSET Int /\ k \in S
    BY <1>1 DEF EndsAt
<1>3. \A y \in S : k <= y
    BY <1>1 DEF EndsAt
<1> HIDE DEF S
<1>4. Min(S) = k
    BY <1>2, <1>3, MinIs
<1> QED
    BY <1>4 DEF StrLen, S

\* The text without its leading zeroes shows the same number.
LEMMA Stripped ==
  ASSUME NEW o \in Buffer, NEW n \in 0..1,
         Decimal(o, n, Digits), o[n + Digits] = Nul, \A x \in 0..(n - 1) : o[x] # Nul
  PROVE  LET org == Skipped(o, n)
             len == n + Digits - org
             p == [x \in DOMAIN o |-> IF x \in n..(n + len) THEN o[x + org - n] ELSE o[x]]
         IN /\ p \in Buffer /\ len \in 1..Digits /\ StrLen(p) = n + len /\ p[n + len] = Nul
            /\ Decimal(p, n, len) /\ \A x \in 0..(n - 1) : p[x] = o[x]
            /\ Reads(p, n, len, 10) = Reads(o, n, Digits, 10)
            /\ p[n] = 0 => len = 1
<1> DEFINE D == Digits
           S == {x \in n..(n + D - 1) : x = n + D - 1 \/ o[x] # 0}
           org == Skipped(o, n)
           len == n + D - org
           p == [x \in DOMAIN o |-> IF x \in n..(n + len) THEN o[x + org - n] ELSE o[x]]
<1>1. /\ D \in Nat \ {0} /\ BufSize \in Nat /\ n + D < BufSize /\ D \in Nat
      /\ n \in 0..BufSize /\ 10 \in Nat
    BY NumbersAssumption
<1>2. \A x \in n..(n + D - 1) : o[x] \in 0..9
    BY DEF Decimal
<1> HIDE DEF D
<1>3. org \in S /\ \A y \in S : org <= y
  <2>1. n + D - 1 \in S /\ S \in SUBSET Nat
      BY <1>1
  <2>2. PICK k \in S : \A y \in S : k <= y
      BY <2>1, LeastNumber
  <2>3. Min(S) = k
    <3>1. S \in SUBSET Int
        BY <2>1
    <3> QED
        BY <2>2, <3>1, MinIs
  <2> QED
      BY <2>2, <2>3 DEF Skipped, D
<1> HIDE DEF org
<1>4. org \in n..(n + D - 1) /\ (org = n + D - 1 \/ o[org] # 0)
    BY <1>3
<1>5. \A x \in n..(org - 1) : o[x] = 0
  <2> SUFFICES ASSUME NEW x \in n..(org - 1), o[x] # 0
               PROVE  FALSE
      OBVIOUS
  <2>1. x \in S /\ x < org
      BY <1>1, <1>4
  <2> QED
      BY <1>1, <1>3, <1>4, <2>1
<1>6. len \in 1..D /\ org + len = n + D /\ len \in Nat
    BY <1>1, <1>4
<1> HIDE DEF len, S
<1>7. DOMAIN p = 0..(BufSize - 1) /\ DOMAIN o = 0..(BufSize - 1)
    BY DEF Buffer
<1>8. /\ \A x \in n..(n + len) : x \in 0..(BufSize - 1) /\ p[x] = o[x + org - n]
      /\ \A x \in 0..(BufSize - 1) : x \notin n..(n + len) => p[x] = o[x]
  <2>1. \A x \in n..(n + len) : x \in 0..(BufSize - 1)
      BY <1>1, <1>6
  <2> QED
      BY <1>7, <2>1
<1> HIDE DEF p
<1>9. \A i \in 0..len : p[n + i] = o[org + i]
  <2> SUFFICES ASSUME NEW i \in 0..len
               PROVE  p[n + i] = o[org + i]
      OBVIOUS
  <2>1. n + i \in n..(n + len) /\ (n + i) + org - n = org + i
      BY <1>4, <1>6
  <2> QED
      BY <1>8, <2>1
<1>10. \A i \in 0..(len - 1) : p[n + i] \in 0..9
  <2> SUFFICES ASSUME NEW i \in 0..(len - 1)
               PROVE  p[n + i] \in 0..9
      OBVIOUS
  <2>1. org + i \in n..(n + D - 1) /\ i \in 0..len
      BY <1>1, <1>4, <1>6
  <2> QED
      BY <1>2, <1>9, <2>1
<1>11. Decimal(p, n, len)
  <2> SUFFICES ASSUME NEW x \in n..(n + len - 1)
               PROVE  p[x] \in 0..9
      BY DEF Decimal
  <2>1. x - n \in 0..(len - 1) /\ n + (x - n) = x
      BY <1>6
  <2> QED
      BY <1>10, <2>1
<1>12. p[n + len] = Nul
  <2>1. len \in 0..len
      BY <1>6
  <2> QED
      BY <1>6, <1>9, <2>1 DEF D
<1>13. p \in Buffer
  <2>1. \A x \in 0..(BufSize - 1) : o[x] \in Int
      BY DEF Buffer
  <2>2. ASSUME NEW x \in 0..(BufSize - 1)
        PROVE  p[x] \in Int
    <3>1. CASE x \in n..(n + len)
      <4>1. x + org - n \in 0..(BufSize - 1)
          BY <1>1, <1>4, <1>6, <3>1
      <4> QED
          BY <1>8, <2>1, <3>1, <4>1
    <3>2. CASE x \notin n..(n + len)
        BY <1>8, <2>1, <3>2
    <3> QED
        BY <3>1, <3>2
  <2>3. p = [x \in 0..(BufSize - 1) |-> p[x]]
      BY <1>7 DEF p
  <2> QED
      BY <2>2, <2>3 DEF Buffer
<1>14. \A x \in 0..(n - 1) : p[x] = o[x]
  <2>1. \A x \in 0..(n - 1) : x \in 0..(BufSize - 1) /\ x \notin n..(n + len)
      BY <1>1
  <2> QED
      BY <1>8, <2>1
<1>15. StrLen(p) = n + len
  <2>1. n + len \in 0..(BufSize - 1)
      BY <1>1, <1>6
  <2>2. \A x \in 0..((n + len) - 1) : p[x] # Nul
    <3> SUFFICES ASSUME NEW x \in 0..((n + len) - 1)
                 PROVE  p[x] # Nul
        OBVIOUS
    <3>1. CASE x < n
      <4>1. x \in 0..(n - 1)
          BY <3>1
      <4> QED
          BY <1>14, <4>1
    <3>2. CASE x >= n
      <4>1. x \in n..(n + len - 1)
          BY <1>6, <3>2
      <4> QED
          BY <1>11, <4>1 DEF Decimal, Nul
    <3> QED
        BY <3>1, <3>2
  <2>3. EndsAt(p, n + len)
      BY <1>12, <2>2 DEF EndsAt
  <2> QED
      BY <1>1, <1>13, <2>1, <2>3, LengthIs
<1>16. Reads(p, n, len, 10) = Reads(o, n, D, 10)
  <2>1. Reads(p, n, len, 10) = Reads(o, org, len, 10)
    <3>1. /\ org \in 0..BufSize /\ n + len <= BufSize /\ org + len <= BufSize
          /\ \A i \in 0..(len - 1) : i \in 0..len
        BY <1>1, <1>4, <1>6
    <3>2. SameText(p, n, o, org, len)
        BY <1>9, <3>1 DEF SameText
    <3> QED
        BY <1>1, <1>6, <1>13, <3>1, <3>2, ReadSame
  <2>2. Reads(o, n, (org - n) + len, 10) = Reads(o, org, len, 10)
    <3>1. org \in n..BufSize /\ org + len <= BufSize
        BY <1>1, <1>4, <1>6
    <3> QED
        BY <1>1, <1>5, <1>6, <3>1, ReadZeroes
  <2>3. (org - n) + len = D
      BY <1>1, <1>4, <1>6
  <2> QED
      BY <2>1, <2>2, <2>3
<1>17. p[n] = 0 => len = 1
  <2> SUFFICES ASSUME p[n] = 0
               PROVE  len = 1
      OBVIOUS
  <2>1. 0 \in 0..len /\ n + 0 = n /\ org + 0 = org
      BY <1>4, <1>6
  <2>2. o[org] = 0
      BY <1>9, <2>1
  <2>3. org = n + D - 1
      BY <1>4, <2>2
  <2> QED
      BY <1>1, <1>6, <2>3
<1> QED
    BY <1>6, <1>11, <1>12, <1>13, <1>14, <1>15, <1>16, <1>17 DEF p, len, org, D

-----------------------------------------------------------------------------
(* padn and ltox.                                                          *)

LEMMA PaddedText ==
  ASSUME NEW o \in Buffer, NEW n \in 1..Digits, NEW num \in Widths,
         Decimal(o, 0, n), EndsAt(o, n)
  PROVE  LET p == Padded(o, Space, num)
             first == Min({x \in DOMAIN p : p[x] # Space})
             end == StrLen(p)
         IN /\ p \in Buffer /\ first < end /\ Decimal(p, first, end - first)
            /\ Reads(p, first, end - first, 10) = Reads(o, 0, n, 10)
            /\ (first > 0 => end = num) /\ end >= num
<1> DEFINE p == Padded(o, Space, num)
           S == {x \in DOMAIN p : p[x] # Space}
           m == num - n
<1>1. /\ BufSize \in Nat /\ n \in Nat \ {0} /\ n \in 0..(BufSize - 1)
      /\ num \in 0..(BufSize - 1) /\ 0 \in 0..BufSize /\ 10 \in Nat /\ m \in Int
    BY NumbersAssumption
<1>2. StrLen(o) = n
    BY <1>1, LengthIs
<1>3. DOMAIN o = 0..(BufSize - 1) /\ \A x \in 0..(BufSize - 1) : o[x] \in Int
    BY DEF Buffer
<1>4. /\ \A x \in 0..(n - 1) : o[x] \in 0..9
      /\ o[n] = Nul
  <2>1. \A x \in 0..(n - 1) : x \in 0..(0 + n - 1)
      BY <1>1
  <2> QED
      BY <2>1 DEF Decimal, EndsAt
<1>5. /\ DOMAIN p = 0..(BufSize - 1)
      /\ p = [x \in 0..(BufSize - 1) |-> p[x]]
      /\ \A x \in 0..(BufSize - 1) :
           p[x] = IF m <= 0 THEN o[x] ELSE IF x < m THEN Space
                  ELSE IF x <= num THEN o[x - m] ELSE o[x]
    BY <1>2, <1>3 DEF Padded
<1> HIDE DEF p, m
<1> SUFFICES \E first, end \in 0..(BufSize - 1) :
               /\ p \in Buffer /\ Min(S) = first /\ EndsAt(p, end)
               /\ first < end /\ Decimal(p, first, end - first)
               /\ Reads(p, first, end - first, 10) = Reads(o, 0, n, 10)
               /\ (first > 0 => end = num) /\ end >= num
    BY <1>1, LengthIs DEF p
<1>6. CASE m <= 0
  <2>1. p = o
    <3>1. \A x \in 0..(BufSize - 1) : p[x] = o[x]
        BY <1>5, <1>6
    <3>2. o = [x \in 0..(BufSize - 1) |-> o[x]]
        BY <1>3 DEF Buffer
    <3> QED
        BY <1>5, <3>1, <3>2
  <2>2. Min(S) = 0
    <3>1. S \in SUBSET Int /\ \A y \in S : 0 <= y
        BY <1>5
    <3>2. 0 \in S
      <4>1. 0 \in 0..(BufSize - 1) /\ 0 \in 0..(n - 1)
          BY <1>1
      <4>2. o[0] \in 0..9
          BY <1>4, <4>1
      <4> QED
          BY <1>5, <2>1, <4>1, <4>2 DEF Space
    <3> HIDE DEF S
    <3> QED
        BY <3>1, <3>2, MinIs
  <2>3. n - 0 = n /\ 0 < n /\ n >= num /\ 0 \in 0..(BufSize - 1) /\ ~(0 > 0)
      BY <1>1, <1>6 DEF m
  <2>4. Decimal(p, 0, n - 0) /\ EndsAt(p, n) /\ p \in Buffer
      BY <2>1, <2>3
  <2>5. Reads(p, 0, n - 0, 10) = Reads(o, 0, n, 10)
      BY <2>1, <2>3
  <2> HIDE DEF S
  <2> 0 \in 0..(BufSize - 1) /\ n \in 0..(BufSize - 1)
      BY <1>1
  <2> WITNESS 0 \in 0..(BufSize - 1), n \in 0..(BufSize - 1)
  <2> QED
      BY <2>2, <2>3, <2>4, <2>5
<1>7. CASE m > 0
  <2>1. /\ m \in 0..(BufSize - 1) /\ m + n = num /\ num - m = n /\ m < num
        /\ num >= num /\ m \in 0..BufSize /\ m + n <= BufSize /\ 0 + n <= BufSize
      BY <1>1, <1>7 DEF m
  <2>2. /\ \A x \in 0..(m - 1) : p[x] = Space
        /\ \A i \in 0..n : p[m + i] = o[i]
    <3>1. \A x \in 0..(m - 1) : x \in 0..(BufSize - 1) /\ x < m
        BY <1>1, <2>1
    <3>2. \A i \in 0..n : /\ m + i \in 0..(BufSize - 1) /\ ~(m + i < m)
                          /\ m + i <= num /\ (m + i) - m = i
        BY <1>1, <2>1
    <3>3. ~(m <= 0)
        BY <1>1, <1>7
    <3>4. \A x \in 0..(m - 1) : p[x] = Space
        BY <1>5, <3>1, <3>3
    <3>5. \A i \in 0..n : p[m + i] = o[i]
      <4> SUFFICES ASSUME NEW i \in 0..n
                   PROVE  p[m + i] = o[i]
          OBVIOUS
      <4>1. p[m + i] = o[(m + i) - m]
          BY <1>5, <3>2, <3>3
      <4> QED
          BY <3>2, <4>1
    <3> QED
        BY <3>4, <3>5
  <2>3. \A x \in m..(num - 1) : p[x] \in 0..9
    <3> SUFFICES ASSUME NEW x \in m..(num - 1)
                 PROVE  p[x] \in 0..9
        OBVIOUS
    <3>1. x - m \in 0..n /\ x - m \in 0..(n - 1) /\ m + (x - m) = x
        BY <1>1, <2>1
    <3> QED
        BY <1>4, <2>2, <3>1
  <2>4. p[num] = Nul
    <3>1. n \in 0..n
        BY <1>1
    <3> QED
        BY <1>4, <2>1, <2>2, <3>1
  <2>5. p \in Buffer
    <3> SUFFICES ASSUME NEW x \in 0..(BufSize - 1)
                 PROVE  p[x] \in Int
        BY <1>5 DEF Buffer
    <3>1. CASE x < m
      <4>1. x \in 0..(m - 1)
          BY <2>1, <3>1
      <4> QED
          BY <2>2, <4>1 DEF Space
    <3>2. CASE x \in m..num
      <4>1. x - m \in 0..n /\ m + (x - m) = x /\ x - m \in 0..(BufSize - 1)
          BY <1>1, <2>1, <3>2
      <4> QED
          BY <1>3, <2>2, <4>1
    <3>3. CASE x > num
      <4>1. p[x] = o[x]
          BY <1>1, <1>5, <2>1, <3>3
      <4> QED
          BY <1>3, <4>1
    <3> QED
        BY <1>1, <2>1, <3>1, <3>2, <3>3
  <2>6. EndsAt(p, num)
    <3>1. ASSUME NEW x \in 0..(num - 1)
          PROVE  p[x] # Nul
      <4>1. CASE x < m
        <5>1. x \in 0..(m - 1)
            BY <2>1, <4>1
        <5> QED
            BY <2>2, <5>1 DEF Space, Nul
      <4>2. CASE x >= m
        <5>1. x \in m..(num - 1)
            BY <1>1, <2>1, <4>2
        <5> QED
            BY <2>3, <5>1 DEF Nul
      <4> QED
          BY <2>1, <4>1, <4>2
    <3> QED
        BY <2>4, <3>1 DEF EndsAt
  <2>7. Min(S) = m
    <3>1. S \in SUBSET Int
        BY <1>5
    <3>2. m \in S
      <4>1. m \in m..(num - 1)
          BY <1>1, <2>1
      <4>2. p[m] # Space
          BY <2>3, <4>1 DEF Space
      <4>3. m \in DOMAIN p
          BY <1>5, <2>1
      <4> QED
          BY <4>2, <4>3
    <3>3. ASSUME NEW y \in S
          PROVE  m <= y
      <4>1. y \in 0..(BufSize - 1) /\ p[y] # Space
          BY <1>5
      <4>2. y \notin 0..(m - 1)
          BY <2>2, <4>1
      <4> QED
          BY <1>1, <2>1, <4>1, <4>2
    <3> HIDE DEF S
    <3> QED
        BY <3>1, <3>2, <3>3, MinIs
  <2>8. Decimal(p, m, n)
    <3>1. \A x \in m..(m + n - 1) : x \in m..(num - 1)
        BY <2>1
    <3> QED
        BY <2>3, <3>1 DEF Decimal
  <2>9. Reads(p, m, n, 10) = Reads(o, 0, n, 10)
    <3>1. SameText(p, m, o, 0, n)
      <4>1. \A i \in 0..(n - 1) : i \in 0..n /\ 0 + i = i
          BY <1>1
      <4> QED
          BY <2>2, <4>1 DEF SameText
    <3> QED
        BY <1>1, <2>1, <2>5, <3>1, ReadSame
  <2>10. num \in 0..(BufSize - 1) /\ (m > 0 => num = num)
      BY <1>1
  <2> HIDE DEF S
  <2> m \in 0..(BufSize - 1) /\ num \in 0..(BufSize - 1)
      BY <1>1, <2>1
  <2> WITNESS m \in 0..(BufSize - 1), num \in 0..(BufSize - 1)
  <2> QED
      BY <2>1, <2>5, <2>6, <2>7, <2>8, <2>9
<1> QED
    BY <1>1, <1>6, <1>7

\* f is what is left of v after each digit, h the buffer with all of them.
HexRounds(f, v, num, h) ==
  /\ f \in [0..num -> Int]
  /\ f[0] = v
  /\ \A i \in 0..(num - 1) : f[i] = 16 * f[i + 1] + (f[i] % 16)
  /\ \A x \in 0..(BufSize - 1) :
       h[x] = IF x < num THEN f[num - x - 1] % 16
              ELSE IF x = num THEN Nul ELSE out[x]
  /\ h = [x \in 0..(BufSize - 1) |-> h[x]]

\* The number is divided by 16 again and again, as >>= 4 does.
LEMMA HexDigits ==
  ASSUME out \in Buffer, NEW v \in Int, NEW num \in Nat
  PROVE  \E f : HexRounds(f, v, num, Hex(v, num))
<1> DEFINE G == [k \in 1..num |-> [d \in Int |-> d \div 16]]
           f == CHOOSE f : f = [i \in 0..num |-> IF i = 0 THEN v ELSE f[i - 1] \div 16]
<1>1. \E g : g = [i \in 0..num |-> IF i = 0 THEN v ELSE g[i - 1] \div 16]
  <2>1. \A k \in 1..num : \A d \in Int : G[k][d] = d \div 16 /\ d \div 16 \in Int
      OBVIOUS
  <2> HIDE DEF G
  <2>2. PICK g : Recurs(g, v, G, num)
    <3>1. \A x : \E g : Recurs(g, x, G, num)
        BY RecursionExists
    <3> QED
        BY <3>1
  <2>3. g \in [0..num -> Int]
    <3>1. \A k \in 1..num : \A d \in Int : G[k][d] \in Int
        BY <2>1
    <3> QED
        BY <2>2, <3>1, RecursionType
  <2>4. \A k \in 0..num : k # 0 => k \in 1..num /\ k - 1 \in 0..num
      OBVIOUS
  <2>5. \A k \in 0..num : k # 0 => G[k][g[k - 1]] = g[k - 1] \div 16
      BY <2>1, <2>3, <2>4
  <2>6. g = [i \in 0..num |-> IF i = 0 THEN v ELSE g[i - 1] \div 16]
      BY <2>2, <2>5 DEF Recurs
  <2> QED
      BY <2>6
<1>2. f = [i \in 0..num |-> IF i = 0 THEN v ELSE f[i - 1] \div 16]
    BY <1>1
<1>3. Hex(v, num) = [x \in DOMAIN out |-> IF x < num THEN f[num - x - 1] % 16
                                          ELSE IF x = num THEN Nul ELSE out[x]]
    BY DEF Hex
<1> HIDE DEF f, G
<1>4. f[0] = v /\ \A i \in 0..(num - 1) : f[i + 1] = f[i] \div 16
  <2>1. /\ 0 \in 0..num
        /\ \A i \in 0..(num - 1) : i + 1 \in 0..num /\ i + 1 # 0 /\ (i + 1) - 1 = i
      OBVIOUS
  <2> QED
      BY <1>2, <2>1
<1>5. \A i \in 0..num : f[i] \in Int
  <2> DEFINE S == {i \in 0..num : f[i] \in Int}
  <2>1. 0 \in S
      BY <1>4
  <2>2. ASSUME NEW k \in 0..(num - 1), k \in S
        PROVE  k + 1 \in S
    <3>1. k + 1 \in 0..num /\ f[k] \in Int
        BY <2>2
    <3>2. f[k] \div 16 \in Int
        BY <3>1
    <3> QED
        BY <1>4, <3>1, <3>2
  <2> HIDE DEF S
  <2>3. 0..num \subseteq S
      BY <2>1, <2>2, Reaches
  <2> QED
      BY <2>3 DEF S
<1>6. f \in [0..num -> Int]
    BY <1>2, <1>5
<1>7. \A i \in 0..(num - 1) : f[i] = 16 * f[i + 1] + (f[i] % 16)
  <2>1. \A d \in Int : d = 16 * (d \div 16) + (d % 16)
      OBVIOUS
  <2>2. \A i \in 0..(num - 1) : i \in 0..num
      OBVIOUS
  <2> QED
      BY <1>4, <1>5, <2>1, <2>2
<1>8. DOMAIN out = 0..(BufSize - 1)
    BY DEF Buffer
<1> QED
  <2> DEFINE h == Hex(v, num)
  <2>1. /\ \A x \in 0..(BufSize - 1) :
             h[x] = IF x < num THEN f[num - x - 1] % 16
                    ELSE IF x = num THEN Nul ELSE out[x]
        /\ h = [x \in 0..(BufSize - 1) |-> h[x]]
      BY <1>3, <1>8
  <2> HIDE DEF h
  <2>2. HexRounds(f, v, num, h)
      BY <1>4, <1>6, <1>7, <2>1 DEF HexRounds
  <2> QED
      BY <2>2 DEF h

\* ltox shows the number's remainder by that power of 16.
LEMMA HexRow ==
  ASSUME out \in Buffer, NEW v \in Int, NEW num \in Widths
  PROVE  LET h == Hex(v, num) IN
         /\ h \in Buffer /\ StrLen(h) = num
         /\ Reads(h, 0, num, 16) = v % Power(16, num)
<1> DEFINE h == Hex(v, num)
<1>1. /\ BufSize \in Nat /\ num \in Nat /\ num \in 0..(BufSize - 1) /\ 0 \in 0..BufSize
      /\ 16 \in Nat \ {0} /\ 0 + num <= BufSize
    BY NumbersAssumption
<1>2. PICK f : HexRounds(f, v, num, h)
    BY <1>1, HexDigits
<1> HIDE DEF h
<1>3. /\ f[0] = v
      /\ \A i \in 0..(num - 1) : f[i] = 16 * f[i + 1] + (f[i] % 16)
      /\ \A x \in 0..(BufSize - 1) :
           h[x] = IF x < num THEN f[num - x - 1] % 16
                  ELSE IF x = num THEN Nul ELSE out[x]
      /\ h = [x \in 0..(BufSize - 1) |-> h[x]]
    BY <1>2 DEF HexRounds
<1>4. \A i \in 0..num : f[i] \in Int
    BY <1>2 DEF HexRounds
<1>5. ASSUME NEW x \in 0..(num - 1)
      PROVE  h[x] = f[num - x - 1] % 16 /\ h[x] \in 0..15
  <2>1. x \in 0..(BufSize - 1) /\ x < num /\ num - x - 1 \in 0..num
      BY <1>1
  <2>2. h[x] = f[num - x - 1] % 16
      BY <1>3, <2>1
  <2>3. \A d \in Int : d % 16 \in 0..15
      OBVIOUS
  <2> QED
      BY <1>4, <2>1, <2>2, <2>3
<1>6. h[num] = Nul
    BY <1>1, <1>3
<1>7. h \in Buffer
  <2>1. \A x \in 0..(BufSize - 1) : out[x] \in Int
      BY DEF Buffer
  <2>2. ASSUME NEW x \in 0..(BufSize - 1)
        PROVE  h[x] \in Int
    <3>1. CASE x < num
      <4>1. x \in 0..(num - 1)
          BY <1>1, <3>1
      <4>2. h[x] \in 0..15
          BY <1>5, <4>1
      <4> QED
          BY <4>2
    <3>2. CASE x = num
        BY <1>6, <3>2 DEF Nul
    <3>3. CASE x > num
      <4>1. h[x] = out[x]
          BY <1>1, <1>3, <3>3
      <4> QED
          BY <2>1, <4>1
    <3> QED
        BY <1>1, <3>1, <3>2, <3>3
  <2> QED
      BY <1>3, <2>2 DEF Buffer
<1>8. StrLen(h) = num
  <2>1. \A x \in 0..(num - 1) : h[x] # Nul
    <3>1. \A d \in 0..15 : d # Nul
        BY DEF Nul
    <3> QED
        BY <1>5, <3>1
  <2>2. EndsAt(h, num)
      BY <1>6, <2>1 DEF EndsAt
  <2> QED
      BY <1>1, <1>7, <2>2, LengthIs
<1> DEFINE T == {k \in 0..num : Reads(h, 0, k, 16) + Power(16, k) * f[num] = f[num - k]}
<1>9. /\ Reads(h, 0, 0, 16) = 0
      /\ \A n \in 0..(BufSize - 0) : Reads(h, 0, n, 16) \in Int
      /\ \A n \in 0..(BufSize - 0 - 1) :
           Reads(h, 0, n + 1, 16) = 16 * Reads(h, 0, n, 16) + h[0 + n]
  <2>1. BufSize \in Nat /\ h \in Buffer /\ 0 \in 0..BufSize /\ 16 \in Nat
      BY <1>1, <1>7
  <2> QED
      BY <2>1, ReadSteps
<1>10. 0 \in T
  <2>1. num - 0 = num /\ num \in 0..num /\ 0 \in 0..num
      BY <1>1
  <2>2. f[num] \in Int
      BY <1>4, <2>1
  <2>3. Reads(h, 0, 0, 16) = 0
      BY <1>9
  <2>4. Power(16, 0) = 1
      BY <1>1, PowerSteps
  <2> QED
      BY <2>1, <2>2, <2>3, <2>4
<1>11. ASSUME NEW k \in 0..(num - 1), k \in T
      PROVE  k + 1 \in T
  <2> DEFINE a == Reads(h, 0, k, 16)
             P == Power(16, k)
             K == f[num]
  <2>1. /\ k + 1 \in 0..num /\ k \in 0..(BufSize - 0 - 1) /\ k \in 0..(BufSize - 0) /\ k \in Nat
        /\ num - k - 1 \in 0..(num - 1) /\ (num - k - 1) + 1 = num - k
        /\ num - (k + 1) = num - k - 1 /\ 0 + k = k /\ num \in 0..num
        /\ num - k \in 0..num /\ num - k - 1 \in 0..num
      BY <1>1
  <2>2. Reads(h, 0, k + 1, 16) = 16 * a + h[k] /\ a \in Int
      BY <1>9, <2>1
  <2>3. Power(16, k + 1) = 16 * P /\ P \in Nat
      BY <1>1, <2>1, PowerSteps
  <2>4. f[num - k - 1] = 16 * f[num - k] + h[k]
    <3>1. h[k] = f[num - k - 1] % 16
        BY <1>5
    <3>2. f[num - k - 1] = 16 * f[(num - k - 1) + 1] + (f[num - k - 1] % 16)
        BY <1>3, <2>1
    <3> QED
        BY <2>1, <3>1, <3>2
  <2>5. a + P * K = f[num - k]
      BY <1>11
  <2>6. K \in Int /\ f[num - k] \in Int /\ h[k] \in Int
    <3>1. \A d \in 0..15 : d \in Int
        OBVIOUS
    <3>2. h[k] \in Int
        BY <1>5, <3>1
    <3>3. K \in Int /\ f[num - k] \in Int
        BY <1>4, <2>1
    <3> QED
        BY <3>2, <3>3
  <2> HIDE DEF a, P, K, T
  <2>7. (16 * P) * K = 16 * (P * K) /\ P * K \in Int
      BY <2>3, <2>6
  <2>8. (16 * a + h[k]) + 16 * (P * K) = f[num - k - 1]
    <3> DEFINE m == P * K
               d == h[k]
               g == f[num - k]
    <3>1. a + m = g /\ a \in Int /\ m \in Int /\ d \in Int /\ g \in Int
        BY <2>2, <2>5, <2>6, <2>7
    <3> HIDE DEF m, d, g
    <3>2. (16 * a + d) + 16 * m = 16 * g + d
        BY <3>1
    <3> QED
        BY <2>4, <3>2 DEF m, d, g
  <2> QED
      BY <2>1, <2>2, <2>3, <2>7, <2>8 DEF T, K
<1> HIDE DEF T
<1>12. num \in T
  <2>1. 0..num \subseteq T
      BY <1>1, <1>10, <1>11, Reaches
  <2> QED
      BY <1>1, <2>1
<1> DEFINE V == Reads(h, 0, num, 16)
           P == Power(16, num)
           K == f[num]
<1>13. V + P * K = v /\ K \in Int
  <2>1. num - num = 0 /\ num \in 0..num
      BY <1>1
  <2> QED
      BY <1>3, <1>4, <1>12, <2>1 DEF T
<1>14. V \in 0..(P - 1) /\ P \in Nat \ {0}
  <2>1. \A i \in 0..(num - 1) : h[0 + i] \in 0..(16 - 1)
    <3>1. \A i \in 0..(num - 1) : 0 + i = i
        OBVIOUS
    <3> QED
        BY <1>5, <3>1
  <2> QED
      BY <1>1, <1>7, <2>1, ReadBound, PowerSteps
<1> HIDE DEF V, P, K
<1>15. v = K * P + V
    BY <1>13, <1>14
<1>16. V = v % P
    BY <1>13, <1>14, <1>15, OneQuotient
<1> QED
    BY <1>7, <1>8, <1>16 DEF V, P, h

-----------------------------------------------------------------------------
(* The invariant.  Every line is about one value of pc.                    *)

\* The bits of v that have left r are what the digits show, those in r remain.
Doubling(v, o, n, r, i) ==
  /\ n \in 0..1
  /\ n = 1 <=> v < 0
  /\ n = 1 => o[0] = Minus
  /\ Decimal(o, n, Digits)
  /\ o[n + Digits] = Nul
  /\ \E left \in 0..(Power(2, Bits - i) - 1) :
       /\ r = left * Power(2, i)
       /\ Magnitude(v) = Reads(o, n, Digits, 10) * Power(2, Bits - i) + left

\* The text that padn is to widen.
Narrow(v, o) ==
  \E n \in 1..Digits : /\ Decimal(o, 0, n)
                       /\ EndsAt(o, n)
                       /\ Reads(o, 0, n, 10) = v

NumbersType ==
  /\ fn \in {"ultoa", "ltoa", "ltox", "padn"}
  /\ value \in IF fn \in {"ultoa", "padn"} THEN Unsigned ELSE SignedLong
  /\ width \in Widths
  /\ iter \in 0..Bits
  /\ out \in Buffer
  /\ pc \in {"call", "double", "pad", "done"}

NumbersInv ==
  /\ NumbersType
  /\ pc = "call" => neg = 0 /\ iter = 0
  /\ pc = "double" => fn # "ltox" /\ Doubling(value, out, neg, rest, iter)
  /\ pc = "pad" => fn = "padn" /\ Narrow(value, out)
  /\ TextRight /\ HexRight /\ PadRight

\* What the conversions promise follows: the bits still in rest are a remainder.
LEMMA InvGivesRight ==
  ASSUME NumbersInv
  PROVE  NumbersRight
<1>1. ASSUME pc = "double"
      PROVE  /\ Decimal(out, neg, Digits)
             /\ Reads(out, neg, Digits, 10) = Magnitude(value) \div Power(2, Bits - iter)
  <2> DEFINE q == Reads(out, neg, Digits, 10)
             P == Power(2, Bits - iter)
  <2>1. /\ Decimal(out, neg, Digits) /\ neg \in 0..1
        /\ \E left \in 0..(P - 1) : Magnitude(value) = q * P + left
      BY <1>1 DEF NumbersInv, Doubling
  <2>2. /\ BufSize \in Nat /\ out \in Buffer /\ neg \in 0..BufSize /\ 10 \in Nat
        /\ Digits \in 0..(BufSize - neg) /\ Bits - iter \in Nat /\ 2 \in Nat \ {0}
      BY <2>1, NumbersAssumption DEF NumbersInv, NumbersType
  <2>3. q \in Int
      BY <2>2, ReadSteps
  <2>4. P \in Nat \ {0}
      BY <2>2, PowerSteps
  <2> HIDE DEF q, P
  <2>5. PICK left \in 0..(P - 1) : Magnitude(value) = q * P + left
      BY <2>1
  <2>6. (q * P + left) \div P = q
      BY <2>3, <2>4, OneQuotient
  <2> QED
      BY <2>1, <2>5, <2>6 DEF q, P
<1>2. DigitsDouble
    BY <1>1 DEF DigitsDouble
<1> QED
    BY <1>2 DEF NumbersInv, NumbersRight

LEMMA InvStarts ==
  ASSUME Init
  PROVE  NumbersInv
<1>1. NumbersType
  <2>1. AllJunk \in Buffer
      BY DEF AllJunk, Buffer, Junk
  <2>2. 0 \in 0..Bits
      BY NumbersAssumption
  <2> QED
      BY <2>1, <2>2 DEF Init, NumbersType
<1>2. TextRight /\ HexRight /\ PadRight
    BY DEF Init, TextRight, HexRight, PadRight
<1> QED
    BY <1>1, <1>2 DEF Init, NumbersInv

\* ultoa's loop starts with all of the number in rest and a row of zeroes.
LEMMA LoopStarts ==
  ASSUME NumbersInv, pc = "call", fn # "ltox",
         NEW n \in 0..1, NEW o \in Buffer,
         n = 1 <=> value < 0, n = 1 => o[0] = Minus,
         UltoaFrom(Magnitude(value), n, o), UNCHANGED <<fn, value, width, iter>>
  PROVE  NumbersInv'
<1> DEFINE c == Cleared(o, n)
<1>1. /\ neg' = n /\ rest' = Magnitude(value) /\ out' = c /\ pc' = "double"
      /\ fn' = fn /\ value' = value /\ width' = width /\ iter' = iter /\ iter = 0
    BY DEF UltoaFrom, NumbersInv
<1>2. /\ c \in Buffer /\ Decimal(c, n, Digits) /\ c[n + Digits] = Nul
      /\ \A x \in 0..(n - 1) : c[x] = o[x]
      /\ Reads(c, n, Digits, 10) = 0
    BY ClearedRow
<1> HIDE DEF c
<1>3. Doubling(value, c, n, Magnitude(value), 0)
  <2>1. n = 1 => c[0] = Minus
    <3>1. n = 1 => 0 \in 0..(n - 1)
        OBVIOUS
    <3> QED
        BY <1>2, <3>1
  <2>2. value \in Unsigned \cup SignedLong
      BY DEF NumbersInv, NumbersType
  <2>3. Magnitude(value) \in 0..(Power(2, Bits) - 1)
      BY <2>2, SizeFits
  <2>4. /\ Bits - 0 = Bits /\ Power(2, 0) = 1 /\ Power(2, Bits) \in Nat
        /\ Magnitude(value) \in Int
    <3>1. Bits \in Nat /\ 2 \in Nat \ {0}
        BY NumbersAssumption
    <3> QED
        BY <2>3, <3>1, PowerSteps
  <2> DEFINE S == Magnitude(value)
             P == Power(2, Bits)
  <2>5. S = S * 1 /\ S = 0 * P + S
    <3> HIDE DEF S, P
    <3> QED
        BY <2>4 DEF S, P
  <2>6. \E left \in 0..(Power(2, Bits - 0) - 1) :
          /\ S = left * Power(2, 0)
          /\ S = Reads(c, n, Digits, 10) * Power(2, Bits - 0) + left
      BY <1>2, <2>3, <2>4, <2>5
  <2> QED
      BY <1>2, <2>1, <2>6 DEF Doubling
<1>4. NumbersType'
    BY <1>1, <1>2 DEF NumbersInv, NumbersType
<1>5. (TextRight /\ HexRight /\ PadRight)'
    BY <1>1 DEF TextRight, HexRight, PadRight
<1>6. Doubling(value', out', neg', rest', iter')
    BY <1>1, <1>3
<1> QED
    BY <1>1, <1>4, <1>5, <1>6 DEF NumbersInv

-----------------------------------------------------------------------------
(* The steps keep it.                                                      *)

LEMMA UltoaKeeps ==
  ASSUME NumbersInv, Ultoa
  PROVE  NumbersInv'
<1>1. value \in Unsigned /\ out \in Buffer /\ pc = "call" /\ fn # "ltox"
    BY DEF NumbersInv, NumbersType, Ultoa
<1>2. Power(2, Bits) \in Nat \ {0}
  <2>1. Bits \in Nat /\ 2 \in Nat \ {0}
      BY NumbersAssumption
  <2> QED
      BY <2>1, PowerSteps
<1>3. value \in Int /\ ~(value < 0) /\ value % Power(2, Bits) = Magnitude(value)
  <2> DEFINE P == Power(2, Bits)
  <2>1. value \in 0..(P - 1)
      BY <1>1 DEF Unsigned
  <2> HIDE DEF P
  <2>2. 0 * P + value = value
      BY <1>2, <2>1 DEF P
  <2>3. (0 * P + value) % P = value
      BY <1>2, <2>1, OneQuotient DEF P
  <2>4. value % P = value
      BY <2>2, <2>3
  <2> QED
      BY <1>2, <2>1, <2>4 DEF P, Magnitude
<1>4. UltoaFrom(Magnitude(value), 0, out) /\ UNCHANGED <<fn, value, width, iter>>
    BY <1>3 DEF Ultoa
<1>5. 0 \in 0..1 /\ (0 = 1 <=> value < 0) /\ (0 = 1 => out[0] = Minus)
    BY <1>3
<1> QED
    BY <1>1, <1>4, <1>5, LoopStarts

LEMMA LtoaKeeps ==
  ASSUME NumbersInv, Ltoa
  PROVE  NumbersInv'
<1>1. /\ value \in SignedLong /\ out \in Buffer /\ pc = "call" /\ fn = "ltoa" /\ fn # "ltox"
      /\ UNCHANGED <<fn, value, width, iter>>
    BY DEF NumbersInv, NumbersType, Ltoa
<1>2. value \in Int
  <2>1. Bits - 1 \in Nat /\ 2 \in Nat \ {0}
      BY NumbersAssumption
  <2>2. Power(2, Bits - 1) \in Nat
      BY <2>1, PowerSteps
  <2> QED
      BY <1>1, <2>2 DEF SignedLong
<1>3. CASE value < 0
  <2> DEFINE o == [out EXCEPT ![0] = Minus]
  <2>1. o \in Buffer /\ o[0] = Minus
    <3>1. 0 \in 0..(BufSize - 1)
        BY NumbersAssumption
    <3> QED
        BY <1>1, <3>1 DEF Buffer, Minus
  <2>2. UltoaFrom(Magnitude(value), 1, o)
      BY <1>3 DEF Ltoa, Negated, Magnitude
  <2> HIDE DEF o
  <2>3. 1 \in 0..1 /\ (1 = 1 <=> value < 0)
      BY <1>3
  <2> QED
      BY <1>1, <2>1, <2>2, <2>3, LoopStarts
<1>4. CASE ~(value < 0)
  <2>1. UltoaFrom(Magnitude(value), 0, out)
      BY <1>4 DEF Ltoa, Magnitude
  <2>2. 0 \in 0..1 /\ (0 = 1 <=> value < 0) /\ (0 = 1 => out[0] = Minus)
      BY <1>4
  <2> QED
      BY <1>1, <2>1, <2>2, LoopStarts
<1> QED
    BY <1>3, <1>4

LEMMA LtoxKeeps ==
  ASSUME NumbersInv, Ltox
  PROVE  NumbersInv'
<1> DEFINE h == Hex(value, width)
<1>1. /\ value \in SignedLong /\ out \in Buffer /\ width \in Widths /\ fn = "ltox"
      /\ out' = h /\ pc' = "done" /\ UNCHANGED <<fn, value, width, neg, rest, iter>>
    BY DEF NumbersInv, NumbersType, Ltox
<1>2. value \in Int
  <2>1. Bits - 1 \in Nat /\ 2 \in Nat \ {0}
      BY NumbersAssumption
  <2>2. Power(2, Bits - 1) \in Nat
      BY <2>1, PowerSteps
  <2> QED
      BY <1>1, <2>2 DEF SignedLong
<1>3. h \in Buffer /\ StrLen(h) = width /\ Reads(h, 0, width, 16) = value % Power(16, width)
    BY <1>1, <1>2, HexRow
<1> HIDE DEF h
<1>4. NumbersType'
    BY <1>1, <1>3 DEF NumbersInv, NumbersType
<1>5. HexRight'
  <2>1. StrLen(out') = width' /\ Reads(out', 0, width', 16) = value' % Power(16, width')
      BY <1>1, <1>3
  <2> QED
      BY <2>1 DEF HexRight
<1>6. (TextRight /\ PadRight)'
    BY <1>1 DEF TextRight, PadRight
<1> QED
    BY <1>1, <1>4, <1>5, <1>6 DEF NumbersInv

\* A bit leaves rest and the digits take it in.  They have room for it, since
\* what they then show is still no more than the number.
LEMMA DoubleKeeps ==
  ASSUME NumbersInv, Double
  PROVE  NumbersInv'
<1> DEFINE q == Reads(out, neg, Digits, 10)
           c == TopBit(rest)
           s == Shifted(out, neg, c)
           m == Bits - (iter + 1)
<1>1. /\ pc = "double" /\ iter < Bits /\ out' = s /\ rest' = (2 * rest) % Power(2, Bits)
      /\ iter' = iter + 1 /\ UNCHANGED <<fn, value, width, neg, pc>>
    BY DEF Double
<1>2. /\ iter \in 0..(Bits - 1) /\ Bits \in Nat /\ out \in Buffer /\ m \in Nat /\ fn # "ltox"
      /\ 2 \in Nat \ {0} /\ 10 \in Nat \ {0} /\ BufSize \in Nat /\ Digits \in Nat
    BY <1>1, NumbersAssumption DEF NumbersInv, NumbersType
<1>3. Doubling(value, out, neg, rest, iter)
    BY <1>1 DEF NumbersInv
<1>4. /\ neg \in 0..1 /\ (neg = 1 <=> value < 0) /\ (neg = 1 => out[0] = Minus)
      /\ Decimal(out, neg, Digits) /\ out[neg + Digits] = Nul
    BY <1>3 DEF Doubling
<1>5. PICK left \in 0..(Power(2, Bits - iter) - 1) :
        rest = left * Power(2, iter) /\ Magnitude(value) = q * Power(2, Bits - iter) + left
    BY <1>3 DEF Doubling
<1>6. q \in Nat
  <2>1. /\ neg \in 0..BufSize /\ neg + Digits <= BufSize
        /\ \A i \in 0..(Digits - 1) : neg + i \in neg..(neg + Digits - 1)
      BY <1>2, <1>4, NumbersAssumption
  <2>2. \A i \in 0..(Digits - 1) : out[neg + i] \in 0..(10 - 1)
      BY <1>4, <2>1 DEF Decimal
  <2>3. q \in 0..(Power(10, Digits) - 1)
      BY <1>2, <2>1, <2>2, ReadBound
  <2> QED
      BY <2>3
<1>7. /\ c \in 0..1
      /\ \E t \in 0..(Power(2, m) - 1) :
           /\ rest' = t * Power(2, iter + 1)
           /\ Magnitude(value) = (2 * q + c) * Power(2, m) + t
  <2> HIDE DEF q
  <2>1. LET b == TopBit(left * Power(2, iter)) IN
        /\ b \in 0..1
        /\ \E t \in 0..(Power(2, Bits - (iter + 1)) - 1) :
             /\ (2 * (left * Power(2, iter))) % Power(2, Bits) = t * Power(2, iter + 1)
             /\ q * Power(2, Bits - iter) + left = (2 * q + b) * Power(2, Bits - (iter + 1)) + t
      BY <1>2, <1>6, BitMoves
  <2> QED
      BY <1>1, <1>5, <2>1
<1>8. 2 * q + c < Power(10, Digits)
  <2> DEFINE P == Power(2, m)
             w == 2 * q + c
             S == Magnitude(value)
  <2>1. PICK t \in 0..(P - 1) : S = w * P + t
      BY <1>7
  <2>2. P \in Nat \ {0} /\ w \in Nat
    <3>1. c \in 0..1
        BY <1>7
    <3> HIDE DEF q, c, m
    <3>2. P \in Nat \ {0}
        BY <1>2, PowerSteps
    <3>3. w \in Nat
        BY <1>6, <3>1
    <3> QED
        BY <3>2, <3>3
  <2>3. S < Power(2, Bits) /\ S \in Nat /\ Power(2, Bits) \in Nat
    <3>1. value \in Unsigned \cup SignedLong
        BY DEF NumbersInv, NumbersType
    <3>2. S \in 0..(Power(2, Bits) - 1)
        BY <3>1, SizeFits
    <3>3. Power(2, Bits) \in Nat
        BY <1>2, PowerSteps
    <3> QED
        BY <3>2, <3>3
  <2>4. Power(2, Bits) <= Power(10, Digits) /\ Power(10, Digits) \in Nat
      BY <1>2, PowerSteps, NumbersAssumption
  <2> HIDE DEF P, w, S
  <2>5. w * P >= w * 1
      BY <2>2
  <2>6. w * P \in Nat /\ w * 1 = w /\ t \in Nat
      BY <2>1, <2>2
  <2>7. w <= S
    <3> DEFINE y == w * P
    <3>1. y >= w /\ y \in Nat /\ S = y + t
        BY <2>1, <2>5, <2>6
    <3> HIDE DEF y
    <3> QED
        BY <2>2, <2>6, <3>1
  <2>8. w < Power(10, Digits)
      BY <2>2, <2>3, <2>4, <2>7
  <2> QED
      BY <2>8 DEF w
<1>9. /\ s \in Buffer /\ Decimal(s, neg, Digits)
      /\ \A x \in 0..(BufSize - 1) : x \notin neg..(neg + Digits - 1) => s[x] = out[x]
      /\ Reads(s, neg, Digits, 10) = 2 * q + c
    BY <1>2, <1>4, <1>7, <1>8, ShiftDoubles
<1>10. Doubling(value, s, neg, rest', iter + 1)
  <2>1. s[neg + Digits] = Nul /\ (neg = 1 => s[0] = Minus)
    <3>1. /\ neg + Digits \in 0..(BufSize - 1) /\ neg + Digits \notin neg..(neg + Digits - 1)
          /\ 0 \in 0..(BufSize - 1) /\ (neg = 1 => 0 \notin neg..(neg + Digits - 1))
        BY <1>2, <1>4, NumbersAssumption
    <3> HIDE DEF s
    <3> QED
        BY <1>4, <1>9, <3>1
  <2>2. \E t \in 0..(Power(2, Bits - (iter + 1)) - 1) :
          /\ rest' = t * Power(2, iter + 1)
          /\ Magnitude(value) = Reads(s, neg, Digits, 10) * Power(2, Bits - (iter + 1)) + t
      BY <1>7, <1>9
  <2> QED
      BY <1>4, <1>9, <2>1, <2>2 DEF Doubling
<1> HIDE DEF s, c, q, m
<1>11. Doubling(value', out', neg', rest', iter')
    BY <1>1, <1>10
<1>12. NumbersType'
    BY <1>1, <1>2, <1>9 DEF NumbersInv, NumbersType
<1>13. (TextRight /\ HexRight /\ PadRight)'
    BY <1>1 DEF TextRight, HexRight, PadRight
<1> QED
    BY <1>1, <1>2, <1>11, <1>12, <1>13 DEF NumbersInv

\* With the last bit in, the digits show the number; the leading zeroes go.
LEMMA StripKeeps ==
  ASSUME NumbersInv, Strip
  PROVE  NumbersInv'
<1> DEFINE org == Skipped(out, neg)
           len == neg + Digits - org
           p == [x \in DOMAIN out |->
                   IF x \in neg..(neg + len) THEN out[x + org - neg] ELSE out[x]]
           q == Reads(out, neg, Digits, 10)
<1>1. /\ pc = "double" /\ iter = Bits /\ out' = p
      /\ pc' = (IF fn = "padn" THEN "pad" ELSE "done")
      /\ UNCHANGED <<fn, value, width, neg, rest, iter>>
    BY DEF Strip
<1>2. /\ Bits \in Nat /\ out \in Buffer /\ fn \in {"ultoa", "ltoa", "padn"}
      /\ 2 \in Nat \ {0} /\ 10 \in Nat \ {0} /\ BufSize \in Nat /\ Digits \in Nat
      /\ Digits + 2 <= BufSize
    BY <1>1, NumbersAssumption DEF NumbersInv, NumbersType
<1>3. Doubling(value, out, neg, rest, Bits)
    BY <1>1 DEF NumbersInv
<1>4. /\ neg \in 0..1 /\ (neg = 1 <=> value < 0) /\ (neg = 1 => out[0] = Minus)
      /\ Decimal(out, neg, Digits) /\ out[neg + Digits] = Nul
    BY <1>3 DEF Doubling
<1>5. Magnitude(value) = q
  <2>1. Bits - Bits = 0 /\ Power(2, 0) = 1
      BY <1>2, PowerSteps
  <2>2. \E left \in 0..(1 - 1) : Magnitude(value) = q * 1 + left
      BY <1>3, <2>1 DEF Doubling
  <2>3. neg \in 0..BufSize /\ Digits \in 0..(BufSize - neg) /\ 10 \in Nat
      BY <1>2, <1>4
  <2>4. q \in Int
      BY <1>2, <2>3, ReadSteps
  <2> HIDE DEF q
  <2> QED
      BY <2>2, <2>4
<1>6. /\ p \in Buffer /\ len \in 1..Digits /\ StrLen(p) = neg + len /\ p[neg + len] = Nul
      /\ Decimal(p, neg, len) /\ \A x \in 0..(neg - 1) : p[x] = out[x]
      /\ Reads(p, neg, len, 10) = q
      /\ p[neg] = 0 => len = 1
  <2>1. \A x \in 0..(neg - 1) : out[x] # Nul
    <3>1. \A x \in 0..(neg - 1) : x = 0 /\ neg = 1
        BY <1>4
    <3> QED
        BY <1>4, <3>1 DEF Minus, Nul
  <2> QED
      BY <1>2, <1>4, <2>1, Stripped
<1> HIDE DEF p, len, org, q
<1>7. NumbersType'
    BY <1>1, <1>6 DEF NumbersInv, NumbersType
<1>8. HexRight'
    BY <1>1, <1>2 DEF HexRight
<1>9. CASE fn = "padn"
  <2>1. pc' = "pad" /\ fn' = "padn"
      BY <1>1, <1>9
  <2>2. value \in Nat
    <3>1. Power(2, Bits) \in Nat
        BY <1>2, PowerSteps
    <3> QED
        BY <1>9, <3>1 DEF NumbersInv, NumbersType, Unsigned
  <2>3. neg = 0 /\ Magnitude(value) = value
      BY <1>4, <2>2 DEF Magnitude
  <2>4. EndsAt(p, len)
    <3>1. ASSUME NEW x \in 0..(len - 1)
          PROVE  p[x] # Nul
      <4>1. x \in neg..(neg + len - 1)
          BY <1>6, <2>3
      <4> QED
          BY <1>6, <4>1 DEF Decimal, Nul
    <3>2. 0 + len = len
        BY <1>6
    <3> QED
        BY <1>6, <2>3, <3>1, <3>2 DEF EndsAt
  <2>5. Narrow(value', out')
      BY <1>1, <1>5, <1>6, <2>3, <2>4 DEF Narrow
  <2>6. (TextRight /\ PadRight)'
      BY <2>1 DEF TextRight, PadRight
  <2> QED
      BY <1>7, <1>8, <2>1, <2>5, <2>6 DEF NumbersInv
<1>10. CASE fn # "padn"
  <2>1. pc' = "done" /\ fn' # "padn"
      BY <1>1, <1>10
  <2>2. StrLen(p) - neg = len
      BY <1>4, <1>6
  <2>3. neg = 1 => p[0] = Minus
    <3>1. neg = 1 => 0 \in 0..(neg - 1)
        BY <1>4
    <3> QED
        BY <1>4, <1>6, <3>1
  <2>4. len > 0
      BY <1>2, <1>6
  <2>5. LET digits == StrLen(p) - neg IN
        /\ neg = 1 <=> value < 0
        /\ neg = 1 => p[0] = Minus
        /\ digits > 0
        /\ Decimal(p, neg, digits)
        /\ Reads(p, neg, digits, 10) = Magnitude(value)
        /\ p[neg] = 0 => digits = 1
      BY <1>4, <1>5, <1>6, <2>2, <2>3, <2>4
  <2>6. TextRight'
      BY <1>1, <2>5 DEF TextRight
  <2>7. PadRight'
      BY <2>1 DEF PadRight
  <2> QED
      BY <1>7, <1>8, <2>1, <2>6, <2>7 DEF NumbersInv
<1> QED
    BY <1>9, <1>10

LEMMA PadKeeps ==
  ASSUME NumbersInv, Pad
  PROVE  NumbersInv'
<1> DEFINE p == Padded(out, Space, width)
           first == Min({x \in DOMAIN p : p[x] # Space})
           end == StrLen(p)
<1>1. /\ out' = p /\ pc' = "done" /\ fn = "padn" /\ out \in Buffer /\ width \in Widths
      /\ UNCHANGED <<fn, value, width, neg, rest, iter>> /\ Narrow(value, out)
    BY DEF Pad, NumbersInv, NumbersType
<1>2. PICK n \in 1..Digits :
        Decimal(out, 0, n) /\ EndsAt(out, n) /\ Reads(out, 0, n, 10) = value
    BY <1>1 DEF Narrow
<1>3. /\ p \in Buffer /\ first < end /\ Decimal(p, first, end - first)
      /\ Reads(p, first, end - first, 10) = value
      /\ (first > 0 => end = width) /\ end >= width
    BY <1>1, <1>2, PaddedText
<1> HIDE DEF p
<1>4. NumbersType'
    BY <1>1, <1>3 DEF NumbersInv, NumbersType
<1>5. PadRight'
    BY <1>1, <1>3 DEF PadRight
<1>6. (TextRight /\ HexRight)'
    BY <1>1 DEF TextRight, HexRight
<1> QED
    BY <1>1, <1>4, <1>5, <1>6 DEF NumbersInv

\* What ultoa, ltoa, ltox and padn print reads as the number they were given, with
\* its sign and no leading zero, as the low digits that were asked for, or padded
\* in front only; for the lowest long as well, and whatever the width of a long.
THEOREM ConversionsRight == Spec => []NumbersRight
<1>1. Init => NumbersInv
    BY InvStarts
<1>2. NumbersInv /\ [Next]_vars => NumbersInv'
  <2> SUFFICES ASSUME NumbersInv, [Next]_vars
               PROVE  NumbersInv'
      OBVIOUS
  <2>1. CASE Ultoa
      BY <2>1, UltoaKeeps
  <2>2. CASE Ltoa
      BY <2>2, LtoaKeeps
  <2>3. CASE Ltox
      BY <2>3, LtoxKeeps
  <2>4. CASE Double
      BY <2>4, DoubleKeeps
  <2>5. CASE Strip
      BY <2>5, StripKeeps
  <2>6. CASE Pad
      BY <2>6, PadKeeps
  <2>7. CASE UNCHANGED vars
    <3>1. NumbersType'
        BY <2>7 DEF vars, NumbersInv, NumbersType
    <3>2. (TextRight /\ HexRight /\ PadRight)'
        BY <2>7 DEF vars, NumbersInv, TextRight, HexRight, PadRight
    <3> QED
        BY <2>7, <3>1, <3>2 DEF vars, NumbersInv
  <2> QED
      BY <2>1, <2>2, <2>3, <2>4, <2>5, <2>6, <2>7 DEF Next
<1>3. NumbersInv => NumbersRight
    BY InvGivesRight
<1> QED
    BY <1>1, <1>2, <1>3, PTL DEF Spec


-----------------------------------------------------------------------------
(* Loops of string.c.                                                      *)

\* A recursive function from the end of a range down: x at its end, and G[i] of
\* the value behind before.
RecursDown(f, lo, hi, x, G) ==
  f = [i \in lo..hi |-> IF i = hi THEN x ELSE G[i][f[i + 1]]]

LEMMA DownExists ==
  ASSUME NEW lo \in Int, NEW hi \in Int, lo <= hi, NEW x, NEW G
  PROVE  \E f : RecursDown(f, lo, hi, x, G)
<1> DEFINE H == [k \in 1..(hi - lo) |-> G[hi - k]]
<1>1. PICK g : Recurs(g, x, H, hi - lo)
  <2> HIDE DEF H
  <2>1. hi - lo \in Nat
      OBVIOUS
  <2>2. \A y, F : \E g : Recurs(g, y, F, hi - lo)
      BY <2>1, RecursionExists
  <2> QED
      BY <2>2
<1> DEFINE f == [i \in lo..hi |-> g[hi - i]]
<1>2. ASSUME NEW i \in lo..hi
      PROVE  f[i] = IF i = hi THEN x ELSE G[i][f[i + 1]]
  <2>1. CASE i = hi
    <3>1. 0 \in 0..(hi - lo) /\ hi - i = 0
        BY <2>1
    <3>2. g[0] = x
        BY <1>1, <3>1 DEF Recurs
    <3> QED
        BY <2>1, <3>1, <3>2
  <2>2. CASE i # hi
    <3> DEFINE k == hi - i
    <3>1. /\ k \in 0..(hi - lo) /\ k \in 1..(hi - lo) /\ k # 0 /\ hi - k = i
          /\ i + 1 \in lo..hi /\ hi - (i + 1) = k - 1
        BY <2>2
    <3>2. f[i] = g[k] /\ f[i + 1] = g[k - 1] /\ H[k] = G[i]
        BY <3>1
    <3> HIDE DEF k, f, H
    <3>3. g[k] = H[k][g[k - 1]]
        BY <1>1, <3>1 DEF Recurs
    <3> QED
        BY <2>2, <3>2, <3>3
  <2> QED
      BY <2>1, <2>2
<1>3. f = [i \in lo..hi |-> f[i]]
    OBVIOUS
<1> HIDE DEF f
<1>4. f = [i \in lo..hi |-> IF i = hi THEN x ELSE G[i][f[i + 1]]]
    BY <1>2, <1>3
<1> QED
    BY <1>4 DEF RecursDown

\* A search: what v has for the first member of H, or z when there is none.
Scans(f, lo, hi, H, v, z) ==
  f = [i \in lo..hi |-> IF i = hi THEN z ELSE IF i \in H THEN v[i] ELSE f[i + 1]]

LEMMA ScanExists ==
  ASSUME NEW lo \in Int, NEW hi \in Int, lo <= hi, NEW H, NEW v, NEW z
  PROVE  \E f : Scans(f, lo, hi, H, v, z)
<1> DEFINE D == {z} \cup {v[i] : i \in lo..hi}
           G == [i \in lo..hi |-> [d \in D |-> IF i \in H THEN v[i] ELSE d]]
<1>1. PICK f : RecursDown(f, lo, hi, z, G)
  <2> HIDE DEF G
  <2>1. \A y, F : \E g : RecursDown(g, lo, hi, y, F)
      BY DownExists
  <2> QED
      BY <2>1
<1>2. \A i \in lo..hi : \A d \in D : G[i][d] = IF i \in H THEN v[i] ELSE d
    OBVIOUS
<1>3. z \in D /\ \A i \in lo..hi : v[i] \in D
    OBVIOUS
<1> HIDE DEF D, G
<1>4. /\ \A i \in lo..hi : f[i] = IF i = hi THEN z ELSE G[i][f[i + 1]]
      /\ f = [i \in lo..hi |-> f[i]]
    BY <1>1 DEF RecursDown
<1> DEFINE S == {k \in 0..(hi - lo) : f[hi - k] \in D}
<1>5. 0..(hi - lo) \subseteq S
  <2>1. 0 \in S
    <3>1. 0 \in 0..(hi - lo) /\ hi - 0 = hi /\ hi \in lo..hi
        OBVIOUS
    <3> QED
        BY <1>3, <1>4, <3>1
  <2>2. ASSUME NEW k \in 0..((hi - lo) - 1), k \in S
        PROVE  k + 1 \in S
    <3>1. /\ k + 1 \in 0..(hi - lo) /\ hi - (k + 1) \in lo..hi /\ hi - (k + 1) # hi
          /\ (hi - (k + 1)) + 1 = hi - k
        OBVIOUS
    <3>2. f[hi - k] \in D
        BY <2>2
    <3>3. f[hi - (k + 1)] = G[hi - (k + 1)][f[hi - k]]
        BY <1>4, <3>1
    <3> QED
        BY <1>2, <1>3, <3>1, <3>2, <3>3
  <2> HIDE DEF S
  <2>3. hi - lo \in Nat
      OBVIOUS
  <2> QED
      BY <2>1, <2>2, <2>3, Reaches
<1>6. \A i \in lo..hi : f[i] \in D
  <2> SUFFICES ASSUME NEW i \in lo..hi PROVE f[i] \in D
      OBVIOUS
  <2>1. hi - i \in 0..(hi - lo) /\ hi - (hi - i) = i
      OBVIOUS
  <2> QED
      BY <1>5, <2>1
<1>7. \A i \in lo..hi : i # hi => f[i] = IF i \in H THEN v[i] ELSE f[i + 1]
  <2> SUFFICES ASSUME NEW i \in lo..hi, i # hi
               PROVE  f[i] = IF i \in H THEN v[i] ELSE f[i + 1]
      OBVIOUS
  <2>1. i + 1 \in lo..hi
      OBVIOUS
  <2>2. f[i + 1] \in D
      BY <1>6, <2>1
  <2> QED
      BY <1>2, <1>4, <2>2
<1>8. f[hi] = z
    BY <1>4
<1>9. f = [i \in lo..hi |-> IF i = hi THEN z ELSE IF i \in H THEN v[i] ELSE f[i + 1]]
    BY <1>4, <1>7, <1>8
<1> QED
    BY <1>9 DEF Scans

\* Before the first member of H a search goes on.
LEMMA ScanGoesOn ==
  ASSUME NEW lo \in Int, NEW hi \in Int, NEW H, NEW v, NEW z, NEW f,
         Scans(f, lo, hi, H, v, z), NEW p \in lo..hi, NEW e \in p..hi,
         \A i \in p..(e - 1) : i \notin H
  PROVE  f[p] = f[e]
<1> DEFINE S == {k \in Nat : p + k <= e => f[p + k] = f[p]}
<1>1. \A i \in lo..hi : i # hi => f[i] = IF i \in H THEN v[i] ELSE f[i + 1]
    BY DEF Scans
<1>2. 0 \in S
  <2>1. p + 0 = p
      OBVIOUS
  <2> QED
      BY <2>1
<1>3. ASSUME NEW k \in 0..((e - p) - 1), k \in S
      PROVE  k + 1 \in S
  <2>1. /\ p + k \in p..(e - 1) /\ p + k \in lo..hi /\ p + k # hi
        /\ p + (k + 1) = (p + k) + 1 /\ k + 1 \in Nat /\ p + k <= e
      OBVIOUS
  <2>2. f[p + k] = f[p]
      BY <1>3, <2>1
  <2>3. f[p + k] = f[(p + k) + 1]
      BY <1>1, <2>1
  <2> QED
      BY <2>1, <2>2, <2>3
<1> HIDE DEF S
<1>4. e - p \in Nat
    OBVIOUS
<1>5. 0..(e - p) \subseteq S
    BY <1>2, <1>3, <1>4, Reaches
<1>6. e - p \in S /\ p + (e - p) = e
    BY <1>4, <1>5
<1> QED
    BY <1>6 DEF S

LEMMA ScanFindsFirst ==
  ASSUME NEW lo \in Int, NEW hi \in Int, NEW H, NEW v, NEW z, NEW f,
         Scans(f, lo, hi, H, v, z), NEW p \in lo..hi
  PROVE  /\ (\A i \in p..(hi - 1) : i \notin H) => f[p] = z
         /\ \A e \in p..(hi - 1) : 
              e \in H /\ (\A i \in p..(e - 1) : i \notin H) => f[p] = v[e]
<1>1. /\ \A i \in lo..hi : i # hi => f[i] = IF i \in H THEN v[i] ELSE f[i + 1]
      /\ f[hi] = z
    BY DEF Scans
<1>2. \A e \in p..hi : (\A i \in p..(e - 1) : i \notin H) => f[p] = f[e]
    BY ScanGoesOn
<1>3. ASSUME \A i \in p..(hi - 1) : i \notin H
      PROVE  f[p] = z
  <2>1. hi \in p..hi
      OBVIOUS
  <2> QED
      BY <1>1, <1>2, <1>3, <2>1
<1>4. ASSUME NEW e \in p..(hi - 1), e \in H, \A i \in p..(e - 1) : i \notin H
      PROVE  f[p] = v[e]
  <2>1. e \in p..hi /\ e \in lo..hi /\ e # hi
      OBVIOUS
  <2> QED
      BY <1>1, <1>2, <1>4, <2>1
<1> QED
    BY <1>3, <1>4

\* A count: how far it is to the first member of H, or to the end.
Counts(f, lo, hi, H) ==
  f = [i \in lo..hi |-> IF i = hi \/ i \in H THEN 0 ELSE 1 + f[i + 1]]

LEMMA CountExists ==
  ASSUME NEW lo \in Int, NEW hi \in Int, lo <= hi, NEW H
  PROVE  \E f : Counts(f, lo, hi, H)
<1> DEFINE G == [i \in lo..hi |-> [d \in Int |-> IF i \in H THEN 0 ELSE 1 + d]]
<1>1. PICK f : RecursDown(f, lo, hi, 0, G)
  <2> HIDE DEF G
  <2>1. \A y, F : \E g : RecursDown(g, lo, hi, y, F)
      BY DownExists
  <2> QED
      BY <2>1
<1>2. \A i \in lo..hi : \A d \in Int : G[i][d] = IF i \in H THEN 0 ELSE 1 + d
    OBVIOUS
<1> HIDE DEF G
<1>4. /\ \A i \in lo..hi : f[i] = IF i = hi THEN 0 ELSE G[i][f[i + 1]]
      /\ f = [i \in lo..hi |-> f[i]]
    BY <1>1 DEF RecursDown
<1> DEFINE S == {k \in 0..(hi - lo) : f[hi - k] \in Int}
<1>5. 0..(hi - lo) \subseteq S
  <2>1. 0 \in S
    <3>1. 0 \in 0..(hi - lo) /\ hi - 0 = hi /\ hi \in lo..hi
        OBVIOUS
    <3> QED
        BY <1>4, <3>1
  <2>2. ASSUME NEW k \in 0..((hi - lo) - 1), k \in S
        PROVE  k + 1 \in S
    <3>1. /\ k + 1 \in 0..(hi - lo) /\ hi - (k + 1) \in lo..hi /\ hi - (k + 1) # hi
          /\ (hi - (k + 1)) + 1 = hi - k
        OBVIOUS
    <3>2. f[hi - k] \in Int
        BY <2>2
    <3>3. f[hi - (k + 1)] = G[hi - (k + 1)][f[hi - k]]
        BY <1>4, <3>1
    <3>4. f[hi - (k + 1)] \in Int
        BY <1>2, <3>1, <3>2, <3>3
    <3> QED
        BY <3>1, <3>4
  <2> HIDE DEF S
  <2>3. hi - lo \in Nat
      OBVIOUS
  <2> QED
      BY <2>1, <2>2, <2>3, Reaches
<1>6. \A i \in lo..hi : f[i] \in Int
  <2> SUFFICES ASSUME NEW i \in lo..hi PROVE f[i] \in Int
      OBVIOUS
  <2>1. hi - i \in 0..(hi - lo) /\ hi - (hi - i) = i
      OBVIOUS
  <2> QED
      BY <1>5, <2>1
<1>7. \A i \in lo..hi : f[i] = IF i = hi \/ i \in H THEN 0 ELSE 1 + f[i + 1]
  <2> SUFFICES ASSUME NEW i \in lo..hi, i # hi
               PROVE  f[i] = IF i \in H THEN 0 ELSE 1 + f[i + 1]
      BY <1>4
  <2>1. i + 1 \in lo..hi
      OBVIOUS
  <2>2. f[i + 1] \in Int
      BY <1>6, <2>1
  <2> QED
      BY <1>2, <1>4, <2>2
<1>8. f = [i \in lo..hi |-> IF i = hi \/ i \in H THEN 0 ELSE 1 + f[i + 1]]
    BY <1>4, <1>7
<1> QED
    BY <1>8 DEF Counts

LEMMA CountIs ==
  ASSUME NEW lo \in Int, NEW hi \in Int, NEW H, NEW f, Counts(f, lo, hi, H),
         NEW p \in lo..hi, NEW e \in p..hi, e = hi \/ e \in H,
         \A i \in p..(e - 1) : i \notin H
  PROVE  f[p] = e - p
<1> DEFINE S == {k \in 0..(e - p) : f[e - k] = k}
<1>1. \A i \in lo..hi : f[i] = IF i = hi \/ i \in H THEN 0 ELSE 1 + f[i + 1]
    BY DEF Counts
<1>2. 0 \in S
  <2>1. e - 0 = e /\ e \in lo..hi /\ 0 \in 0..(e - p)
      OBVIOUS
  <2> QED
      BY <1>1, <2>1
<1>3. ASSUME NEW k \in 0..((e - p) - 1), k \in S
      PROVE  k + 1 \in S
  <2>1. /\ e - (k + 1) \in p..(e - 1) /\ e - (k + 1) \in lo..hi /\ e - (k + 1) # hi
        /\ (e - (k + 1)) + 1 = e - k /\ k + 1 \in 0..(e - p) /\ k \in Int
      OBVIOUS
  <2>2. f[e - k] = k
      BY <1>3
  <2>3. f[e - (k + 1)] = 1 + k
      BY <1>1, <2>1, <2>2
  <2> QED
      BY <2>1, <2>3
<1> HIDE DEF S
<1>4. e - p \in Nat
    OBVIOUS
<1>5. 0..(e - p) \subseteq S
    BY <1>2, <1>3, <1>4, Reaches
<1>6. e - p \in S /\ e - (e - p) = p
    BY <1>4, <1>5
<1> QED
    BY <1>6 DEF S

-----------------------------------------------------------------------------
(* Strings and their ends.                                                 *)

Memory == [Addr -> 0..255]

\* The string at p has its terminator at e.
EndsWith(m, p, e) ==
  /\ p \in Addr /\ e \in p..Size /\ m[e] = 0
  /\ \A a \in p..(e - 1) : m[a] # 0

LEMMA StringEnds ==
  ASSUME NEW m, NEW p \in Addr, \E a \in Addr : a >= p /\ m[a] = 0
  PROVE  \E e \in p..Size : EndsWith(m, p, e)
<1> DEFINE T == {a \in Addr : a >= p /\ m[a] = 0}
<1>1. T \in SUBSET Nat /\ T # {} /\ \A a \in T : a \in p..Size /\ m[a] = 0
    BY StringsAssumption DEF Addr
<1>2. \A a \in p..Size : m[a] = 0 => a \in T
    BY StringsAssumption DEF Addr
<1> HIDE DEF T
<1>3. PICK e \in T : \A a \in T : e <= a
    BY <1>1, LeastNumber
<1>4. e \in p..Size /\ m[e] = 0
    BY <1>1, <1>3
<1>5. \A a \in p..(e - 1) : m[a] # 0
  <2> SUFFICES ASSUME NEW a \in p..(e - 1), m[a] = 0 PROVE FALSE
      OBVIOUS
  <2>1. a \in p..Size /\ ~(e <= a)
      BY <1>4, StringsAssumption DEF Addr
  <2> QED
      BY <1>2, <1>3, <2>1
<1> QED
    BY <1>4, <1>5 DEF EndsWith

LEMMA LeastIs ==
  ASSUME NEW T \in SUBSET Int, NEW e \in T, \A x \in T : e <= x
  PROVE  Min(T) = e
<1>1. \E x \in T : \A y \in T : x <= y
    OBVIOUS
<1>2. Min(T) \in T /\ \A y \in T : Min(T) <= y
    BY <1>1 DEF Min
<1>3. Min(T) <= e /\ e <= Min(T) /\ Min(T) \in Int /\ e \in Int
    BY <1>2
<1>4. \A x, y \in Int : x <= y /\ y <= x => x = y
    OBVIOUS
<1> QED
    BY <1>3, <1>4

LEMMA GreatestIs ==
  ASSUME NEW T \in SUBSET Int, NEW e \in T, \A x \in T : e >= x
  PROVE  Max(T) = e
<1>1. \E x \in T : \A y \in T : x >= y
    OBVIOUS
<1>2. Max(T) \in T /\ \A y \in T : Max(T) >= y
    BY <1>1 DEF Max
<1>3. Max(T) >= e /\ e >= Max(T) /\ Max(T) \in Int /\ e \in Int
    BY <1>2
<1>4. \A x, y \in Int : x >= y /\ y >= x => x = y
    OBVIOUS
<1> QED
    BY <1>3, <1>4

LEMMA TextIs ==
  ASSUME NEW m, NEW p, NEW e, EndsWith(m, p, e)
  PROVE  /\ Text(m, p) = [i \in 1..(e - p) |-> m[p + i - 1]]
         /\ Len(Text(m, p)) = e - p /\ e - p \in Nat
         /\ DOMAIN Text(m, p) = 1..(e - p)
         /\ \A i \in 1..(e - p) : Text(m, p)[i] = m[p + i - 1]
<1> DEFINE T == {a \in p..Size : m[a] = 0}
<1>1. /\ p \in Int /\ e \in Int /\ p <= e /\ e <= Size
      /\ e \in T /\ T \in SUBSET Int /\ \A x \in T : e <= x
    BY StringsAssumption DEF EndsWith, Addr
<1>2. Min(T) = e
    BY <1>1, LeastIs
<1> HIDE DEF T
<1>3. Text(m, p) = [i \in 1..(e - p) |-> m[p + i - 1]]
    BY <1>2 DEF Text, T
<1>4. e - p \in Nat
    BY <1>1
<1>5. DOMAIN Text(m, p) = 1..(e - p) /\ Len(Text(m, p)) = e - p
    BY <1>3, <1>4
<1> QED
    BY <1>3, <1>4, <1>5

LEMMA LengthOfString ==
  ASSUME NEW m, NEW p, NEW e, EndsWith(m, p, e)
  PROVE  strlen(m, p) = e - p
<1> DEFINE H == {a \in Addr : m[a] = 0}
           len == CHOOSE len : len = [a \in 1..MemEnd |->
                    IF a = MemEnd \/ m[a] = 0 THEN 0 ELSE 1 + len[a + 1]]
<1>1. \A f : Counts(f, 1, MemEnd, H)
               <=> f = [a \in 1..MemEnd |-> IF a = MemEnd \/ m[a] = 0 THEN 0 ELSE 1 + f[a + 1]]
  <2> SUFFICES ASSUME NEW f
               PROVE  [a \in 1..MemEnd |-> IF a = MemEnd \/ a \in H THEN 0 ELSE 1 + f[a + 1]]
                      = [a \in 1..MemEnd |-> IF a = MemEnd \/ m[a] = 0 THEN 0 ELSE 1 + f[a + 1]]
      BY DEF Counts
  <2>1. \A a \in 1..MemEnd : a = MemEnd \/ a \in H <=> a = MemEnd \/ m[a] = 0
      BY StringsAssumption DEF MemEnd, Addr
  <2> QED
      BY <2>1
<1>2. 1 \in Int /\ MemEnd \in Int /\ 1 <= MemEnd
    BY StringsAssumption DEF MemEnd
<1>3. \E f : Counts(f, 1, MemEnd, H)
    BY <1>2, CountExists
<1>4. Counts(len, 1, MemEnd, H)
    BY <1>1, <1>3
<1>5. /\ p \in 1..MemEnd /\ e \in p..MemEnd /\ e \in H /\ p # NULL
      /\ \A i \in p..(e - 1) : i \notin H
    BY StringsAssumption DEF EndsWith, Addr, MemEnd, NULL
<1>6. strlen(m, p) = len[p]
    BY <1>5 DEF strlen
<1> HIDE DEF H, len
<1> QED
    BY <1>2, <1>4, <1>5, <1>6, CountIs

-----------------------------------------------------------------------------
(* Copies.                                                                 *)

\* n bytes from s on are at d.
Moved(m, d, s, n) == [a \in Addr |-> IF a \in d..(d + n - 1) THEN m[a - d + s] ELSE m[a]]

LEMMA MovedType ==
  ASSUME NEW m \in Memory, NEW d \in Int, NEW s \in Addr, NEW n \in Nat, s + n - 1 <= Size
  PROVE  Moved(m, d, s, n) \in Memory
<1>1. \A a \in Addr : a \in d..(d + n - 1) => a - d + s \in Addr
    BY StringsAssumption DEF Addr
<1> QED
    BY <1>1 DEF Moved, Memory

\* The copy from the first byte on reads no byte it has written.
LEMMA CopyUpMoves ==
  ASSUME NEW m \in Memory, NEW d \in Addr, NEW s \in Addr, NEW n \in Nat,
         s > d, d + n - 1 <= Size, s + n - 1 <= Size
  PROVE  CopyUp(m, d, s, n) = Moved(m, d, s, n)
<1> DEFINE G == [i \in 1..n |-> [t \in Memory |-> [t EXCEPT ![d + i - 1] = t[s + i - 1]]]]
           to == CHOOSE to : to = [i \in 0..n |->
                   IF i = 0 THEN m ELSE [to[i - 1] EXCEPT ![d + i - 1] = to[i - 1][s + i - 1]]]
<1>1. \A i \in 1..n : d + i - 1 \in Addr /\ s + i - 1 \in Addr
    BY StringsAssumption DEF Addr
<1>2. \A i \in 1..n : \A t \in Memory :
        /\ G[i][t] = [t EXCEPT ![d + i - 1] = t[s + i - 1]]
        /\ G[i][t] \in Memory
    BY <1>1 DEF Memory
<1>3. \E f : f = [i \in 0..n |->
                   IF i = 0 THEN m ELSE [f[i - 1] EXCEPT ![d + i - 1] = f[i - 1][s + i - 1]]]
  <2> HIDE DEF G
  <2>1. PICK f : Recurs(f, m, G, n)
    <3>1. \A x, F : \E f : Recurs(f, x, F, n)
        BY RecursionExists
    <3> QED
        BY <3>1
  <2>2. f \in [0..n -> Memory]
      BY <1>2, <2>1, RecursionType
  <2>3. \A i \in 0..n : i # 0 =>
          G[i][f[i - 1]] = [f[i - 1] EXCEPT ![d + i - 1] = f[i - 1][s + i - 1]]
    <3> SUFFICES ASSUME NEW i \in 0..n, i # 0
                 PROVE  G[i][f[i - 1]] = [f[i - 1] EXCEPT ![d + i - 1] = f[i - 1][s + i - 1]]
        OBVIOUS
    <3>1. i \in 1..n /\ i - 1 \in 0..n
        OBVIOUS
    <3> QED
        BY <1>2, <2>2, <3>1
  <2>4. f = [i \in 0..n |->
              IF i = 0 THEN m ELSE [f[i - 1] EXCEPT ![d + i - 1] = f[i - 1][s + i - 1]]]
      BY <2>1, <2>3 DEF Recurs
  <2> QED
      BY <2>4
<1>4. to = [i \in 0..n |->
             IF i = 0 THEN m ELSE [to[i - 1] EXCEPT ![d + i - 1] = to[i - 1][s + i - 1]]]
    BY <1>3
<1>5. CopyUp(m, d, s, n) = to[n]
    BY DEF CopyUp
<1> HIDE DEF G, to
<1> DEFINE S == {i \in 0..n : to[i] = Moved(m, d, s, i)}
<1>6. 0 \in S
  <2>1. to[0] = m
      BY <1>4
  <2>2. Moved(m, d, s, 0) = m
    <3>1. \A a \in Addr : a \notin d..(d + 0 - 1)
        BY DEF Addr
    <3> QED
        BY <3>1 DEF Moved, Memory
  <2> QED
      BY <2>1, <2>2
<1>7. ASSUME NEW i \in 0..(n - 1), i \in S
      PROVE  i + 1 \in S
  <2> DEFINE t == Moved(m, d, s, i)
  <2>1. /\ i + 1 \in 0..n /\ i + 1 # 0 /\ (i + 1) - 1 = i /\ d + (i + 1) - 1 = d + i
        /\ s + (i + 1) - 1 = s + i /\ d + i \in Addr /\ s + i \in Addr
        /\ s + i \notin d..(d + i - 1)
      BY StringsAssumption DEF Addr
  <2>2. to[i] = t
      BY <1>7
  <2>3. to[i + 1] = [t EXCEPT ![d + i] = t[s + i]]
    <3>1. to[i + 1] = [to[(i + 1) - 1] EXCEPT ![d + (i + 1) - 1] = to[(i + 1) - 1][s + (i + 1) - 1]]
        BY <1>4, <2>1
    <3> QED
        BY <2>1, <2>2, <3>1
  <2>4. t[s + i] = m[s + i]
      BY <2>1 DEF Moved
  <2>5. ASSUME NEW a \in Addr
        PROVE  [t EXCEPT ![d + i] = m[s + i]][a] = Moved(m, d, s, i + 1)[a]
    <3>1. /\ DOMAIN t = Addr
          /\ t[a] = IF a \in d..(d + i - 1) THEN m[a - d + s] ELSE m[a]
          /\ Moved(m, d, s, i + 1)[a]
               = IF a \in d..(d + (i + 1) - 1) THEN m[a - d + s] ELSE m[a]
        BY DEF Moved
    <3>2. CASE a = d + i
      <4>1. a \in d..(d + (i + 1) - 1) /\ a - d + s = s + i
          BY <3>2 DEF Addr
      <4> QED
          BY <3>1, <3>2, <4>1
    <3>3. CASE a # d + i
      <4>1. a \in d..(d + (i + 1) - 1) <=> a \in d..(d + i - 1)
          BY <3>3 DEF Addr
      <4>2. [t EXCEPT ![d + i] = m[s + i]][a] = t[a]
          BY <3>1, <3>3
      <4> QED
          BY <3>1, <4>1, <4>2
    <3> QED
        BY <3>2, <3>3
  <2>6. /\ [t EXCEPT ![d + i] = m[s + i]] = [a \in Addr |-> [t EXCEPT ![d + i] = m[s + i]][a]]
        /\ Moved(m, d, s, i + 1) = [a \in Addr |-> Moved(m, d, s, i + 1)[a]]
      BY DEF Moved
  <2> HIDE DEF t
  <2>7. [t EXCEPT ![d + i] = m[s + i]] = Moved(m, d, s, i + 1)
      BY <2>5, <2>6
  <2> QED
      BY <2>1, <2>3, <2>4, <2>7
<1> HIDE DEF S
<1>8. 0..n \subseteq S
    BY <1>6, <1>7, Reaches
<1>9. n \in 0..n
    OBVIOUS
<1> QED
    BY <1>5, <1>8, <1>9 DEF S

\* Nor does the copy from the last byte on.
LEMMA CopyDownMoves ==
  ASSUME NEW m \in Memory, NEW d \in Addr, NEW s \in Addr, NEW n \in Nat,
         s <= d, d + n - 1 <= Size, s + n - 1 <= Size
  PROVE  CopyDown(m, d, s, n) = Moved(m, d, s, n)
<1> DEFINE G == [i \in 0..(n - 1) |-> [t \in Memory |-> [t EXCEPT ![d + i] = t[s + i]]]]
           from == CHOOSE from : from = [i \in 0..n |->
                     IF i = n THEN m ELSE [from[i + 1] EXCEPT ![d + i] = from[i + 1][s + i]]]
           \* After k rounds the last k bytes are moved.
           Rest(k) == [a \in Addr |-> IF a \in (d + n - k)..(d + n - 1) THEN m[a - d + s] ELSE m[a]]
<1>1. \A i \in 0..(n - 1) : d + i \in Addr /\ s + i \in Addr
    BY StringsAssumption DEF Addr
<1>2. \A i \in 0..(n - 1) : \A t \in Memory :
        /\ G[i][t] = [t EXCEPT ![d + i] = t[s + i]]
        /\ G[i][t] \in Memory
    BY <1>1 DEF Memory
<1>3. \E f : f = [i \in 0..n |->
                   IF i = n THEN m ELSE [f[i + 1] EXCEPT ![d + i] = f[i + 1][s + i]]]
  <2> HIDE DEF G
  <2>1. PICK f : RecursDown(f, 0, n, m, G)
    <3>1. \A x, F : \E f : RecursDown(f, 0, n, x, F)
        BY DownExists
    <3> QED
        BY <3>1
  <2>2. \A i \in 0..n : f[i] = IF i = n THEN m ELSE G[i][f[i + 1]]
      BY <2>1 DEF RecursDown
  <2>3. \A i \in 0..n : f[i] \in Memory
    <3> DEFINE S == {k \in 0..n : f[n - k] \in Memory}
    <3>1. 0 \in S
      <4>1. n - 0 = n /\ n \in 0..n /\ 0 \in 0..n
          OBVIOUS
      <4> QED
          BY <2>2, <4>1
    <3>2. ASSUME NEW k \in 0..(n - 1), k \in S
          PROVE  k + 1 \in S
      <4>1. /\ k + 1 \in 0..n /\ n - (k + 1) \in 0..(n - 1) /\ n - (k + 1) \in 0..n
            /\ n - (k + 1) # n /\ (n - (k + 1)) + 1 = n - k
          OBVIOUS
      <4>2. f[n - k] \in Memory
          BY <3>2
      <4>3. f[n - (k + 1)] = G[n - (k + 1)][f[n - k]]
          BY <2>2, <4>1
      <4>4. f[n - (k + 1)] \in Memory
          BY <1>2, <4>1, <4>2, <4>3
      <4> QED
          BY <4>1, <4>4
    <3> HIDE DEF S
    <3>3. 0..n \subseteq S
        BY <3>1, <3>2, Reaches
    <3> SUFFICES ASSUME NEW i \in 0..n PROVE f[i] \in Memory
        OBVIOUS
    <3>4. n - i \in 0..n /\ n - (n - i) = i
        OBVIOUS
    <3> QED
        BY <3>3, <3>4 DEF S
  <2>4. \A i \in 0..n : i # n =>
          G[i][f[i + 1]] = [f[i + 1] EXCEPT ![d + i] = f[i + 1][s + i]]
    <3> SUFFICES ASSUME NEW i \in 0..n, i # n
                 PROVE  G[i][f[i + 1]] = [f[i + 1] EXCEPT ![d + i] = f[i + 1][s + i]]
        OBVIOUS
    <3>1. i \in 0..(n - 1) /\ i + 1 \in 0..n
        OBVIOUS
    <3> QED
        BY <1>2, <2>3, <3>1
  <2>5. f = [i \in 0..n |->
              IF i = n THEN m ELSE [f[i + 1] EXCEPT ![d + i] = f[i + 1][s + i]]]
      BY <2>1, <2>4 DEF RecursDown
  <2> QED
      BY <2>5
<1>4. from = [i \in 0..n |->
               IF i = n THEN m ELSE [from[i + 1] EXCEPT ![d + i] = from[i + 1][s + i]]]
    BY <1>3
<1>5. CopyDown(m, d, s, n) = from[0]
    BY DEF CopyDown
<1> HIDE DEF G, from
<1> DEFINE S == {k \in 0..n : from[n - k] = Rest(k)}
<1>6. 0 \in S
  <2>1. from[n] = m /\ n - 0 = n /\ 0 \in 0..n
      BY <1>4
  <2>2. Rest(0) = m
    <3>1. \A a \in Addr : a \notin (d + n - 0)..(d + n - 1)
        BY DEF Addr
    <3> QED
        BY <3>1 DEF Memory
  <2> QED
      BY <2>1, <2>2
<1>7. ASSUME NEW k \in 0..(n - 1), k \in S
      PROVE  k + 1 \in S
  <2> DEFINE i == n - (k + 1)
             t == Rest(k)
  <2>1. /\ i \in 0..n /\ i # n /\ i + 1 = n - k /\ k + 1 \in 0..n /\ i \in Int
        /\ d + n - k = d + i + 1 /\ d + n - (k + 1) = d + i
        /\ d + i \in Addr /\ s + i \in Addr /\ s + i \notin (d + n - k)..(d + n - 1)
      BY StringsAssumption DEF Addr
  <2>2. from[i + 1] = t
      BY <1>7, <2>1
  <2>9. i = n - (k + 1)
      OBVIOUS
  <2> HIDE DEF i
  <2>3. from[i] = [t EXCEPT ![d + i] = t[s + i]]
      BY <1>4, <2>1, <2>2
  <2>4. t[s + i] = m[s + i]
      BY <2>1
  <2>5. ASSUME NEW a \in Addr
        PROVE  [t EXCEPT ![d + i] = m[s + i]][a] = Rest(k + 1)[a]
    <3>1. /\ DOMAIN t = Addr
          /\ t[a] = IF a \in (d + i + 1)..(d + n - 1) THEN m[a - d + s] ELSE m[a]
          /\ Rest(k + 1)[a] = IF a \in (d + i)..(d + n - 1) THEN m[a - d + s] ELSE m[a]
        BY <2>1
    <3>2. CASE a = d + i
      <4>1. a \in (d + i)..(d + n - 1) /\ a - d + s = s + i
          BY <2>1, <3>2 DEF Addr
      <4> QED
          BY <3>1, <3>2, <4>1
    <3>3. CASE a # d + i
      <4>1. a \in (d + i)..(d + n - 1) <=> a \in (d + i + 1)..(d + n - 1)
          BY <2>1, <3>3 DEF Addr
      <4>2. [t EXCEPT ![d + i] = m[s + i]][a] = t[a]
          BY <3>1, <3>3
      <4> QED
          BY <3>1, <4>1, <4>2
    <3> QED
        BY <3>2, <3>3
  <2>6. /\ [t EXCEPT ![d + i] = m[s + i]] = [a \in Addr |-> [t EXCEPT ![d + i] = m[s + i]][a]]
        /\ Rest(k + 1) = [a \in Addr |-> Rest(k + 1)[a]]
      OBVIOUS
  <2> HIDE DEF t, Rest
  <2>7. [t EXCEPT ![d + i] = m[s + i]] = Rest(k + 1)
      BY <2>5, <2>6
  <2> QED
      BY <2>1, <2>3, <2>4, <2>7, <2>9
<1>8. Rest(n) = Moved(m, d, s, n)
  <2>1. d + n - n = d
      BY DEF Addr
  <2> QED
      BY <2>1 DEF Moved
<1> HIDE DEF S, Rest
<1>9. 0..n \subseteq S
    BY <1>6, <1>7, Reaches
<1>10. n \in 0..n /\ n - n = 0
    OBVIOUS
<1> QED
    BY <1>5, <1>8, <1>9, <1>10 DEF S

LEMMA MemcpyMoves ==
  ASSUME NEW m \in Memory, NEW d \in Addr, NEW s \in Addr, NEW n \in Nat,
         d + n - 1 <= Size, s + n - 1 <= Size
  PROVE  memcpy(m, d, s, n) = IF s <= d /\ n = 0 THEN Res(m, Fault)
                              ELSE Res(Moved(m, d, s, n), d)
<1>1. d # NULL /\ s # NULL /\ d \in Int /\ s \in Int
    BY DEF Addr, NULL
<1>2. CASE s > d
  <2>1. CopyUp(m, d, s, n) = Moved(m, d, s, n)
      BY <1>2, CopyUpMoves
  <2> QED
      BY <1>1, <1>2, <2>1 DEF memcpy
<1>3. CASE s <= d
  <2>1. CopyDown(m, d, s, n) = Moved(m, d, s, n)
      BY <1>3, CopyDownMoves
  <2> QED
      BY <1>1, <1>3, <2>1 DEF memcpy
<1> QED
    BY <1>1, <1>2, <1>3

LEMMA TextType ==
  ASSUME NEW m \in Memory, NEW p, NEW e, EndsWith(m, p, e)
  PROVE  Text(m, p) \in Seq(0..255)
<1> DEFINE k == e - p
<1>1. /\ Text(m, p) = [i \in 1..k |-> m[p + i - 1]] /\ k \in Nat
    BY TextIs
<1>2. \A i \in 1..k : p + i - 1 \in Addr
    BY StringsAssumption DEF EndsWith, Addr
<1>3. \A i \in 1..k : m[p + i - 1] \in 0..255
    BY <1>2 DEF Memory
<1> HIDE DEF k
<1>4. Text(m, p) \in [1..k -> 0..255]
    BY <1>1, <1>3
<1> QED
    BY <1>1, <1>4

LEMMA FirstNIs ==
  ASSUME NEW B, NEW t \in Seq(B), NEW n \in Nat
  PROVE  LET k == IF n < Len(t) THEN n ELSE Len(t)
         IN /\ k \in Nat /\ FirstN(t, n) \in Seq(B) /\ Len(FirstN(t, n)) = k
            /\ DOMAIN FirstN(t, n) = 1..k
            /\ \A i \in 1..k : FirstN(t, n)[i] = t[i]
<1> DEFINE k == IF n < Len(t) THEN n ELSE Len(t)
<1>1. k \in 0..Len(t) /\ k \in Nat
    OBVIOUS
<1>2. FirstN(t, n) = SubSeq(t, 1, k)
    BY DEF FirstN
<1> HIDE DEF k
<1>3. /\ SubSeq(t, 1, k) \in Seq(B) /\ Len(SubSeq(t, 1, k)) = k
      /\ \A i \in 1..k : SubSeq(t, 1, k)[i] = t[i]
    BY <1>1
<1>4. DOMAIN SubSeq(t, 1, k) = 1..k
    BY <1>3
<1> QED
    BY <1>1, <1>2, <1>3, <1>4 DEF k

\* What a sequence put into memory leaves there.
LEMMA PutIs ==
  ASSUME NEW m, NEW p \in Int, NEW n \in Nat, NEW t, Len(t) = n, NEW u,
         u = [a \in Addr |-> u[a]],
         \A a \in Addr : a \notin p..(p + n - 1) => u[a] = m[a],
         \A i \in 1..n : p + i - 1 \in Addr => u[p + i - 1] = t[i]
  PROVE  u = Put(m, p, t)
<1>1. ASSUME NEW a \in Addr
      PROVE  u[a] = IF a \in p..(p + Len(t) - 1) THEN t[a - p + 1] ELSE m[a]
  <2>1. CASE a \in p..(p + n - 1)
    <3>1. a - p + 1 \in 1..n /\ p + (a - p + 1) - 1 = a
        BY <2>1
    <3> QED
        BY <2>1, <3>1
  <2> QED
      BY <2>1
<1> QED
    BY <1>1 DEF Put

LEMMA MovedIsPut ==
  ASSUME NEW m, NEW d \in Int, NEW s \in Int, NEW n \in Nat, NEW t, Len(t) = n,
         \A i \in 1..n : t[i] = m[s + i - 1]
  PROVE  Moved(m, d, s, n) = Put(m, d, t)
<1>1. ASSUME NEW a \in Addr, a \in d..(d + n - 1)
      PROVE  t[a - d + 1] = m[a - d + s]
  <2>1. a - d + 1 \in 1..n /\ s + (a - d + 1) - 1 = a - d + s
      BY <1>1
  <2> QED
      BY <2>1
<1> QED
    BY <1>1 DEF Moved, Put

\* What a copying call is to leave: want in memory, or nothing to copy.
Copied(r, d, want, nothing) ==
  \/ r.mem = want /\ r.ret = d
  \/ r.ret = Fault /\ nothing

LEMMA MemcpyRight ==
  ASSUME NEW m \in Memory, NEW d \in Ptr, NEW s \in Ptr, NEW n \in Nat,
         Fits(d, n), Fits(s, n)
  PROVE  /\ memcpy(m, d, s, n).mem \in Memory
         /\ d # NULL /\ s # NULL =>
              Copied(memcpy(m, d, s, n), d, Put(m, d, [i \in 1..n |-> m[s + i - 1]]), n = 0)
<1>1. CASE d = NULL \/ s = NULL
    BY <1>1 DEF memcpy, Res
<1>2. CASE d # NULL /\ s # NULL
  <2>1. d \in Addr /\ s \in Addr /\ d \in Int /\ s \in Int
      BY <1>2 DEF Ptr, Addr
  <2>2. d + n - 1 <= Size /\ s + n - 1 <= Size
      BY <1>2 DEF Fits
  <2>3. memcpy(m, d, s, n) = IF s <= d /\ n = 0 THEN Res(m, Fault) ELSE Res(Moved(m, d, s, n), d)
      BY <2>1, <2>2, MemcpyMoves
  <2>4. Moved(m, d, s, n) \in Memory
      BY <2>1, <2>2, MovedType
  <2> DEFINE t == [i \in 1..n |-> m[s + i - 1]]
  <2>5. Len(t) = n /\ \A i \in 1..n : t[i] = m[s + i - 1]
      OBVIOUS
  <2> HIDE DEF t
  <2>6. Moved(m, d, s, n) = Put(m, d, t)
      BY <2>1, <2>5, MovedIsPut
  <2> QED
      BY <2>3, <2>4, <2>6 DEF Copied, Res, t
<1> QED
    BY <1>1, <1>2

LEMMA StrcpyRight ==
  ASSUME NEW m \in Memory, NEW d \in Ptr, NEW s \in Ptr,
         \E a \in Addr : a >= s /\ m[a] = 0, Fits(d, strlen(m, s) + 1)
  PROVE  /\ strcpy(m, d, s).mem \in Memory
         /\ d # NULL /\ s # NULL =>
              Copied(strcpy(m, d, s), d, Put(m, d, Text(m, s) \o <<0>>), Text(m, s) = <<>>)
<1>1. CASE d = NULL \/ s = NULL
    BY <1>1 DEF strcpy, Res
<1>2. CASE d # NULL /\ s # NULL
  <2>1. d \in Addr /\ s \in Addr /\ d \in Int /\ s \in Int
      BY <1>2 DEF Ptr, Addr
  <2>2. PICK e \in s..Size : EndsWith(m, s, e)
      BY <2>1, StringEnds
  <2> DEFINE n == e - s + 1
  <2>3. strlen(m, s) = e - s /\ strlen(m, s) + 1 = n /\ e \in Int /\ m[e] = 0
      BY <2>2, LengthOfString DEF EndsWith
  <2>4. n \in Nat /\ n # 0 /\ d + n - 1 <= Size /\ s + n - 1 <= Size
      BY <1>2, <2>1, <2>2, <2>3, StringsAssumption DEF Fits
  <2>5. strcpy(m, d, s) = memcpy(m, d, s, n)
      BY <1>2, <2>3 DEF strcpy
  <2>6. strcpy(m, d, s) = Res(Moved(m, d, s, n), d) /\ Moved(m, d, s, n) \in Memory
    <3> HIDE DEF n
    <3> QED
        BY <2>1, <2>4, <2>5, MemcpyMoves, MovedType
  <2> DEFINE t == Text(m, s) \o <<0>>
  <2>7. Len(t) = n /\ \A i \in 1..n : t[i] = m[s + i - 1]
    <3>1. /\ Text(m, s) \in Seq(0..255) /\ Len(Text(m, s)) = e - s
          /\ \A i \in 1..(e - s) : Text(m, s)[i] = m[s + i - 1]
        BY <2>2, TextIs, TextType
    <3>2. <<0>> \in Seq(0..255) /\ Len(<<0>>) = 1 /\ <<0>>[1] = 0
        OBVIOUS
    <3>3. Len(t) = n
        BY <3>1, <3>2
    <3>4. ASSUME NEW i \in 1..n
          PROVE  t[i] = m[s + i - 1]
      <4>1. CASE i <= e - s
          BY <3>1, <3>2, <4>1
      <4>2. CASE i = e - s + 1
        <5>1. s + i - 1 = e
            BY <2>1, <2>3, <4>2
        <5>2. t[i] = 0
            BY <3>1, <3>2, <4>2
        <5> QED
            BY <2>3, <5>1, <5>2
      <4>3. i <= e - s \/ i = e - s + 1
          BY <2>1, <2>3
      <4> HIDE DEF t
      <4> QED
          BY <4>1, <4>2, <4>3
    <3> QED
        BY <3>3, <3>4
  <2> HIDE DEF t, n
  <2>8. Moved(m, d, s, n) = Put(m, d, t)
      BY <2>1, <2>4, <2>7, MovedIsPut
  <2> QED
      BY <2>6, <2>8 DEF Copied, Res, t
<1> QED
    BY <1>1, <1>2

LEMMA StrncatRight ==
  ASSUME NEW m \in Memory, NEW d \in Ptr, NEW s \in Ptr, NEW n \in Nat,
         \E a \in Addr : a >= s /\ m[a] = 0, \E a \in Addr : a >= d /\ m[a] = 0,
         Fits(d, strlen(m, d) + strlen(m, s) + 1)
  PROVE  /\ strncat(m, d, s, n).mem \in Memory
         /\ d # NULL /\ s # NULL =>
              Copied(strncat(m, d, s, n), d,
                     Put(m, d + Len(Text(m, d)), FirstN(Text(m, s), n) \o <<0>>),
                     n = 0 \/ Text(m, s) = <<>>)
<1>1. CASE d = NULL \/ s = NULL
    BY <1>1 DEF strncat, Res
<1>2. CASE d # NULL /\ s # NULL
  <2>1. d \in Addr /\ s \in Addr /\ d \in Int /\ s \in Int
      BY <1>2 DEF Ptr, Addr
  <2>2. PICK e \in s..Size : EndsWith(m, s, e)
      BY <2>1, StringEnds
  <2>3. PICK f \in d..Size : EndsWith(m, d, f)
      BY <2>1, StringEnds
  <2> DEFINE n1 == IF e - s > n THEN n ELSE e - s
  <2>4. /\ strlen(m, s) = e - s /\ strlen(m, d) = f - d /\ e \in Int /\ f \in Int
        /\ d + strlen(m, d) = f /\ f \in Addr
    <3>1. strlen(m, s) = e - s /\ strlen(m, d) = f - d
        BY <2>2, <2>3, LengthOfString
    <3> QED
        BY <2>1, <3>1, StringsAssumption DEF Addr
  <2>5. f + (e - s) <= Size
      BY <1>2, <2>1, <2>4 DEF Fits
  <2>6. n1 \in Nat /\ n1 <= e - s /\ f + n1 - 1 <= Size /\ s + n1 - 1 <= Size /\ f + n1 \in Addr
      BY <2>1, <2>2, <2>3, <2>4, <2>5, StringsAssumption DEF Addr
  <2> DEFINE c == memcpy(m, f, s, n1)
  <2>7. strncat(m, d, s, n) = IF c.ret = Fault THEN c ELSE Res([c.mem EXCEPT ![f + n1] = 0], d)
      BY <1>2, <2>4 DEF strncat
  <2>8. c = IF s <= f /\ n1 = 0 THEN Res(m, Fault) ELSE Res(Moved(m, f, s, n1), f)
      BY <2>1, <2>4, <2>6, MemcpyMoves
  <2>9. Moved(m, f, s, n1) \in Memory
      BY <2>1, <2>4, <2>6, MovedType
  <2>10. /\ Text(m, s) \in Seq(0..255) /\ Len(Text(m, s)) = e - s /\ Len(Text(m, d)) = f - d
         /\ \A i \in 1..(e - s) : Text(m, s)[i] = m[s + i - 1]
      BY <2>2, <2>3, TextIs, TextType
  <2>11. f # Fault
      BY <2>4 DEF Addr, Fault
  <2>12. CASE s <= f /\ n1 = 0
    <3>1. strncat(m, d, s, n) = Res(m, Fault)
        BY <2>7, <2>8, <2>12 DEF Res
    <3>2. n = 0 \/ e - s = 0
        BY <2>4, <2>12
    <3>3. Len(Text(m, s)) = 0 => Text(m, s) = <<>>
        BY <2>10
    <3> QED
        BY <2>10, <3>1, <3>2, <3>3 DEF Copied, Res
  <2>13. CASE ~(s <= f /\ n1 = 0)
    <3> DEFINE u == [Moved(m, f, s, n1) EXCEPT ![f + n1] = 0]
               t == FirstN(Text(m, s), n) \o <<0>>
    <3>1. strncat(m, d, s, n) = Res(u, d)
        BY <2>7, <2>8, <2>11, <2>13 DEF Res
    <3>2. u \in Memory
        BY <2>9 DEF Memory
    <3>3. /\ Len(t) = n1 + 1 /\ t[n1 + 1] = 0
          /\ \A i \in 1..n1 : t[i] = m[s + i - 1]
      <4> DEFINE g == FirstN(Text(m, s), n)
      <4>1. g \in Seq(0..255) /\ Len(g) = n1 /\ \A i \in 1..n1 : g[i] = Text(m, s)[i]
        <5>1. n1 = IF n < Len(Text(m, s)) THEN n ELSE Len(Text(m, s))
            BY <2>4, <2>10
        <5> HIDE DEF n1
        <5> QED
            BY <2>10, <5>1, FirstNIs
      <4> HIDE DEF g, n1
      <4>2. /\ Len(g \o <<0>>) = n1 + 1 /\ (g \o <<0>>)[n1 + 1] = 0
            /\ \A i \in 1..n1 : (g \o <<0>>)[i] = g[i]
          BY <2>6, <4>1
      <4>3. \A i \in 1..n1 : i \in 1..(e - s)
          BY <2>1, <2>4, <2>6
      <4> QED
          BY <2>10, <4>1, <4>2, <4>3 DEF g
    <3>4. u = [a \in Addr |-> u[a]]
        BY <3>2 DEF Memory
    <3> HIDE DEF t, n1
    <3>5. ASSUME NEW a \in Addr, a \notin f..(f + (n1 + 1) - 1)
          PROVE  u[a] = m[a]
      <4>1. a # f + n1 /\ a \notin f..(f + n1 - 1)
          BY <2>4, <2>6, <3>5 DEF Addr
      <4> QED
          BY <4>1 DEF Moved
    <3>6. ASSUME NEW i \in 1..(n1 + 1), f + i - 1 \in Addr
          PROVE  u[f + i - 1] = t[i]
      <4>1. CASE i = n1 + 1
        <5>1. f + i - 1 = f + n1
            BY <2>4, <2>6, <4>1
        <5>2. u[f + n1] = 0
            BY <2>6 DEF Moved
        <5> QED
            BY <3>3, <4>1, <5>1, <5>2
      <4>2. CASE i # n1 + 1
        <5>1. /\ i \in 1..n1 /\ f + i - 1 # f + n1 /\ f + i - 1 \in f..(f + n1 - 1)
              /\ (f + i - 1) - f + s = s + i - 1
            BY <2>1, <2>4, <2>6, <4>2
        <5>2. u[f + i - 1] = m[s + i - 1]
            BY <3>6, <5>1 DEF Moved
        <5> QED
            BY <3>3, <5>1, <5>2
      <4> QED
          BY <4>1, <4>2
    <3> HIDE DEF u
    <3>7. n1 + 1 \in Nat /\ f \in Int /\ d + Len(Text(m, d)) = f
        BY <2>1, <2>4, <2>6, <2>10
    <3>8. u = Put(m, f, t)
        BY <3>3, <3>4, <3>5, <3>6, <3>7, PutIs
    <3> QED
        BY <3>1, <3>2, <3>7, <3>8 DEF Copied, Res, t
  <2> QED
      BY <2>12, <2>13
<1> QED
    BY <1>1, <1>2

LEMMA StrncpyRight ==
  ASSUME NEW m \in Memory, NEW d \in Ptr, NEW s \in Ptr, NEW n \in Nat,
         \E a \in Addr : a >= s /\ m[a] = 0, Fits(d, n)
  PROVE  /\ strncpy(m, d, s, n).mem \in Memory
         /\ d # NULL /\ s # NULL =>
              Copied(strncpy(m, d, s, n), d,
                     Put(m, d, [i \in 1..n |-> IF i <= Len(Text(m, s)) THEN Text(m, s)[i] ELSE 0]),
                     n = 0 \/ Text(m, s) = <<>>)
<1>1. CASE d = NULL \/ s = NULL
    BY <1>1 DEF strncpy, Res
<1>2. CASE d # NULL /\ s # NULL
  <2>1. d \in Addr /\ s \in Addr /\ d \in Int /\ s \in Int
      BY <1>2 DEF Ptr, Addr
  <2>2. PICK e \in s..Size : EndsWith(m, s, e)
      BY <2>1, StringEnds
  <2> DEFINE k == e - s
             t == [i \in 1..n |-> IF i <= Len(Text(m, s)) THEN Text(m, s)[i] ELSE 0]
  <2>3. /\ strlen(m, s) = k /\ k \in Nat /\ e \in Int /\ e <= Size /\ s + k = e
        /\ d + n - 1 <= Size
    <3>1. strlen(m, s) = k
        BY <2>2, LengthOfString
    <3> QED
        BY <1>2, <2>1, <3>1, StringsAssumption DEF Fits
  <2>4. /\ Len(Text(m, s)) = k /\ Text(m, s) \in Seq(0..255)
        /\ \A i \in 1..k : Text(m, s)[i] = m[s + i - 1]
      BY <2>2, TextIs, TextType
  <2>5. Len(t) = n
      OBVIOUS
  <2>6. \A i \in 1..n : t[i] = IF i <= k THEN m[s + i - 1] ELSE 0
      BY <2>4
  <2>7. k = 0 => Text(m, s) = <<>>
      BY <2>4
  <2> HIDE DEF k, t
  <2>8. CASE k >= n
    <3>1. strncpy(m, d, s, n) = memcpy(m, d, s, n)
        BY <1>2, <2>3, <2>8 DEF strncpy
    <3>2. s + n - 1 <= Size /\ \A i \in 1..n : i <= k
        BY <2>1, <2>3, <2>8, StringsAssumption
    <3>3. strncpy(m, d, s, n) = IF s <= d /\ n = 0 THEN Res(m, Fault) ELSE Res(Moved(m, d, s, n), d)
        BY <2>1, <2>3, <3>1, <3>2, MemcpyMoves
    <3>4. Moved(m, d, s, n) \in Memory
        BY <2>1, <3>2, MovedType
    <3>5. Moved(m, d, s, n) = Put(m, d, t)
        BY <2>1, <2>5, <2>6, <3>2, MovedIsPut
    <3> QED
        BY <3>3, <3>4, <3>5 DEF Copied, Res, t
  <2>9. CASE k < n
    <3> DEFINE c == memcpy(m, d, s, k)
               v == Moved(m, d, s, k)
               u == memset(v, d + k, 0, n - k).mem
    <3>1. strncpy(m, d, s, n) = IF c.ret = Fault THEN c
                                ELSE Res(memset(c.mem, d + k, 0, n - k).mem, d)
        BY <1>2, <2>3, <2>9 DEF strncpy
    <3>2. d + k - 1 <= Size /\ s + k - 1 <= Size /\ d + k \in Int /\ d + k # NULL /\ d # Fault
        BY <2>1, <2>3, <2>9, StringsAssumption DEF Addr, NULL, Fault
    <3>3. c = IF s <= d /\ k = 0 THEN Res(m, Fault) ELSE Res(v, d)
        BY <2>1, <2>3, <3>2, MemcpyMoves
    <3>4. v \in Memory
        BY <2>1, <2>3, <3>2, MovedType
    <3>5. u = [a \in Addr |-> IF a \in (d + k)..(d + n - 1) THEN 0 ELSE v[a]]
      <4>1. (d + k) + (n - k) - 1 = d + n - 1 /\ 0 % 256 = 0
          BY <2>1, <2>3
      <4> QED
          BY <3>2, <4>1 DEF memset, Res
    <3>6. u \in Memory
        BY <3>4, <3>5 DEF Memory
    <3>7. CASE s <= d /\ k = 0
      <4>1. strncpy(m, d, s, n) = Res(m, Fault)
          BY <3>1, <3>3, <3>7 DEF Res
      <4> QED
          BY <2>7, <3>7, <4>1 DEF Copied, Res
    <3>8. CASE ~(s <= d /\ k = 0)
      <4>1. strncpy(m, d, s, n) = Res(u, d)
          BY <3>1, <3>2, <3>3, <3>8 DEF Res
      <4>2. u = [a \in Addr |-> u[a]]
          BY <3>5
      <4>3. ASSUME NEW a \in Addr, a \notin d..(d + n - 1)
            PROVE  u[a] = m[a]
        <5>1. a \notin (d + k)..(d + n - 1) /\ a \notin d..(d + k - 1)
            BY <2>1, <2>3, <2>9, <4>3 DEF Addr
        <5> QED
            BY <3>5, <5>1 DEF Moved
      <4>4. ASSUME NEW i \in 1..n, d + i - 1 \in Addr
            PROVE  u[d + i - 1] = t[i]
        <5>1. CASE i <= k
          <6>1. /\ d + i - 1 \notin (d + k)..(d + n - 1) /\ d + i - 1 \in d..(d + k - 1)
                /\ (d + i - 1) - d + s = s + i - 1
              BY <2>1, <2>3, <5>1
          <6>2. u[d + i - 1] = m[s + i - 1]
              BY <3>5, <4>4, <6>1 DEF Moved
          <6> QED
              BY <2>6, <5>1, <6>2
        <5>2. CASE i > k
          <6>1. d + i - 1 \in (d + k)..(d + n - 1) /\ ~(i <= k)
              BY <2>1, <2>3, <5>2
          <6> QED
              BY <2>6, <3>5, <4>4, <6>1
        <5> QED
            BY <2>3, <5>1, <5>2
      <4> HIDE DEF u
      <4>5. u = Put(m, d, t)
          BY <2>1, <2>5, <4>2, <4>3, <4>4, PutIs
      <4> QED
          BY <3>6, <4>1, <4>5 DEF Copied, Res, t
    <3> QED
        BY <3>6, <3>7, <3>8, <3>1, <3>3 DEF Copied, Res
  <2> QED
      BY <2>3, <2>8, <2>9
<1> QED
    BY <1>1, <1>2

-----------------------------------------------------------------------------
(* Comparisons.                                                            *)

\* A range has a first member of H, or none.
LEMMA FirstOrNone ==
  ASSUME NEW lo \in Nat, NEW hi \in Int, NEW H
  PROVE  \/ \A i \in lo..(hi - 1) : i \notin H
         \/ \E e \in lo..(hi - 1) : e \in H /\ \A i \in lo..(e - 1) : i \notin H
<1> DEFINE T == {i \in lo..(hi - 1) : i \in H}
<1>1. CASE T = {}
    BY <1>1
<1>2. CASE T # {}
  <2>1. T \in SUBSET Nat
      OBVIOUS
  <2>2. \A i \in T : i \in lo..(hi - 1) /\ i \in H
      OBVIOUS
  <2>3. \A i \in lo..(hi - 1) : i \in H => i \in T
      OBVIOUS
  <2> HIDE DEF T
  <2>4. PICK e \in T : \A i \in T : e <= i
      BY <1>2, <2>1, LeastNumber
  <2>5. e \in lo..(hi - 1) /\ e \in H
      BY <2>2
  <2>6. \A i \in lo..(e - 1) : i \in lo..(hi - 1) /\ ~(e <= i)
      BY <2>5
  <2>7. \A i \in lo..(e - 1) : i \notin H
      BY <2>3, <2>4, <2>6
  <2> QED
      BY <2>5, <2>7
<1> QED
    BY <1>1, <1>2

LEMMA OrderSame ==
  ASSUME NEW s, NEW t, \A i \in DOMAIN s \cap DOMAIN t : s[i] = t[i]
  PROVE  Order(s, t) = 0
<1>1. {i \in DOMAIN s \cap DOMAIN t : s[i] # t[i]} = {}
    OBVIOUS
<1> QED
    BY <1>1 DEF Order

LEMMA OrderFirst ==
  ASSUME NEW s, NEW t, DOMAIN s \subseteq Int,
         NEW j \in DOMAIN s \cap DOMAIN t, s[j] # t[j],
         \A i \in DOMAIN s \cap DOMAIN t : i < j => s[i] = t[i]
  PROVE  Order(s, t) = IF s[j] < t[j] THEN -1 ELSE 1
<1> DEFINE diff == {i \in DOMAIN s \cap DOMAIN t : s[i] # t[i]}
<1>1. diff \in SUBSET Int /\ j \in diff
    OBVIOUS
<1>2. \A i \in diff : j <= i
  <2> SUFFICES ASSUME NEW i \in diff PROVE j <= i
      OBVIOUS
  <2>1. i \in Int /\ j \in Int /\ ~(i < j)
      OBVIOUS
  <2> QED
      BY <2>1
<1>3. Order(s, t) = IF diff = {} THEN 0 ELSE IF s[Min(diff)] < t[Min(diff)] THEN -1 ELSE 1
    BY DEF Order
<1> HIDE DEF diff
<1>4. Min(diff) = j /\ diff # {}
    BY <1>1, <1>2, LeastIs
<1> QED
    BY <1>3, <1>4

LEMMA MemcmpRight ==
  ASSUME NEW m \in Memory, NEW a \in Addr, NEW b \in Addr, NEW n \in Nat,
         a + n - 1 <= Size, b + n - 1 <= Size
  PROVE  memcmp(m, a, b, n) = Order([i \in 1..n |-> m[a + i - 1]], [i \in 1..n |-> m[b + i - 1]])
<1> DEFINE H == {i \in 0..(n - 1) : m[a + i] # m[b + i]}
           v == [i \in 0..n |-> Sign(m[a + i] - m[b + i])]
           cmp == CHOOSE cmp : cmp = [i \in 0..n |->
                    IF i = n THEN 0
                    ELSE IF m[a + i] # m[b + i] THEN Sign(m[a + i] - m[b + i]) ELSE cmp[i + 1]]
           s == [i \in 1..n |-> m[a + i - 1]]
           t == [i \in 1..n |-> m[b + i - 1]]
<1>1. \A f : Scans(f, 0, n, H, v, 0)
               <=> f = [i \in 0..n |->
                         IF i = n THEN 0
                         ELSE IF m[a + i] # m[b + i] THEN Sign(m[a + i] - m[b + i]) ELSE f[i + 1]]
  <2> SUFFICES ASSUME NEW f
               PROVE  [i \in 0..n |-> IF i = n THEN 0 ELSE IF i \in H THEN v[i] ELSE f[i + 1]]
                      = [i \in 0..n |->
                         IF i = n THEN 0
                         ELSE IF m[a + i] # m[b + i] THEN Sign(m[a + i] - m[b + i]) ELSE f[i + 1]]
      BY DEF Scans
  <2>1. \A i \in 0..n : i # n => i \in 0..(n - 1)
      OBVIOUS
  <2>2. \A i \in 0..n : i # n => /\ i \in H <=> m[a + i] # m[b + i]
                                 /\ v[i] = Sign(m[a + i] - m[b + i])
      BY <2>1
  <2> HIDE DEF H, v
  <2> QED
      BY <2>2
<1>2. \E f : Scans(f, 0, n, H, v, 0)
  <2> HIDE DEF H, v
  <2>1. 0 \in Int /\ n \in Int /\ 0 <= n
      OBVIOUS
  <2> QED
      BY <2>1, ScanExists
<1>3. Scans(cmp, 0, n, H, v, 0)
    BY <1>1, <1>2
<1>4. memcmp(m, a, b, n) = cmp[0]
  <2>1. a # NULL /\ b # NULL
      BY DEF Addr, NULL
  <2> QED
      BY <2>1 DEF memcmp
<1> HIDE DEF cmp
<1>5. 0 \in 0..n
    OBVIOUS
<1>6. /\ (\A i \in 0..(n - 1) : i \notin H) => cmp[0] = 0
      /\ \A e \in 0..(n - 1) : e \in H /\ (\A i \in 0..(e - 1) : i \notin H) => cmp[0] = v[e]
  <2> HIDE DEF H, v
  <2> QED
      BY <1>3, <1>5, ScanFindsFirst
<1>7. \A i \in 1..n : i - 1 \in 0..(n - 1) /\ a + (i - 1) = a + i - 1 /\ b + (i - 1) = b + i - 1
    BY DEF Addr
<1>8. DOMAIN s = 1..n /\ DOMAIN t = 1..n
    OBVIOUS
<1>9. CASE \A i \in 0..(n - 1) : i \notin H
  <2>1. \A i \in 1..n : s[i] = t[i]
      BY <1>7, <1>9
  <2>2. Order(s, t) = 0
    <3> HIDE DEF s, t
    <3> QED
        BY <1>8, <2>1, OrderSame
  <2> QED
      BY <1>4, <1>6, <1>9, <2>2
<1>10. ASSUME NEW e \in 0..(n - 1), e \in H, \A i \in 0..(e - 1) : i \notin H
       PROVE  memcmp(m, a, b, n) = Order(s, t)
  <2>1. /\ e + 1 \in 1..n /\ a + (e + 1) - 1 = a + e /\ b + (e + 1) - 1 = b + e
        /\ a + e \in Addr /\ b + e \in Addr /\ e \in 0..n
      BY StringsAssumption DEF Addr
  <2>2. s[e + 1] = m[a + e] /\ t[e + 1] = m[b + e] /\ s[e + 1] # t[e + 1]
      BY <1>10, <2>1
  <2>3. \A i \in 1..n : i < e + 1 => s[i] = t[i]
    <3> SUFFICES ASSUME NEW i \in 1..n, i < e + 1 PROVE s[i] = t[i]
        OBVIOUS
    <3>1. i - 1 \in 0..(e - 1)
        OBVIOUS
    <3>2. i - 1 \notin H
        BY <1>10, <3>1
    <3> QED
        BY <1>7, <3>2
  <2>4. m[a + e] \in Int /\ m[b + e] \in Int
      BY <2>1 DEF Memory
  <2>5. memcmp(m, a, b, n) = Sign(m[a + e] - m[b + e])
      BY <1>4, <1>6, <1>10, <2>1
  <2>6. Order(s, t) = IF s[e + 1] < t[e + 1] THEN -1 ELSE 1
    <3>1. 1..n \subseteq Int
        OBVIOUS
    <3> HIDE DEF s, t
    <3> QED
        BY <1>8, <2>1, <2>2, <2>3, <3>1, OrderFirst
  <2> HIDE DEF s, t
  <2> QED
      BY <2>2, <2>4, <2>5, <2>6 DEF Sign
<1> HIDE DEF H
<1>11. \/ \A i \in 0..(n - 1) : i \notin H
       \/ \E e \in 0..(n - 1) : e \in H /\ \A i \in 0..(e - 1) : i \notin H
  <2>1. 0 \in Nat /\ n \in Int
      OBVIOUS
  <2> QED
      BY <2>1, FirstOrNone
<1> QED
    BY <1>9, <1>10, <1>11

LEMMA SeenIs ==
  ASSUME NEW m \in Memory, NEW p, NEW e, EndsWith(m, p, e), NEW n \in Nat
  PROVE  LET k == IF n < e - p + 1 THEN n ELSE e - p + 1
         IN /\ DOMAIN Signed(Seen(m, p, n)) = 1..k
            /\ \A i \in 1..k : Signed(Seen(m, p, n))[i] = Char(m[p + i - 1])
<1> DEFINE l == e - p
           t == Append(Text(m, p), 0)
           k == IF n < l + 1 THEN n ELSE l + 1
<1>1. /\ Text(m, p) \in Seq(0..255) /\ Len(Text(m, p)) = l /\ l \in Nat
      /\ \A i \in 1..l : Text(m, p)[i] = m[p + i - 1]
    BY TextIs, TextType
<1>2. p \in Int /\ e \in Int /\ m[e] = 0 /\ p + (l + 1) - 1 = e
    BY StringsAssumption DEF EndsWith, Addr
<1> HIDE DEF l
<1>3. 0 \in 0..255
    OBVIOUS
<1>4. /\ t \in Seq(0..255) /\ Len(t) = l + 1 /\ t[l + 1] = 0
      /\ \A i \in 1..l : t[i] = m[p + i - 1]
    BY <1>1, <1>3
<1> HIDE DEF t
<1>5. \A i \in 1..(l + 1) : t[i] = m[p + i - 1]
  <2>1. \A i \in 1..(l + 1) : i \in 1..l \/ i = l + 1
      BY <1>1
  <2> QED
      BY <1>2, <1>4, <2>1
<1>6. Seen(m, p, n) = FirstN(t, n)
    BY DEF Seen, t
<1>7. /\ k \in Nat /\ DOMAIN FirstN(t, n) = 1..k
      /\ \A i \in 1..k : FirstN(t, n)[i] = t[i]
    BY <1>4, FirstNIs
<1>8. \A i \in 1..k : i \in 1..(l + 1)
    BY <1>1
<1>9. k = IF n < e - p + 1 THEN n ELSE e - p + 1
    BY DEF l
<1> HIDE DEF k
<1>10. /\ DOMAIN Signed(Seen(m, p, n)) = 1..k
       /\ \A i \in 1..k : Signed(Seen(m, p, n))[i] = Char(m[p + i - 1])
    BY <1>5, <1>6, <1>7, <1>8 DEF Signed
<1> QED
    BY <1>9, <1>10

LEMMA CharsDiffer ==
  ASSUME NEW x \in 0..255, NEW y \in 0..255
  PROVE  Char(x) \in Int /\ (x # y => Char(x) # Char(y))
  BY DEF Char

LEMMA StrncmpRight ==
  ASSUME NEW m \in Memory, NEW a \in Addr, NEW b \in Addr, NEW n \in Nat,
         \E x \in Addr : x >= a /\ m[x] = 0, \E x \in Addr : x >= b /\ m[x] = 0
  PROVE  strncmp(m, a, b, n) = Order(Signed(Seen(m, a, n)), Signed(Seen(m, b, n)))
<1>1. PICK ea \in a..Size : EndsWith(m, a, ea)
    BY StringEnds
<1>2. PICK eb \in b..Size : EndsWith(m, b, eb)
    BY StringEnds
<1> DEFINE H == {i \in 0..(n - 1) : m[a + i] # m[b + i] \/ m[a + i] = 0}
           v == [i \in 0..n |-> IF m[a + i] # m[b + i] THEN Sign(Char(m[a + i]) - Char(m[b + i])) ELSE 0]
           cmp == CHOOSE cmp : cmp = [i \in 0..n |->
                    IF i = n THEN 0
                    ELSE IF m[a + i] # m[b + i] THEN Sign(Char(m[a + i]) - Char(m[b + i]))
                    ELSE IF m[a + i] = 0 THEN 0 ELSE cmp[i + 1]]
           s == Signed(Seen(m, a, n))
           t == Signed(Seen(m, b, n))
           ka == IF n < ea - a + 1 THEN n ELSE ea - a + 1
           kb == IF n < eb - b + 1 THEN n ELSE eb - b + 1
<1>3. \A f : Scans(f, 0, n, H, v, 0)
               <=> f = [i \in 0..n |->
                         IF i = n THEN 0
                         ELSE IF m[a + i] # m[b + i] THEN Sign(Char(m[a + i]) - Char(m[b + i]))
                         ELSE IF m[a + i] = 0 THEN 0 ELSE f[i + 1]]
  <2> SUFFICES ASSUME NEW f
               PROVE  [i \in 0..n |-> IF i = n THEN 0 ELSE IF i \in H THEN v[i] ELSE f[i + 1]]
                      = [i \in 0..n |->
                         IF i = n THEN 0
                         ELSE IF m[a + i] # m[b + i] THEN Sign(Char(m[a + i]) - Char(m[b + i]))
                         ELSE IF m[a + i] = 0 THEN 0 ELSE f[i + 1]]
      BY DEF Scans
  <2>1. \A i \in 0..n : i # n => i \in 0..(n - 1)
      OBVIOUS
  <2>2. \A i \in 0..n : i # n =>
          /\ i \in H <=> m[a + i] # m[b + i] \/ m[a + i] = 0
          /\ v[i] = IF m[a + i] # m[b + i] THEN Sign(Char(m[a + i]) - Char(m[b + i])) ELSE 0
      BY <2>1
  <2> HIDE DEF H, v
  <2> QED
      BY <2>2
<1>4. \E f : Scans(f, 0, n, H, v, 0)
  <2> HIDE DEF H, v
  <2>1. 0 \in Int /\ n \in Int /\ 0 <= n
      OBVIOUS
  <2> QED
      BY <2>1, ScanExists
<1>5. Scans(cmp, 0, n, H, v, 0)
    BY <1>3, <1>4
<1>6. strncmp(m, a, b, n) = cmp[0]
  <2>1. a # NULL /\ b # NULL
      BY DEF Addr, NULL
  <2> QED
      BY <2>1 DEF strncmp
<1> HIDE DEF cmp
<1>7. 0 \in 0..n
    OBVIOUS
<1>8. /\ (\A i \in 0..(n - 1) : i \notin H) => cmp[0] = 0
      /\ \A e \in 0..(n - 1) : e \in H /\ (\A i \in 0..(e - 1) : i \notin H) => cmp[0] = v[e]
  <2> HIDE DEF H, v
  <2> QED
      BY <1>5, <1>7, ScanFindsFirst
<1>9. /\ a \in Int /\ b \in Int /\ ea \in Int /\ eb \in Int /\ a <= ea /\ b <= eb
      /\ ea <= Size /\ eb <= Size /\ m[ea] = 0 /\ m[eb] = 0
      /\ \A x \in a..(ea - 1) : m[x] # 0
      /\ \A x \in b..(eb - 1) : m[x] # 0
  <2>1. a \in Int /\ b \in Int
      BY DEF Addr
  <2> QED
      BY <1>1, <1>2, <2>1, StringsAssumption DEF EndsWith
<1>10. /\ DOMAIN s = 1..ka /\ \A i \in 1..ka : s[i] = Char(m[a + i - 1])
       /\ DOMAIN t = 1..kb /\ \A i \in 1..kb : t[i] = Char(m[b + i - 1])
    BY <1>1, <1>2, SeenIs
<1>11. \A i \in 1..n : i - 1 \in 0..(n - 1) /\ a + (i - 1) = a + i - 1 /\ b + (i - 1) = b + i - 1
    BY <1>9
<1>12. ka \in Nat /\ kb \in Nat /\ ka <= n /\ kb <= n /\ 1..ka \subseteq 1..n /\ 1..kb \subseteq 1..n
    BY <1>9
<1> HIDE DEF s, t
<1>13. ASSUME \A i \in 0..(n - 1) : i \notin H
       PROVE  strncmp(m, a, b, n) = Order(s, t)
  <2>1. \A i \in 1..n : Char(m[a + i - 1]) = Char(m[b + i - 1])
      BY <1>11, <1>13
  <2>2. \A i \in DOMAIN s \cap DOMAIN t : s[i] = t[i]
    <3> HIDE DEF ka, kb
    <3> QED
        BY <1>10, <1>12, <2>1
  <2>3. Order(s, t) = 0
      BY <2>2, OrderSame
  <2> QED
      BY <1>6, <1>8, <1>13, <2>3
<1>14. ASSUME NEW e \in 0..(n - 1), e \in H, \A i \in 0..(e - 1) : i \notin H
       PROVE  strncmp(m, a, b, n) = Order(s, t)
  <2>1. /\ e + 1 \in 1..n /\ a + (e + 1) - 1 = a + e /\ b + (e + 1) - 1 = b + e
        /\ e \in 0..n /\ e \in Int
      BY <1>9
  <2>2. \A i \in 0..(e - 1) : m[a + i] = m[b + i] /\ m[a + i] # 0
    <3>1. \A i \in 0..(e - 1) : i \in 0..(n - 1) /\ i \notin H
        BY <1>14
    <3> QED
        BY <3>1
  \* Neither string has ended before.
  <2>3. a + e <= ea /\ b + e <= eb
    <3>1. ASSUME ~(a + e <= ea) PROVE FALSE
      <4>1. ea - a \in 0..(e - 1) /\ a + (ea - a) = ea
          BY <1>9, <2>1, <3>1
      <4> QED
          BY <1>9, <2>2, <4>1
    <3>2. ASSUME ~(b + e <= eb) PROVE FALSE
      <4>1. eb - b \in 0..(e - 1) /\ b + (eb - b) = eb
          BY <1>9, <2>1, <3>2
      <4> QED
          BY <1>9, <2>2, <4>1
    <3> QED
        BY <3>1, <3>2
  <2>4. e + 1 \in 1..ka /\ e + 1 \in 1..kb
      BY <1>9, <2>1, <2>3
  <2>5. a + e \in Addr /\ b + e \in Addr
      BY <1>9, <2>1, <2>3, StringsAssumption DEF Addr
  <2>6. m[a + e] \in 0..255 /\ m[b + e] \in 0..255
      BY <2>5 DEF Memory
  <2>7. s[e + 1] = Char(m[a + e]) /\ t[e + 1] = Char(m[b + e])
      BY <1>10, <2>1, <2>4
  <2>8. \A i \in 1..n : i < e + 1 => m[a + i - 1] = m[b + i - 1]
    <3> SUFFICES ASSUME NEW i \in 1..n, i < e + 1
                 PROVE  m[a + i - 1] = m[b + i - 1]
        OBVIOUS
    <3>1. i - 1 \in 0..(e - 1)
        OBVIOUS
    <3> QED
        BY <1>11, <2>2, <3>1
  <2>9. \A i \in DOMAIN s \cap DOMAIN t : i < e + 1 => s[i] = t[i]
    <3> HIDE DEF ka, kb
    <3> QED
        BY <1>10, <1>12, <2>8
  <2>10. strncmp(m, a, b, n) = v[e]
      BY <1>6, <1>8, <1>14
  <2>11. v[e] = IF m[a + e] # m[b + e] THEN Sign(Char(m[a + e]) - Char(m[b + e])) ELSE 0
      BY <2>1
  <2>12. CASE m[a + e] # m[b + e]
    <3>1. Char(m[a + e]) \in Int /\ Char(m[b + e]) \in Int /\ Char(m[a + e]) # Char(m[b + e])
        BY <2>6, <2>12, CharsDiffer
    <3>2. DOMAIN s \subseteq Int /\ e + 1 \in DOMAIN s \cap DOMAIN t /\ s[e + 1] # t[e + 1]
      <4>1. 1..ka \subseteq Int
          OBVIOUS
      <4> HIDE DEF ka, kb
      <4> QED
          BY <1>10, <2>4, <2>7, <3>1, <4>1
    <3>3. Order(s, t) = IF s[e + 1] < t[e + 1] THEN -1 ELSE 1
        BY <2>9, <3>2, OrderFirst
    <3> HIDE DEF v
    <3> QED
        BY <2>7, <2>10, <2>11, <2>12, <3>1, <3>3 DEF Sign
  <2>13. CASE m[a + e] = m[b + e]
    <3>1. m[a + e] = 0 /\ m[b + e] = 0
        BY <1>14, <2>13
    <3>2. a + e = ea /\ b + e = eb
      <4>1. ASSUME a + e # ea PROVE FALSE
        <5>1. a + e \in a..(ea - 1)
            BY <1>9, <2>1, <2>3, <4>1
        <5> QED
            BY <1>9, <3>1, <5>1
      <4>2. ASSUME b + e # eb PROVE FALSE
        <5>1. b + e \in b..(eb - 1)
            BY <1>9, <2>1, <2>3, <4>2
        <5> QED
            BY <1>9, <3>1, <5>1
      <4> QED
          BY <4>1, <4>2
    <3>3. ka = e + 1
        BY <1>9, <2>1, <3>2
    <3>4. \A i \in 1..ka : i < e + 1 \/ i = e + 1
        BY <2>1, <3>3
    <3>5. \A i \in DOMAIN s \cap DOMAIN t : s[i] = t[i]
      <4> HIDE DEF ka, kb
      <4> QED
          BY <1>10, <2>7, <2>9, <2>13, <3>4
    <3>6. Order(s, t) = 0
        BY <3>5, OrderSame
    <3> QED
        BY <2>10, <2>11, <2>13, <3>6
  <2> QED
      BY <2>12, <2>13
<1> HIDE DEF H
<1>15. \/ \A i \in 0..(n - 1) : i \notin H
       \/ \E e \in 0..(n - 1) : e \in H /\ \A i \in 0..(e - 1) : i \notin H
  <2>1. 0 \in Nat /\ n \in Int
      OBVIOUS
  <2> QED
      BY <2>1, FirstOrNone
<1> QED
    BY <1>13, <1>14, <1>15 DEF s, t

-----------------------------------------------------------------------------
(* Searches.                                                               *)

\* The first, or the last, of the addresses that match; NULL is none.
FirstHit(r, hits) == r = IF hits = {} THEN NULL ELSE Min(hits)
LastHit(r, hits) == r = IF hits = {} THEN NULL ELSE Max(hits)

LEMMA MemchrRight ==
  ASSUME NEW m \in Memory, NEW p \in Addr, NEW c \in Int, NEW n \in Nat
  PROVE  FirstHit(memchr(m, p, c, n), {a \in p..(p + n - 1) : m[a] = c % 256})
<1> DEFINE b == c % 256
           H == {i \in 0..(n - 1) : m[p + i] = b}
           v == [i \in 0..n |-> p + i]
           hits == {a \in p..(p + n - 1) : m[a] = b}
           find == CHOOSE find : find = [i \in 0..n |->
                     IF i = n THEN NULL ELSE IF m[p + i] = b THEN p + i ELSE find[i + 1]]
<1>1. memchr(m, p, c, n) = find[0]
  <2>1. p # NULL
      BY DEF Addr, NULL
  <2> QED
      BY <2>1 DEF memchr
<1> HIDE DEF b
<1>2. \A f : Scans(f, 0, n, H, v, NULL)
               <=> f = [i \in 0..n |->
                         IF i = n THEN NULL ELSE IF m[p + i] = b THEN p + i ELSE f[i + 1]]
  <2> SUFFICES ASSUME NEW f
               PROVE  [i \in 0..n |-> IF i = n THEN NULL ELSE IF i \in H THEN v[i] ELSE f[i + 1]]
                      = [i \in 0..n |->
                         IF i = n THEN NULL ELSE IF m[p + i] = b THEN p + i ELSE f[i + 1]]
      BY DEF Scans
  <2>1. \A i \in 0..n : i # n => i \in 0..(n - 1)
      OBVIOUS
  <2>2. \A i \in 0..n : i # n => (i \in H <=> m[p + i] = b) /\ v[i] = p + i
      BY <2>1
  <2> HIDE DEF H, v
  <2> QED
      BY <2>2
<1>3. \E f : Scans(f, 0, n, H, v, NULL)
  <2> HIDE DEF H, v
  <2>1. 0 \in Int /\ n \in Int /\ 0 <= n
      OBVIOUS
  <2> QED
      BY <2>1, ScanExists
<1>4. Scans(find, 0, n, H, v, NULL)
    BY <1>2, <1>3
<1> HIDE DEF find
<1>5. /\ (\A i \in 0..(n - 1) : i \notin H) => find[0] = NULL
      /\ \A e \in 0..(n - 1) : e \in H /\ (\A i \in 0..(e - 1) : i \notin H) => find[0] = v[e]
  <2> HIDE DEF H, v
  <2>1. 0 \in 0..n
      OBVIOUS
  <2> QED
      BY <1>4, <2>1, ScanFindsFirst
<1>6. p \in Int
    BY DEF Addr
<1>7. \A a \in hits : a \in Int /\ a - p \in 0..(n - 1) /\ p + (a - p) = a /\ a - p \in H
    BY <1>6
<1>8. CASE \A i \in 0..(n - 1) : i \notin H
  <2>1. hits = {}
    <3> HIDE DEF H, hits
    <3> QED
        BY <1>7, <1>8
  <2> QED
      BY <1>1, <1>5, <1>8, <2>1 DEF FirstHit, b
<1>9. ASSUME NEW e \in 0..(n - 1), e \in H, \A i \in 0..(e - 1) : i \notin H
      PROVE  find[0] = IF hits = {} THEN NULL ELSE Min(hits)
  <2>1. find[0] = p + e
    <3>1. v[e] = p + e
        OBVIOUS
    <3> HIDE DEF H, v
    <3> QED
        BY <1>5, <1>9, <3>1
  <2>2. p + e \in p..(p + n - 1) /\ m[p + e] = b
      BY <1>6, <1>9
  <2>3. p + e \in hits /\ hits \in SUBSET Int
      BY <2>2
  <2>4. \A a \in hits : p + e <= a
    <3> SUFFICES ASSUME NEW a \in hits, ~(p + e <= a) PROVE FALSE
        OBVIOUS
    <3>1. a \in Int /\ a - p \in 0..(n - 1) /\ a - p \in H
        BY <1>7
    <3>2. a - p \in 0..(e - 1)
        BY <1>6, <3>1
    <3> HIDE DEF H
    <3> QED
        BY <1>9, <3>1, <3>2
  <2> HIDE DEF hits
  <2>5. Min(hits) = p + e /\ hits # {}
      BY <2>3, <2>4, LeastIs
  <2> QED
      BY <2>1, <2>5
<1>10. \/ \A i \in 0..(n - 1) : i \notin H
       \/ \E e \in 0..(n - 1) : e \in H /\ \A i \in 0..(e - 1) : i \notin H
  <2> HIDE DEF H
  <2>1. 0 \in Nat /\ n \in Int
      OBVIOUS
  <2> QED
      BY <2>1, FirstOrNone
<1> QED
    BY <1>1, <1>8, <1>9, <1>10 DEF FirstHit, b

LEMMA StrchrRight ==
  ASSUME NEW m \in Memory, NEW p \in Addr, NEW c, NEW e, EndsWith(m, p, e)
  PROVE  FirstHit(strchr(m, p, c), {a \in p..(e - 1) : Char(m[a]) = c})
<1> DEFINE H == {a \in Addr : m[a] = 0 \/ Char(m[a]) = c}
           v == [a \in Addr |-> IF m[a] = 0 THEN NULL ELSE a]
           hits == {a \in p..(e - 1) : Char(m[a]) = c}
           find == CHOOSE find : find = [a \in 1..MemEnd |->
                     IF a = MemEnd \/ m[a] = 0 THEN NULL
                     ELSE IF Char(m[a]) = c THEN a ELSE find[a + 1]]
<1>1. strchr(m, p, c) = find[p]
  <2>1. p # NULL
      BY DEF Addr, NULL
  <2> QED
      BY <2>1 DEF strchr
<1>2. \A f : Scans(f, 1, MemEnd, H, v, NULL)
               <=> f = [a \in 1..MemEnd |->
                         IF a = MemEnd \/ m[a] = 0 THEN NULL
                         ELSE IF Char(m[a]) = c THEN a ELSE f[a + 1]]
  <2> SUFFICES ASSUME NEW f
               PROVE  [a \in 1..MemEnd |-> IF a = MemEnd THEN NULL ELSE IF a \in H THEN v[a] ELSE f[a + 1]]
                      = [a \in 1..MemEnd |->
                         IF a = MemEnd \/ m[a] = 0 THEN NULL
                         ELSE IF Char(m[a]) = c THEN a ELSE f[a + 1]]
      BY DEF Scans
  <2>1. \A a \in 1..MemEnd : a # MemEnd => a \in Addr
      BY StringsAssumption DEF MemEnd, Addr
  <2>2. \A a \in 1..MemEnd : a # MemEnd => /\ a \in H <=> m[a] = 0 \/ Char(m[a]) = c
                                     /\ v[a] = IF m[a] = 0 THEN NULL ELSE a
      BY <2>1
  <2> HIDE DEF H, v
  <2> QED
      BY <2>2
<1>3. 1 \in Int /\ MemEnd \in Int /\ 1 <= MemEnd
    BY StringsAssumption DEF MemEnd
<1>4. \E f : Scans(f, 1, MemEnd, H, v, NULL)
  <2> HIDE DEF H, v
  <2> QED
      BY <1>3, ScanExists
<1>5. Scans(find, 1, MemEnd, H, v, NULL)
    BY <1>2, <1>4
<1> HIDE DEF find
<1>6. /\ p \in 1..MemEnd /\ p \in Nat /\ e \in Int /\ p <= e /\ e <= Size /\ e \in H
      /\ \A a \in p..(e - 1) : a \in p..(MemEnd - 1) /\ a \in Addr /\ m[a] # 0
      /\ e \in p..(MemEnd - 1) /\ e \in Addr /\ m[e] = 0
    BY StringsAssumption DEF EndsWith, Addr, MemEnd
<1>7. \A f \in p..(MemEnd - 1) : f \in H /\ (\A i \in p..(f - 1) : i \notin H) => find[p] = v[f]
  <2> HIDE DEF H, v
  <2>1. 1 \in Int /\ MemEnd \in Int /\ p \in 1..MemEnd
      BY <1>3, <1>6
  <2>2. Scans(find, 1, MemEnd, H, v, NULL)
      BY <1>5
  <2> QED
      BY <2>1, <2>2, ScanFindsFirst
<1>8. CASE \A a \in p..(e - 1) : a \notin H
  <2>1. hits = {}
      BY <1>6, <1>8
  <2>2. v[e] = NULL
      BY <1>6
  <2>3. find[p] = v[e]
    <3> HIDE DEF H, v
    <3> QED
        BY <1>6, <1>7, <1>8
  <2> QED
      BY <1>1, <2>1, <2>2, <2>3 DEF FirstHit
<1>9. ASSUME NEW f \in p..(e - 1), f \in H, \A a \in p..(f - 1) : a \notin H
      PROVE  find[p] = IF hits = {} THEN NULL ELSE Min(hits)
  <2>1. f \in p..(MemEnd - 1) /\ f \in Addr /\ m[f] # 0 /\ v[f] = f
      BY <1>6
  <2>2. find[p] = f
    <3> HIDE DEF H, v
    <3> QED
        BY <1>7, <1>9, <2>1
  <2>3. f \in hits /\ hits \in SUBSET Int
      BY <1>6, <1>9, <2>1
  <2>4. \A a \in hits : f <= a
    <3> SUFFICES ASSUME NEW a \in hits, ~(f <= a) PROVE FALSE
        OBVIOUS
    <3>1. a \in p..(f - 1) /\ a \in H
        BY <1>6
    <3> HIDE DEF H
    <3> QED
        BY <1>9, <3>1
  <2> HIDE DEF hits
  <2>5. Min(hits) = f /\ hits # {}
      BY <2>3, <2>4, LeastIs
  <2> QED
      BY <2>2, <2>5
<1>10. \/ \A i \in p..(e - 1) : i \notin H
       \/ \E f \in p..(e - 1) : f \in H /\ \A i \in p..(f - 1) : i \notin H
  <2> HIDE DEF H
  <2> QED
      BY <1>6, FirstOrNone
<1> QED
    BY <1>1, <1>8, <1>9, <1>10 DEF FirstHit

LEMMA StrrchrRight ==
  ASSUME NEW m \in Memory, NEW p \in Addr, NEW c, NEW e, EndsWith(m, p, e)
  PROVE  LastHit(strrchr(m, p, c), {a \in p..(e - 1) : Char(m[a]) = c})
<1> DEFINE n == strlen(m, p)
           G == [i \in 1..n |-> [l \in Int |-> IF Char(m[p + i - 1]) = c THEN p + i - 1 ELSE l]]
           hits(k) == {a \in p..(p + k - 1) : Char(m[a]) = c}
           f == CHOOSE f : f = [i \in 0..n |->
                  IF i = 0 THEN NULL
                  ELSE IF Char(m[p + i - 1]) = c THEN p + i - 1 ELSE f[i - 1]]
<1>1. strrchr(m, p, c) = f[n]
  <2>1. p # NULL
      BY DEF Addr, NULL
  <2> QED
      BY <2>1 DEF strrchr
<1>2. n = e - p /\ n \in Nat /\ p \in Nat /\ p # 0 /\ p + n - 1 = e - 1
  <2>1. strlen(m, p) = e - p
      BY LengthOfString
  <2> QED
      BY <2>1, StringsAssumption DEF EndsWith, Addr
<1> HIDE DEF n
<1>3. \E g : g = [i \in 0..n |->
                   IF i = 0 THEN NULL
                   ELSE IF Char(m[p + i - 1]) = c THEN p + i - 1 ELSE g[i - 1]]
  <2>1. \A i \in 1..n : \A l \in Int :
          /\ G[i][l] = IF Char(m[p + i - 1]) = c THEN p + i - 1 ELSE l
          /\ G[i][l] \in Int
      BY <1>2
  <2> HIDE DEF G
  <2>2. PICK g : Recurs(g, NULL, G, n)
    <3>1. \A x, F : \E g : Recurs(g, x, F, n)
        BY <1>2, RecursionExists
    <3> QED
        BY <3>1
  <2>3. g \in [0..n -> Int]
    <3>1. NULL \in Int
        BY DEF NULL
    <3> QED
        BY <1>2, <2>1, <2>2, <3>1, RecursionType
  <2>4. \A i \in 0..n : i # 0 => i \in 1..n /\ i - 1 \in 0..n
      BY <1>2
  <2>5. \A i \in 0..n : i # 0 =>
          G[i][g[i - 1]] = IF Char(m[p + i - 1]) = c THEN p + i - 1 ELSE g[i - 1]
      BY <2>1, <2>3, <2>4
  <2>6. g = [i \in 0..n |->
              IF i = 0 THEN NULL
              ELSE IF Char(m[p + i - 1]) = c THEN p + i - 1 ELSE g[i - 1]]
      BY <2>2, <2>5 DEF Recurs
  <2> QED
      BY <2>6
<1>4. f = [i \in 0..n |->
            IF i = 0 THEN NULL
            ELSE IF Char(m[p + i - 1]) = c THEN p + i - 1 ELSE f[i - 1]]
    BY <1>3
<1> HIDE DEF f, G
<1> DEFINE S == {k \in 0..n : LastHit(f[k], hits(k))}
<1>5. 0 \in S
  <2>1. 0 \in 0..n /\ hits(0) = {}
      BY <1>2
  <2> QED
      BY <1>4, <2>1 DEF LastHit
<1>6. ASSUME NEW k \in 0..(n - 1), k \in S
      PROVE  k + 1 \in S
  <2>1. /\ k + 1 \in 0..n /\ k + 1 # 0 /\ (k + 1) - 1 = k /\ p + (k + 1) - 1 = p + k
        /\ p + k \in Int /\ p + k \in p..(p + (k + 1) - 1)
      BY <1>2
  <2>2. f[k + 1] = IF Char(m[p + k]) = c THEN p + k ELSE f[k]
      BY <1>4, <2>1
  <2>3. \A a : a \in hits(k + 1) => a \in Int /\ a <= p + k
      BY <1>2
  <2>4. CASE Char(m[p + k]) = c
    <3>1. p + k \in hits(k + 1)
        BY <2>1, <2>4
    <3>2. Max(hits(k + 1)) = p + k /\ hits(k + 1) # {}
      <4>1. hits(k + 1) \in SUBSET Int /\ \A a \in hits(k + 1) : p + k >= a
          BY <2>1, <2>3
      <4> HIDE DEF hits
      <4> QED
          BY <3>1, <4>1, GreatestIs
    <3> QED
        BY <2>1, <2>2, <2>4, <3>2 DEF LastHit
  <2>5. CASE Char(m[p + k]) # c
    <3>1. hits(k + 1) = hits(k)
      <4>1. \A a \in p..(p + (k + 1) - 1) : a \in p..(p + k - 1) \/ a = p + k
          BY <1>2
      <4>2. \A a \in p..(p + k - 1) : a \in p..(p + (k + 1) - 1)
          BY <1>2
      <4> QED
          BY <2>5, <4>1, <4>2
    <3>2. LastHit(f[k], hits(k))
        BY <1>6
    <3> HIDE DEF hits
    <3> QED
        BY <2>1, <2>2, <2>5, <3>1, <3>2
  <2> QED
      BY <2>4, <2>5
<1> HIDE DEF S
<1>7. 0..n \subseteq S
    BY <1>2, <1>5, <1>6, Reaches
<1>8. n \in 0..n
    BY <1>2
<1>9. LastHit(f[n], hits(n))
    BY <1>7, <1>8 DEF S
<1> QED
    BY <1>1, <1>2, <1>9

-----------------------------------------------------------------------------
(* Prefixes.                                                               *)

\* The characters of the string at p.
In(m, p) == {Text(m, p)[i] : i \in DOMAIN Text(m, p)}

LEMMA InIs ==
  ASSUME NEW m, NEW p, NEW e, EndsWith(m, p, e), NEW c
  PROVE  c \in In(m, p) <=> \E i \in 1..(e - p) : c = m[p + i - 1]
<1>1. DOMAIN Text(m, p) = 1..(e - p) /\ \A i \in 1..(e - p) : Text(m, p)[i] = m[p + i - 1]
    BY TextIs
<1> QED
    BY <1>1 DEF In

LEMMA InSetRight ==
  ASSUME NEW m, NEW b, NEW e, EndsWith(m, b, e), NEW c
  PROVE  /\ c \in In(m, b) => InSet(m, c, b) = TRUE
         /\ c \notin In(m, b) => InSet(m, c, b) = FALSE
<1> DEFINE n == strlen(m, b)
           G == [i \in 1..n |-> [l \in BOOLEAN |-> (c = m[b + i - 1]) \/ l]]
           f == CHOOSE f : f = [i \in 0..n |-> i > 0 /\ (c = m[b + i - 1] \/ f[i - 1])]
<1>1. InSet(m, c, b) = f[n]
    BY DEF InSet
<1>2. n = e - b /\ n \in Nat
  <2>1. strlen(m, b) = e - b
      BY LengthOfString
  <2> QED
      BY <2>1, StringsAssumption DEF EndsWith, Addr
<1> HIDE DEF n
<1>3. \E g : g = [i \in 0..n |-> i > 0 /\ (c = m[b + i - 1] \/ g[i - 1])]
  <2>1. \A i \in 1..n : \A l \in BOOLEAN :
          /\ G[i][l] = ((c = m[b + i - 1]) \/ l)
          /\ G[i][l] \in BOOLEAN
      OBVIOUS
  <2> HIDE DEF G
  <2>2. PICK g : Recurs(g, FALSE, G, n)
    <3>1. \A x, F : \E g : Recurs(g, x, F, n)
        BY <1>2, RecursionExists
    <3> QED
        BY <3>1
  <2>3. g \in [0..n -> BOOLEAN]
    <3>1. \A x, D : /\ x \in D /\ Recurs(g, x, G, n)
                    /\ \A i \in 1..n : \A l \in D : G[i][l] \in D
                    => g \in [0..n -> D]
        BY <1>2, RecursionType
    <3>2. \A i \in 1..n : \A l \in BOOLEAN : G[i][l] \in BOOLEAN
        BY <2>1
    <3>3. FALSE \in BOOLEAN
        OBVIOUS
    <3> QED
        BY <2>2, <3>1, <3>2, <3>3
  <2>4. \A i \in 0..n : (i # 0 => i \in 1..n /\ i - 1 \in 0..n) /\ (i # 0 <=> i > 0)
      BY <1>2
  <2>5. \A i \in 0..n : (IF i = 0 THEN FALSE ELSE G[i][g[i - 1]])
                          = (i > 0 /\ (c = m[b + i - 1] \/ g[i - 1]))
    <3> SUFFICES ASSUME NEW i \in 0..n
                 PROVE  (IF i = 0 THEN FALSE ELSE G[i][g[i - 1]])
                          = (i > 0 /\ (c = m[b + i - 1] \/ g[i - 1]))
        OBVIOUS
    <3>1. CASE i = 0
        BY <2>4, <3>1
    <3>2. CASE i # 0
      <4>1. i > 0 /\ i \in 1..n /\ g[i - 1] \in BOOLEAN
          BY <2>3, <2>4, <3>2
      <4>2. G[i][g[i - 1]] = ((c = m[b + i - 1]) \/ g[i - 1])
          BY <2>1, <4>1
      <4> QED
          BY <3>2, <4>1, <4>2
    <3> QED
        BY <3>1, <3>2
  <2>6. g = [i \in 0..n |-> i > 0 /\ (c = m[b + i - 1] \/ g[i - 1])]
      BY <2>2, <2>5 DEF Recurs
  <2> QED
      BY <2>6
<1>4. f = [i \in 0..n |-> i > 0 /\ (c = m[b + i - 1] \/ f[i - 1])]
    BY <1>3
<1> HIDE DEF f, G
<1> DEFINE S == {k \in 0..n : f[k] = \E i \in 1..k : c = m[b + i - 1]}
<1>5. 0 \in S
  <2>1. 0 \in 0..n /\ ~(0 > 0) /\ 1..0 = {}
      BY <1>2
  <2>2. f[0] = FALSE
      BY <1>4, <2>1
  <2> QED
      BY <2>1, <2>2
<1>6. ASSUME NEW k \in 0..(n - 1), k \in S
      PROVE  k + 1 \in S
  <2>1. /\ k + 1 \in 0..n /\ k + 1 > 0 /\ (k + 1) - 1 = k
        /\ \A i : i \in 1..(k + 1) <=> i \in 1..k \/ i = k + 1
      BY <1>2
  <2>2. f[k + 1] = ((c = m[b + (k + 1) - 1]) \/ f[k])
      BY <1>4, <2>1
  <2>3. f[k] = \E i \in 1..k : c = m[b + i - 1]
      BY <1>6
  <2>4. f[k + 1] = \E i \in 1..(k + 1) : c = m[b + i - 1]
      BY <2>1, <2>2, <2>3
  <2> QED
      BY <2>1, <2>4
<1> HIDE DEF S
<1>7. 0..n \subseteq S
    BY <1>2, <1>5, <1>6, Reaches
<1>8. n \in 0..n
    BY <1>2
<1>9. f[n] = \E i \in 1..n : c = m[b + i - 1]
    BY <1>7, <1>8 DEF S
<1>10. c \in In(m, b) <=> \E i \in 1..n : c = m[b + i - 1]
    BY <1>2, InIs
<1> QED
    BY <1>1, <1>9, <1>10

LEMMA SpanRight ==
  ASSUME NEW m, NEW a, NEW e, EndsWith(m, a, e), NEW b, NEW f, EndsWith(m, b, f),
         NEW want \in BOOLEAN
  PROVE  \E g \in a..e : /\ Span(m, a, b, want) = g - a
                         /\ g = e \/ ~(m[g] \in In(m, b) <=> want)
                         /\ \A x \in a..(g - 1) : m[x] \in In(m, b) <=> want
<1> DEFINE H == {x \in Addr : m[x] = 0 \/ InSet(m, m[x], b) # want}
           num == CHOOSE num : num = [x \in 1..MemEnd |->
                    IF x = MemEnd \/ m[x] = 0 \/ InSet(m, m[x], b) # want THEN 0
                    ELSE 1 + num[x + 1]]
<1>1. Span(m, a, b, want) = num[a]
  <2>1. a # NULL /\ b # NULL
      BY DEF EndsWith, Addr, NULL
  <2> QED
      BY <2>1 DEF Span
<1>2. \A h : Counts(h, 1, MemEnd, H)
               <=> h = [x \in 1..MemEnd |->
                         IF x = MemEnd \/ m[x] = 0 \/ InSet(m, m[x], b) # want THEN 0
                         ELSE 1 + h[x + 1]]
  <2> SUFFICES ASSUME NEW h
               PROVE  [x \in 1..MemEnd |-> IF x = MemEnd \/ x \in H THEN 0 ELSE 1 + h[x + 1]]
                      = [x \in 1..MemEnd |->
                         IF x = MemEnd \/ m[x] = 0 \/ InSet(m, m[x], b) # want THEN 0
                         ELSE 1 + h[x + 1]]
      BY DEF Counts
  <2>1. \A x \in 1..MemEnd : x = MemEnd \/ x \in H
                            <=> x = MemEnd \/ m[x] = 0 \/ InSet(m, m[x], b) # want
      BY StringsAssumption DEF MemEnd, Addr
  <2> HIDE DEF H
  <2> QED
      BY <2>1
<1>3. 1 \in Int /\ MemEnd \in Int /\ 1 <= MemEnd
    BY StringsAssumption DEF MemEnd
<1>4. \E h : Counts(h, 1, MemEnd, H)
    BY <1>3, CountExists
<1>5. Counts(num, 1, MemEnd, H)
    BY <1>2, <1>4
<1> HIDE DEF num
<1>6. /\ a \in 1..MemEnd /\ a \in Nat /\ e \in Int /\ a <= e /\ e \in H /\ e \in a..MemEnd
      /\ \A x \in a..e : x \in Addr /\ x \in a..MemEnd
      /\ \A x \in a..(e - 1) : m[x] # 0
    BY StringsAssumption DEF EndsWith, Addr, MemEnd
\* Leaving the set of characters, or not being in it.
<1>7. \A x \in Addr : x \in H <=> m[x] = 0 \/ ~(m[x] \in In(m, b) <=> want)
  <2> SUFFICES ASSUME NEW x \in Addr
               PROVE  InSet(m, m[x], b) # want <=> ~(m[x] \in In(m, b) <=> want)
      OBVIOUS
  <2>1. /\ m[x] \in In(m, b) => InSet(m, m[x], b) = TRUE
        /\ m[x] \notin In(m, b) => InSet(m, m[x], b) = FALSE
      BY InSetRight
  <2>2. CASE want = TRUE
      BY <2>1, <2>2
  <2>3. CASE want = FALSE
      BY <2>1, <2>3
  <2> QED
      BY <2>2, <2>3
<1> HIDE DEF H
<1>8. PICK g \in a..e : g \in H /\ \A x \in a..(g - 1) : x \notin H
  <2>1. e + 1 \in Int /\ (e + 1) - 1 = e
      BY <1>6
  <2>2. \/ \A x \in a..((e + 1) - 1) : x \notin H
        \/ \E g \in a..((e + 1) - 1) : g \in H /\ \A x \in a..(g - 1) : x \notin H
      BY <1>6, <2>1, FirstOrNone
  <2>3. e \in a..e
      BY <1>6
  <2> QED
      BY <1>6, <2>1, <2>2, <2>3
<1>9. num[a] = g - a
    BY <1>3, <1>5, <1>6, <1>8, CountIs
<1>10. g = e \/ ~(m[g] \in In(m, b) <=> want)
  <2>1. g = e \/ g \in a..(e - 1)
      BY <1>6
  <2> QED
      BY <1>6, <1>7, <1>8, <2>1
<1>11. \A x \in a..(g - 1) : x \in Addr
    BY <1>6
<1>12. \A x \in a..(g - 1) : m[x] \in In(m, b) <=> want
    BY <1>7, <1>8, <1>11
<1> QED
    BY <1>1, <1>9, <1>10, <1>12

\* The number that Span counts, seen from the texts of both strings.
LEMMA SpanOfText ==
  ASSUME NEW m, NEW a \in Addr, NEW b \in Addr,
         \E x \in Addr : x >= a /\ m[x] = 0, \E x \in Addr : x >= b /\ m[x] = 0,
         NEW want \in BOOLEAN
  PROVE  LET n == Span(m, a, b, want)
             t == Text(m, a)
         IN /\ n <= Len(t)
            /\ \A i \in 1..n : t[i] \in In(m, b) <=> want
            /\ n < Len(t) => ~(t[n + 1] \in In(m, b) <=> want)
<1>1. PICK e \in a..Size : EndsWith(m, a, e)
    BY StringEnds
<1>2. PICK f \in b..Size : EndsWith(m, b, f)
    BY StringEnds
<1> DEFINE n == Span(m, a, b, want)
           t == Text(m, a)
<1>3. PICK g \in a..e : /\ n = g - a
                        /\ g = e \/ ~(m[g] \in In(m, b) <=> want)
                        /\ \A x \in a..(g - 1) : m[x] \in In(m, b) <=> want
    BY <1>1, <1>2, SpanRight
<1>4. Len(t) = e - a /\ \A i \in 1..(e - a) : t[i] = m[a + i - 1]
    BY <1>1, TextIs
<1>5. a \in Int /\ e \in Int /\ g \in Int /\ a <= g /\ g <= e
    BY <1>1, StringsAssumption DEF Addr
<1> HIDE DEF n, t
<1>6. n <= Len(t)
    BY <1>3, <1>4, <1>5
<1>7. ASSUME NEW i \in 1..n
      PROVE  t[i] \in In(m, b) <=> want
  <2>1. i \in 1..(e - a) /\ a + i - 1 \in a..(g - 1)
      BY <1>3, <1>5
  <2>2. t[i] = m[a + i - 1]
      BY <1>4, <2>1
  <2> QED
      BY <1>3, <2>1, <2>2
<1>8. ASSUME n < Len(t)
      PROVE  ~(t[n + 1] \in In(m, b) <=> want)
  <2>1. n + 1 \in 1..(e - a) /\ a + (n + 1) - 1 = g /\ g # e
      BY <1>3, <1>4, <1>5, <1>8
  <2>2. t[n + 1] = m[g]
      BY <1>4, <2>1
  <2> QED
      BY <1>3, <2>1, <2>2
<1> QED
    BY <1>6, <1>7, <1>8 DEF n, t

\* What a search that is decided at its first place answers.
LEMMA FirstAtOnce ==
  ASSUME NEW p \in Int, NEW q \in Int, NEW H \in SUBSET (p..q)
  PROVE  /\ q < p => FirstOf(H) = NULL
         /\ p \in H => FirstOf(H) = p
<1>1. q < p => H = {}
    OBVIOUS
<1>2. ASSUME p \in H PROVE Min(H) = p
  <2>1. H \in SUBSET Int /\ \A x \in H : p <= x
      OBVIOUS
  <2> QED
      BY <1>2, <2>1, LeastIs
<1> QED
    BY <1>1, <1>2 DEF FirstOf

\* A string, as the searches from its first character see it.
LEMMA FirstPlace ==
  ASSUME NEW m, NEW p \in Addr, \E x \in Addr : x >= p /\ m[x] = 0
  PROVE  /\ p \in Int /\ p # NULL /\ p + Len(Text(m, p)) - 1 \in Int
         /\ m[p] = 0 => p + Len(Text(m, p)) - 1 < p
         /\ m[p] # 0 => p \in p..(p + Len(Text(m, p)) - 1)
<1>1. PICK e \in p..Size : EndsWith(m, p, e)
    BY StringEnds
<1>2. Len(Text(m, p)) = e - p
    BY <1>1, TextIs
<1>3. p \in Int /\ p # NULL /\ e \in Int /\ p <= e
    BY StringsAssumption DEF Addr, NULL
<1>4. m[e] = 0 /\ \A x \in p..(e - 1) : m[x] # 0
    BY <1>1 DEF EndsWith
<1>5. m[p] = 0 => e = p
    BY <1>3, <1>4
<1>6. m[p] # 0 => e # p
    BY <1>4
<1> QED
    BY <1>2, <1>3, <1>5, <1>6

LEMMA StrpbrkRight ==
  ASSUME NEW m \in Memory, NEW a \in Addr, NEW b \in Addr,
         \E x \in Addr : x >= a /\ m[x] = 0, \E x \in Addr : x >= b /\ m[x] = 0
  PROVE  strpbrk(m, a, b)
           \in {FirstOf({x \in a..(a + Len(Text(m, a)) - 1) : m[x] \in In(m, b)}), Hang}
<1> DEFINE q == a + Len(Text(m, a)) - 1
           H == {x \in a..q : m[x] \in In(m, b)}
<1>1. /\ a \in Int /\ a # NULL /\ q \in Int
      /\ m[a] = 0 => q < a
      /\ m[a] # 0 => a \in a..q
    BY FirstPlace
<1>2. b # NULL
    BY DEF Addr, NULL
<1>3. PICK f \in b..Size : EndsWith(m, b, f)
    BY StringEnds
<1>4. /\ m[a] \in In(m, b) => InSet(m, m[a], b) = TRUE
      /\ m[a] \notin In(m, b) => InSet(m, m[a], b) = FALSE
    BY <1>3, InSetRight
<1>5. /\ H \in SUBSET (a..q)
      /\ m[a] # 0 /\ m[a] \in In(m, b) => a \in H
    BY <1>1
<1> HIDE DEF q, H
<1>6. (q < a => FirstOf(H) = NULL) /\ (a \in H => FirstOf(H) = a)
    BY <1>1, <1>5, FirstAtOnce
<1>7. strpbrk(m, a, b) = IF m[a] = 0 THEN NULL ELSE IF InSet(m, m[a], b) THEN a ELSE Hang
    BY <1>1, <1>2 DEF strpbrk
<1> QED
    BY <1>1, <1>4, <1>5, <1>6, <1>7 DEF q, H

LEMMA StrstrOfOneRight ==
  ASSUME NEW m \in Memory, NEW h \in Addr, NEW n \in Addr,
         \E x \in Addr : x >= h /\ m[x] = 0, \E x \in Addr : x >= n /\ m[x] = 0,
         Len(Text(m, n)) = 1
  PROVE  strstr(m, h, n)
           \in {FirstOf({x \in h..(h + Len(Text(m, h)) - 1) : m[x] = m[n]}), Hang}
<1> DEFINE q == h + Len(Text(m, h)) - 1
           H == {x \in h..q : m[x] = m[n]}
<1>1. /\ h \in Int /\ h # NULL /\ q \in Int
      /\ m[h] = 0 => q < h
      /\ m[h] # 0 => h \in h..q
    BY FirstPlace
<1>2. n # NULL /\ n \in Int
    BY DEF Addr, NULL
<1>3. strlen(m, n) = 1
  <2>1. PICK e \in n..Size : EndsWith(m, n, e)
      BY StringEnds
  <2>2. Len(Text(m, n)) = e - n
      BY <2>1, TextIs
  <2>3. strlen(m, n) = e - n
      BY <2>1, LengthOfString
  <2> QED
      BY <2>2, <2>3
<1>4. (\A i \in 0..(strlen(m, n) - 1) : m[n + i] = m[h]) <=> m[n] = m[h]
  <2>1. 0..(strlen(m, n) - 1) = {0} /\ n + 0 = n
      BY <1>2, <1>3
  <2> QED
      BY <2>1
<1>5. /\ H \in SUBSET (h..q)
      /\ m[h] # 0 /\ m[n] = m[h] => h \in H
    BY <1>1
<1> HIDE DEF q, H
<1>6. (q < h => FirstOf(H) = NULL) /\ (h \in H => FirstOf(H) = h)
    BY <1>1, <1>5, FirstAtOnce
<1>7. strstr(m, h, n) = IF m[h] = 0 THEN NULL ELSE IF m[n] = m[h] THEN h ELSE Hang
    BY <1>1, <1>2, <1>4 DEF strstr
<1> QED
    BY <1>1, <1>5, <1>6, <1>7 DEF q, H

-----------------------------------------------------------------------------
(* The calls.                                                              *)

CopyNames == {"memcpy", "strncat", "strcpy", "strncpy"}
CompareNames == {"memcmp", "strncmp"}
SearchNames == {"memchr", "strchr", "strrchr"}
SpanNames == {"strcspn", "strspn"}

LEMMA NamesApart ==
  /\ \A f \in CopyNames : f \notin CompareNames /\ f \notin SearchNames /\ f \notin SpanNames
  /\ \A f \in CompareNames : f \notin CopyNames /\ f \notin SearchNames /\ f \notin SpanNames
  /\ \A f \in SearchNames : f \notin CopyNames /\ f \notin CompareNames /\ f \notin SpanNames
  /\ \A f \in SpanNames : f \notin CopyNames /\ f \notin CompareNames /\ f \notin SearchNames
  /\ "strpbrk" \notin CopyNames /\ "strpbrk" \notin CompareNames
  /\ "strpbrk" \notin SearchNames /\ "strpbrk" \notin SpanNames
  /\ "strstr" \notin CopyNames /\ "strstr" \notin CompareNames
  /\ "strstr" \notin SearchNames /\ "strstr" \notin SpanNames
  BY DEF CopyNames, CompareNames, SearchNames, SpanNames

\* A property is about the calls it names.
LEMMA OthersVacuous ==
  /\ last'.fn \notin CopyNames => CopiesRight'
  /\ last'.fn \notin CompareNames => ComparesRight'
  /\ last'.fn \notin SearchNames => SearchesRight'
  /\ last'.fn \notin SpanNames => SpansRight'
  /\ last'.fn # "strpbrk" => PbrkRight'
  /\ last'.fn # "strstr" => StrstrRight'
  BY DEF CopyNames, CompareNames, SearchNames, SpanNames, Called,
         CopiesRight, ComparesRight, SearchesRight, SpansRight, PbrkRight, StrstrRight

LEMMA CopyCall ==
  ASSUME NEW f \in CopyNames, NEW d, NEW s, NEW n, NEW r, r.mem \in Memory,
         Call(f, <<d, s, n>>, r),
         d # NULL /\ s # NULL =>
           Copied(r, d, Expected([fn |-> f, args |-> <<d, s, n>>, old |-> mem, ret |-> r.ret]),
                  n = 0 \/ Text(mem, s) = <<>>)
  PROVE  mem' \in Memory /\ StringsRight'
<1> DEFINE c == [fn |-> f, args |-> <<d, s, n>>, old |-> mem, ret |-> r.ret]
<1>1. mem' = r.mem /\ last' = c
    BY DEF Call
<1>2. /\ c.fn = f /\ c.args[1] = d /\ c.args[2] = s /\ c.args[3] = n
      /\ c.old = mem /\ c.ret = r.ret
    OBVIOUS
<1> HIDE DEF c
<1>3. CopiesRight'
  <2> SUFFICES ASSUME d # NULL, s # NULL
               PROVE  \/ r.mem = Expected(c) /\ r.ret = d
                      \/ r.ret = Fault /\ (n = 0 \/ Text(mem, s) = <<>>)
      BY <1>1, <1>2 DEF CopiesRight, NoneNull
  <2> QED
      BY DEF Copied, c
<1>4. /\ f \notin CompareNames /\ f \notin SearchNames /\ f \notin SpanNames
      /\ f # "strpbrk" /\ f # "strstr"
    BY NamesApart
<1>5. ComparesRight' /\ SearchesRight' /\ SpansRight' /\ PbrkRight' /\ StrstrRight'
    BY <1>1, <1>2, <1>4, OthersVacuous
<1> QED
    BY <1>1, <1>3, <1>5 DEF StringsRight

LEMMA CopiesKeep ==
  ASSUME mem \in Memory, Copies
  PROVE  mem' \in Memory /\ StringsRight'
<1> SUFFICES ASSUME NEW d \in Ptr, NEW s \in Ptr, NEW n \in Nums,
                    \/ /\ Fits(d, n) /\ Fits(s, n)
                       /\ Call("memcpy", <<d, s, n>>, memcpy(mem, d, s, n))
                    \/ /\ Str(s) /\ Str(d) /\ Fits(d, strlen(mem, d) + strlen(mem, s) + 1)
                       /\ Call("strncat", <<d, s, n>>, strncat(mem, d, s, n))
                    \/ /\ Str(s) /\ Fits(d, strlen(mem, s) + 1)
                       /\ Call("strcpy", <<d, s, Size>>, strcpy(mem, d, s))
                    \/ /\ Str(s) /\ Fits(d, n)
                       /\ Call("strncpy", <<d, s, n>>, strncpy(mem, d, s, n))
             PROVE  mem' \in Memory /\ StringsRight'
    BY DEF Copies
<1>1. n \in Nat
    BY StringsAssumption
<1>2. /\ "memcpy" \in CopyNames /\ "strncat" \in CopyNames
      /\ "strcpy" \in CopyNames /\ "strncpy" \in CopyNames
    BY DEF CopyNames
<1>3. CASE Fits(d, n) /\ Fits(s, n) /\ Call("memcpy", <<d, s, n>>, memcpy(mem, d, s, n))
  <2> DEFINE r == memcpy(mem, d, s, n)
  <2>1. /\ r.mem \in Memory
        /\ d # NULL /\ s # NULL => Copied(r, d, Put(mem, d, [i \in 1..n |-> mem[s + i - 1]]), n = 0)
      BY <1>1, <1>3, MemcpyRight
  <2>2. Call("memcpy", <<d, s, n>>, r)
      BY <1>3
  <2> HIDE DEF r
  <2>3. Expected([fn |-> "memcpy", args |-> <<d, s, n>>, old |-> mem, ret |-> r.ret])
          = Put(mem, d, [i \in 1..n |-> mem[s + i - 1]])
      BY DEF Expected
  <2>4. d # NULL /\ s # NULL =>
          Copied(r, d, Expected([fn |-> "memcpy", args |-> <<d, s, n>>, old |-> mem, ret |-> r.ret]),
                 n = 0 \/ Text(mem, s) = <<>>)
      BY <2>1, <2>3 DEF Copied
  <2> QED
      BY <1>2, <2>1, <2>2, <2>4, CopyCall
<1>4. CASE /\ Str(s) /\ Str(d) /\ Fits(d, strlen(mem, d) + strlen(mem, s) + 1)
           /\ Call("strncat", <<d, s, n>>, strncat(mem, d, s, n))
  <2> DEFINE r == strncat(mem, d, s, n)
             want == Put(mem, d + Len(Text(mem, d)), FirstN(Text(mem, s), n) \o <<0>>)
  <2>1. /\ r.mem \in Memory
        /\ d # NULL /\ s # NULL => Copied(r, d, want, n = 0 \/ Text(mem, s) = <<>>)
    <3>1. (\E a \in Addr : a >= s /\ mem[a] = 0) /\ (\E a \in Addr : a >= d /\ mem[a] = 0)
        BY <1>4 DEF Str
    <3> QED
        BY <1>1, <1>4, <3>1, StrncatRight
  <2>2. Call("strncat", <<d, s, n>>, r)
      BY <1>4
  <2>3. Expected([fn |-> "strncat", args |-> <<d, s, n>>, old |-> mem, ret |-> r.ret]) = want
    <3> HIDE DEF r
    <3> QED
        BY DEF Expected
  <2> HIDE DEF r, want
  <2> QED
      BY <1>2, <2>1, <2>2, <2>3, CopyCall
<1>5. CASE /\ Str(s) /\ Fits(d, strlen(mem, s) + 1)
           /\ Call("strcpy", <<d, s, Size>>, strcpy(mem, d, s))
  <2> DEFINE r == strcpy(mem, d, s)
             want == Put(mem, d, Text(mem, s) \o <<0>>)
  <2>1. /\ r.mem \in Memory
        /\ d # NULL /\ s # NULL => Copied(r, d, want, Text(mem, s) = <<>>)
    <3>1. \E a \in Addr : a >= s /\ mem[a] = 0
        BY <1>5 DEF Str
    <3> QED
        BY <1>1, <1>5, <3>1, StrcpyRight
  <2>2. Call("strcpy", <<d, s, Size>>, r)
      BY <1>5
  <2>3. Expected([fn |-> "strcpy", args |-> <<d, s, Size>>, old |-> mem, ret |-> r.ret]) = want
    <3> HIDE DEF r
    <3> QED
        BY DEF Expected
  <2> HIDE DEF r, want
  <2>4. d # NULL /\ s # NULL =>
          Copied(r, d, Expected([fn |-> "strcpy", args |-> <<d, s, Size>>, old |-> mem, ret |-> r.ret]),
                 Size = 0 \/ Text(mem, s) = <<>>)
      BY <2>1, <2>3 DEF Copied
  <2> QED
      BY <1>2, <2>1, <2>2, <2>4, CopyCall
<1>6. CASE Str(s) /\ Fits(d, n) /\ Call("strncpy", <<d, s, n>>, strncpy(mem, d, s, n))
  <2> DEFINE r == strncpy(mem, d, s, n)
             want == Put(mem, d, [i \in 1..n |-> IF i <= Len(Text(mem, s)) THEN Text(mem, s)[i] ELSE 0])
  <2>1. /\ r.mem \in Memory
        /\ d # NULL /\ s # NULL => Copied(r, d, want, n = 0 \/ Text(mem, s) = <<>>)
    <3>1. \E a \in Addr : a >= s /\ mem[a] = 0
        BY <1>6 DEF Str
    <3> QED
        BY <1>1, <1>6, <3>1, StrncpyRight
  <2>2. Call("strncpy", <<d, s, n>>, r)
      BY <1>6
  <2>3. Expected([fn |-> "strncpy", args |-> <<d, s, n>>, old |-> mem, ret |-> r.ret]) = want
    <3> HIDE DEF r
    <3> QED
        BY DEF Expected
  <2> HIDE DEF r, want
  <2> QED
      BY <1>2, <2>1, <2>2, <2>3, CopyCall
<1> QED
    BY <1>3, <1>4, <1>5, <1>6

LEMMA IntsAreIntegers ==
  \A c \in Ints : c \in Int /\ c % 256 \in 0..255
<1>1. \A b \in Bytes : b \in Int /\ Char(b) \in Int
    BY StringsAssumption DEF Char
<1>2. \A c \in Ints : c \in Int
    BY <1>1 DEF Ints
<1>3. \A c \in Int : c % 256 \in 0..255
    OBVIOUS
<1> QED
    BY <1>2, <1>3

LEMMA SetsKeep ==
  ASSUME mem \in Memory, Sets
  PROVE  mem' \in Memory /\ StringsRight'
<1>1. PICK d \in Ptr, c \in Ints, n \in Nums :
        Call("memset", <<d, c, n>>, memset(mem, d, c, n))
    BY DEF Sets
<1>2. memset(mem, d, c, n).mem \in Memory
  <2>1. c % 256 \in 0..255
      BY IntsAreIntegers
  <2> QED
      BY <2>1 DEF memset, Res, Memory
<1>3. mem' \in Memory /\ last'.fn = "memset"
    BY <1>1, <1>2 DEF Call
<1>4. /\ "memset" \notin CopyNames /\ "memset" \notin CompareNames
      /\ "memset" \notin SearchNames /\ "memset" \notin SpanNames
    BY DEF CopyNames, CompareNames, SearchNames, SpanNames
<1>5. StringsRight'
    BY <1>3, <1>4, OthersVacuous DEF StringsRight
<1> QED
    BY <1>3, <1>5

\* A call that only asks leaves memory and says what it found.
LEMMA AskIs ==
  ASSUME NEW f, NEW args, NEW v, Ask(f, args, v)
  PROVE  mem' = mem /\ last'.fn = f /\ last'.args = args /\ last'.ret = v
  BY DEF Ask, Call, Res

LEMMA ComparesKeep ==
  ASSUME mem \in Memory, Compares
  PROVE  mem' \in Memory /\ StringsRight'
<1>1. PICK a \in Ptr, b \in Ptr, n \in Nums \cup {Size} :
        \/ Fits(a, n) /\ Fits(b, n) /\ Ask("memcmp", <<a, b, n>>, memcmp(mem, a, b, n))
        \/ Str(a) /\ Str(b) /\ Ask("strncmp", <<a, b, n>>, strncmp(mem, a, b, n))
    BY DEF Compares
<1>2. n \in Nat
    BY StringsAssumption
<1>3. /\ "memcmp" \in CompareNames /\ "strncmp" \in CompareNames
      /\ \A f \in CompareNames : /\ f \notin CopyNames /\ f \notin SearchNames
                                /\ f \notin SpanNames /\ f # "strpbrk" /\ f # "strstr"
    BY NamesApart DEF CompareNames
<1>4. a # NULL /\ b # NULL => a \in Addr /\ b \in Addr
    BY DEF Ptr
<1>5. CASE Fits(a, n) /\ Fits(b, n) /\ Ask("memcmp", <<a, b, n>>, memcmp(mem, a, b, n))
  <2>1. /\ mem' = mem /\ last'.fn = "memcmp" /\ last'.args = <<a, b, n>>
        /\ last'.ret = memcmp(mem, a, b, n)
      BY <1>5, AskIs
  <2>2. a # NULL /\ b # NULL =>
          memcmp(mem, a, b, n)
            = Order([i \in 1..n |-> mem[a + i - 1]], [i \in 1..n |-> mem[b + i - 1]])
    <3> SUFFICES ASSUME a # NULL, b # NULL
                 PROVE  memcmp(mem, a, b, n)
                          = Order([i \in 1..n |-> mem[a + i - 1]], [i \in 1..n |-> mem[b + i - 1]])
        OBVIOUS
    <3>1. a + n - 1 <= Size /\ b + n - 1 <= Size
        BY <1>5 DEF Fits
    <3> QED
        BY <1>2, <1>4, <3>1, MemcmpRight
  <2>3. ComparesRight'
      BY <2>1, <2>2 DEF ComparesRight, Called, NoneNull
  <2>4. CopiesRight' /\ SearchesRight' /\ SpansRight' /\ PbrkRight' /\ StrstrRight'
      BY <1>3, <2>1, OthersVacuous
  <2> QED
      BY <2>1, <2>3, <2>4 DEF StringsRight
<1>6. CASE Str(a) /\ Str(b) /\ Ask("strncmp", <<a, b, n>>, strncmp(mem, a, b, n))
  <2>1. /\ mem' = mem /\ last'.fn = "strncmp" /\ last'.args = <<a, b, n>>
        /\ last'.ret = strncmp(mem, a, b, n)
      BY <1>6, AskIs
  <2>2. a # NULL /\ b # NULL =>
          strncmp(mem, a, b, n) = Order(Signed(Seen(mem, a, n)), Signed(Seen(mem, b, n)))
      BY <1>2, <1>4, <1>6, StrncmpRight DEF Str
  <2>3. ComparesRight'
      BY <2>1, <2>2 DEF ComparesRight, Called, NoneNull
  <2>4. CopiesRight' /\ SearchesRight' /\ SpansRight' /\ PbrkRight' /\ StrstrRight'
      BY <1>3, <2>1, OthersVacuous
  <2> QED
      BY <2>1, <2>3, <2>4 DEF StringsRight
<1> QED
    BY <1>1, <1>5, <1>6

LEMMA SearchesKeep ==
  ASSUME mem \in Memory, Searches
  PROVE  mem' \in Memory /\ StringsRight'
<1>1. PICK p \in Ptr, c \in Ints :
        \/ \E n \in Nums : Fits(p, n) /\ Ask("memchr", <<p, c, n>>, memchr(mem, p, c, n))
        \/ Str(p) /\ Ask("strchr", <<p, c>>, strchr(mem, p, c))
        \/ Str(p) /\ Ask("strrchr", <<p, c>>, strrchr(mem, p, c))
    BY DEF Searches
<1>2. /\ \A f \in SearchNames : /\ f \notin CopyNames /\ f \notin CompareNames
                               /\ f \notin SpanNames /\ f # "strpbrk" /\ f # "strstr"
      /\ "memchr" \in SearchNames /\ "strchr" \in SearchNames /\ "strrchr" \in SearchNames
    BY NamesApart DEF SearchNames
<1>3. c \in Int
    BY IntsAreIntegers
<1>4. p # NULL => p \in Addr
    BY DEF Ptr
<1>5. ASSUME NEW f \in SearchNames, last'.fn = f, mem' = mem, SearchesRight'
      PROVE  mem' \in Memory /\ StringsRight'
    BY <1>2, <1>5, OthersVacuous DEF StringsRight
<1>6. ASSUME NEW n \in Nums, Ask("memchr", <<p, c, n>>, memchr(mem, p, c, n))
      PROVE  mem' \in Memory /\ StringsRight'
  <2>1. /\ mem' = mem /\ last'.fn = "memchr" /\ last'.args = <<p, c, n>>
        /\ last'.ret = memchr(mem, p, c, n)
      BY <1>6, AskIs
  <2>2. p # NULL => FirstHit(memchr(mem, p, c, n), {a \in p..(p + n - 1) : mem[a] = c % 256})
      BY <1>3, <1>4, MemchrRight, StringsAssumption
  <2>3. SearchesRight'
      BY <2>1, <2>2 DEF SearchesRight, Called, FirstHit
  <2> QED
      BY <1>2, <1>5, <2>1, <2>3
<1>7. ASSUME Str(p), p # NULL
      PROVE  \E e : /\ EndsWith(mem, p, e) /\ p + Len(Text(mem, p)) - 1 = e - 1
  <2>1. PICK e \in p..Size : EndsWith(mem, p, e)
      BY <1>4, <1>7, StringEnds DEF Str
  <2>2. Len(Text(mem, p)) = e - p
      BY <2>1, TextIs
  <2>3. p \in Int /\ e \in Int
      BY <1>4, <1>7 DEF Addr
  <2> QED
      BY <2>1, <2>2, <2>3
<1>8. CASE Str(p) /\ Ask("strchr", <<p, c>>, strchr(mem, p, c))
  <2>1. /\ mem' = mem /\ last'.fn = "strchr" /\ last'.args = <<p, c>>
        /\ last'.ret = strchr(mem, p, c)
      BY <1>8, AskIs
  <2>2. p # NULL =>
          FirstHit(strchr(mem, p, c), {a \in p..(p + Len(Text(mem, p)) - 1) : Char(mem[a]) = c})
      BY <1>4, <1>7, <1>8, StrchrRight
  <2>3. SearchesRight'
      BY <2>1, <2>2 DEF SearchesRight, Called, FirstHit
  <2> QED
      BY <1>2, <1>5, <2>1, <2>3
<1>9. CASE Str(p) /\ Ask("strrchr", <<p, c>>, strrchr(mem, p, c))
  <2>1. /\ mem' = mem /\ last'.fn = "strrchr" /\ last'.args = <<p, c>>
        /\ last'.ret = strrchr(mem, p, c)
      BY <1>9, AskIs
  <2>2. p # NULL =>
          LastHit(strrchr(mem, p, c), {a \in p..(p + Len(Text(mem, p)) - 1) : Char(mem[a]) = c})
      BY <1>4, <1>7, <1>9, StrrchrRight
  <2>3. SearchesRight'
      BY <2>1, <2>2 DEF SearchesRight, Called, LastHit
  <2> QED
      BY <1>2, <1>5, <2>1, <2>3
<1> QED
    BY <1>1, <1>6, <1>8, <1>9

LEMMA SpansKeep ==
  ASSUME mem \in Memory, Spans
  PROVE  mem' \in Memory /\ StringsRight'
<1>1. PICK a \in Ptr, b \in Ptr :
        /\ Str(a) /\ Str(b)
        /\ \/ Ask("strcspn", <<a, b>>, strcspn(mem, a, b))
           \/ Ask("strspn", <<a, b>>, strspn(mem, a, b))
           \/ Ask("strpbrk", <<a, b>>, strpbrk(mem, a, b))
           \/ Ask("strstr", <<a, b>>, strstr(mem, a, b))
    BY DEF Spans
<1>2. /\ \A f \in SpanNames : /\ f \notin CopyNames /\ f \notin CompareNames
                             /\ f \notin SearchNames /\ f # "strpbrk" /\ f # "strstr"
      /\ "strcspn" \in SpanNames /\ "strspn" \in SpanNames
      /\ "strpbrk" \notin CopyNames /\ "strpbrk" \notin CompareNames
      /\ "strpbrk" \notin SearchNames /\ "strpbrk" \notin SpanNames
      /\ "strstr" \notin CopyNames /\ "strstr" \notin CompareNames
      /\ "strstr" \notin SearchNames /\ "strstr" \notin SpanNames
    BY NamesApart DEF CopyNames, CompareNames, SearchNames, SpanNames
<1>3. a # NULL /\ b # NULL => a \in Addr /\ b \in Addr
    BY DEF Ptr
<1>4. (\E x \in Addr : x >= a /\ mem[x] = 0) /\ (\E x \in Addr : x >= b /\ mem[x] = 0)
    BY <1>1 DEF Str
<1>5. \A p : Letters(p) = In(mem, p)
    BY DEF Letters, In
<1>6. ASSUME NEW f \in SpanNames, Ask(f, <<a, b>>, Span(mem, a, b, f = "strspn"))
      PROVE  mem' \in Memory /\ StringsRight'
  <2> DEFINE n == Span(mem, a, b, f = "strspn")
             t == Text(mem, a)
  <2>1. /\ mem' = mem /\ last'.fn = f /\ last'.args = <<a, b>> /\ last'.ret = n
      BY <1>6, AskIs
  <2>2. a # NULL /\ b # NULL =>
          /\ n <= Len(t)
          /\ \A i \in 1..n : t[i] \in In(mem, b) <=> f = "strspn"
          /\ n < Len(t) => ~(t[n + 1] \in In(mem, b) <=> f = "strspn")
    <3>1. (f = "strspn") \in BOOLEAN
        OBVIOUS
    <3> QED
        BY <1>3, <1>4, <3>1, SpanOfText
  <2> HIDE DEF n
  <2>3. SpansRight'
      BY <1>5, <2>1, <2>2 DEF SpansRight, Called, NoneNull, Letters
  <2>4. CopiesRight' /\ ComparesRight' /\ SearchesRight' /\ PbrkRight' /\ StrstrRight'
      BY <1>2, <2>1, OthersVacuous
  <2> QED
      BY <2>1, <2>3, <2>4 DEF StringsRight
<1>7. CASE Ask("strcspn", <<a, b>>, strcspn(mem, a, b))
  <2>1. strcspn(mem, a, b) = Span(mem, a, b, "strcspn" = "strspn")
      BY DEF strcspn
  <2> QED
      BY <1>2, <1>6, <1>7, <2>1
<1>8. CASE Ask("strspn", <<a, b>>, strspn(mem, a, b))
  <2>1. strspn(mem, a, b) = Span(mem, a, b, "strspn" = "strspn")
      BY DEF strspn
  <2> QED
      BY <1>2, <1>6, <1>8, <2>1
<1>9. CASE Ask("strpbrk", <<a, b>>, strpbrk(mem, a, b))
  <2>1. /\ mem' = mem /\ last'.fn = "strpbrk" /\ last'.args = <<a, b>>
        /\ last'.ret = strpbrk(mem, a, b)
      BY <1>9, AskIs
  <2>2. a # NULL /\ b # NULL =>
          strpbrk(mem, a, b)
            \in {FirstOf({x \in a..(a + Len(Text(mem, a)) - 1) : mem[x] \in In(mem, b)}), Hang}
      BY <1>3, <1>4, StrpbrkRight
  <2>3. PbrkRight'
    <3>1. Letters(last.args[2])' = In(mem, b)
        BY <2>1 DEF Letters, In
    <3>2. Places(last.args[1])' = a..(a + Len(Text(mem, a)) - 1)
        BY <2>1 DEF Places
    <3>3. FirstInSet' = FirstOf({x \in a..(a + Len(Text(mem, a)) - 1) : mem[x] \in In(mem, b)})
        BY <2>1, <3>1, <3>2 DEF FirstInSet
    <3> QED
        BY <2>1, <2>2, <3>3 DEF PbrkRight, Called, NoneNull
  <2>4. CopiesRight' /\ ComparesRight' /\ SearchesRight' /\ SpansRight' /\ StrstrRight'
      BY <1>2, <2>1, OthersVacuous
  <2> QED
      BY <2>1, <2>3, <2>4 DEF StringsRight
<1>10. CASE Ask("strstr", <<a, b>>, strstr(mem, a, b))
  <2>1. /\ mem' = mem /\ last'.fn = "strstr" /\ last'.args = <<a, b>>
        /\ last'.ret = strstr(mem, a, b)
      BY <1>10, AskIs
  <2>2. a # NULL /\ b # NULL /\ Len(Text(mem, b)) = 1 =>
          strstr(mem, a, b)
            \in {FirstOf({x \in a..(a + Len(Text(mem, a)) - 1) : mem[x] = mem[b]}), Hang}
      BY <1>3, <1>4, StrstrOfOneRight
  <2>3. StrstrRight'
      BY <2>1, <2>2 DEF StrstrRight, Places, Called, NoneNull
  <2>4. CopiesRight' /\ ComparesRight' /\ SearchesRight' /\ SpansRight' /\ PbrkRight'
      BY <1>2, <2>1, OthersVacuous
  <2> QED
      BY <2>1, <2>3, <2>4 DEF StringsRight
<1> QED
    BY <1>1, <1>7, <1>8, <1>9, <1>10

\* Between two calls nothing is said.
LEMMA NoCallRight ==
  /\ last = NoCall => StringsRight
  /\ last' = NoCall => StringsRight'
  BY DEF StringsRight, Called, CopiesRight, ComparesRight, SearchesRight, SpansRight, PbrkRight,
         StrstrRight

\* The functions of string.c do what they should in memories of any size, for
\* all bytes and all lengths that fit: the loops move, compare and find what
\* StringsRight says without them, and keep every byte a byte.
THEOREM StringsCorrect == StringsSpec => []StringsRight
<1> DEFINE IInv == mem \in Memory /\ StringsRight
<1>1. StringsInit => IInv
  <2> SUFFICES ASSUME StringsInit PROVE IInv
      OBVIOUS
  <2>1. mem \in Memory
      BY StringsAssumption DEF StringsInit, Memory
  <2> QED
      BY <2>1, NoCallRight DEF StringsInit
<1>2. IInv /\ [StringsNext]_stringVars => IInv'
  <2> SUFFICES ASSUME IInv, [StringsNext]_stringVars PROVE IInv'
      OBVIOUS
  <2>1. CASE Copies
      BY <2>1, CopiesKeep
  <2>2. CASE Sets
      BY <2>2, SetsKeep
  <2>3. CASE Compares
      BY <2>3, ComparesKeep
  <2>4. CASE Searches
      BY <2>4, SearchesKeep
  <2>5. CASE Spans
      BY <2>5, SpansKeep
  <2>6. CASE Return
      BY <2>6, NoCallRight DEF Return
  <2>7. CASE UNCHANGED stringVars
      BY <2>7 DEF stringVars, StringsRight, CopiesRight, ComparesRight, SearchesRight,
                  SpansRight, PbrkRight, FirstInSet, StrstrRight, Places,
                  Called, NoneNull, Letters
  <2> QED
      BY <2>1, <2>2, <2>3, <2>4, <2>5, <2>6, <2>7 DEF StringsNext
<1> QED
    BY <1>1, <1>2, PTL DEF StringsSpec
=============================================================================
