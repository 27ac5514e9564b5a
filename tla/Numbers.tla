------------------------------ MODULE Numbers ------------------------------
(***************************************************************************)
(* util/numbers.c: numbers as text.  ultoa doubles a row of decimal digits *)
(* once per bit of the number, the most significant bit first; ltoa, ltox, *)
(* padn and logTimer's stamp (logging.c) are made of it or around it.      *)
(*                                                                         *)
(* Bits and Digits are 64 and 20 in the code.  A buffer is a function on   *)
(* 0..BufSize - 1; a character is the digit it shows, or one of the names  *)
(* below.                                                                  *)
(***************************************************************************)
EXTENDS Integers, Sequences, FiniteSetsExt

CONSTANTS
  Bits,         \* width of an unsigned long
  Digits,       \* digits of the longest number
  BufSize,      \* char yesbuf[22], buf[22]: a sign, the digits and the terminator
  Widths        \* widths padn and ltox are asked for, below BufSize

\* b to the power of n.
Power(b, n) ==
  LET power[k \in Nat] == IF k = 0 THEN 1 ELSE b * power[k - 1] IN power[n]

\* A buffer holds a sign, all digits and a terminator, and the digits are enough
\* for every number.
ASSUME NumbersAssumption ==
  /\ Bits \in Nat \ {0}
  /\ Digits \in Nat \ {0}
  /\ Power(2, Bits) <= Power(10, Digits)
  /\ BufSize \in Nat /\ BufSize >= Digits + 2
  /\ Widths \subseteq 0..(BufSize - 1)

Minus == 100
Space == 101
Nul == -1      \* the terminator
Junk == -2     \* a byte the call did not write

VARIABLES
  fn,       \* the function that was called
  value,    \* its number
  width,    \* its num argument, for padn and ltox
  neg,      \* 1 when ultoa was called with &out[1]
  rest,     \* value, shifted left so far
  iter,
  out,      \* the buffer
  pc

vars == <<fn, value, width, neg, rest, iter, out, pc>>

Unsigned == 0..(Power(2, Bits) - 1)
SignedLong == (-Power(2, Bits - 1))..(Power(2, Bits - 1) - 1)

AllJunk == [x \in 0..(BufSize - 1) |-> Junk]

-----------------------------------------------------------------------------
(* ultoa on the buffer from neg on.                                        *)

\* memset(out, 0, digits + 1)
Cleared(o, n) ==
  [x \in DOMAIN o |-> IF x \in n..(n + Digits - 1) THEN 0
                      ELSE IF x = n + Digits THEN Nul ELSE o[x]]

\* ultoa(&out[n], v) up to its loop.
UltoaFrom(v, n, o) ==
  /\ neg' = n
  /\ rest' = v
  /\ out' = Cleared(o, n)
  /\ pc' = "double"

Ultoa ==
  /\ pc = "call" /\ fn \in {"ultoa", "padn"}
  /\ UltoaFrom(value % Power(2, Bits), 0, out)
  /\ UNCHANGED <<fn, value, width, iter>>

\* Mutated: a digit of 5 is not corrected before it is doubled.
MagicLate(d) == IF d > 5 THEN d + 3 ELSE d

Magic(d) == IF d >= 5 THEN d + 3 ELSE d

\* The shift loop goes from the last digit to the first; bit c comes in.
Shifted(o, n, c) ==
  LET carry[k \in 0..Digits] ==
        IF k = 0 THEN c
        ELSE IF 2 * Magic(o[n + Digits - k]) + carry[k - 1] >= 16 THEN 1 ELSE 0
  IN [x \in DOMAIN o |->
        IF x \in n..(n + Digits - 1)
        THEN (2 * Magic(o[x]) + carry[n + Digits - 1 - x]) % 16 ELSE o[x]]

TopBit(v) == v \div Power(2, Bits - 1)

Double ==
  /\ pc = "double" /\ iter < Bits
  /\ out' = Shifted(out, neg, TopBit(rest))
  /\ rest' = (2 * rest) % Power(2, Bits)
  /\ iter' = iter + 1
  /\ UNCHANGED <<fn, value, width, neg, pc>>

\* Leading zeroes are skipped; the last digit never is.
Skipped(o, n) == Min({x \in n..(n + Digits - 1) : x = n + Digits - 1 \/ o[x] # 0})

\* strcpy(out, org): a string moved down onto itself.
Strip ==
  /\ pc = "double" /\ iter = Bits
  /\ LET org == Skipped(out, neg)
         len == neg + Digits - org
     IN out' = [x \in DOMAIN out |->
                  IF x \in neg..(neg + len) THEN out[x + org - neg] ELSE out[x]]
  /\ pc' = IF fn = "padn" THEN "pad" ELSE "done"
  /\ UNCHANGED <<fn, value, width, neg, rest, iter>>

-----------------------------------------------------------------------------
(* The others.                                                             *)

\* -value of the lowest long wraps to itself, which is its size unsigned.
Negated(v) == UltoaFrom(-v, 1, [out EXCEPT ![0] = Minus])

Ltoa ==
  /\ pc = "call" /\ fn = "ltoa"
  /\ IF value < 0 THEN Negated(value) ELSE UltoaFrom(value, 0, out)
  /\ UNCHANGED <<fn, value, width, iter>>

StrLen(o) == Min({x \in DOMAIN o : o[x] = Nul})

Padded(o, p, num) ==
  LET n == num - StrLen(o)
  IN [x \in DOMAIN o |-> IF n <= 0 THEN o[x]
                         ELSE IF x < n THEN p
                         ELSE IF x <= num THEN o[x - n] ELSE o[x]]

\* padn on a number that was printed into the buffer, as logTimer does.
Pad ==
  /\ pc = "pad"
  /\ out' = Padded(out, Space, width)
  /\ pc' = "done"
  /\ UNCHANGED <<fn, value, width, neg, rest, iter>>

\* The digits from the last to the first; >>= keeps the sign.
Hex(v, num) ==
  LET shifted[i \in 0..num] == IF i = 0 THEN v ELSE shifted[i - 1] \div 16
  IN [x \in DOMAIN out |-> IF x < num THEN shifted[num - x - 1] % 16
                           ELSE IF x = num THEN Nul ELSE out[x]]

Ltox ==
  /\ pc = "call" /\ fn = "ltox"
  /\ out' = Hex(value, width)
  /\ pc' = "done"
  /\ UNCHANGED <<fn, value, width, neg, rest, iter>>

Init ==
  /\ fn \in {"ultoa", "ltoa", "ltox", "padn"}
  /\ value \in IF fn \in {"ultoa", "padn"} THEN Unsigned ELSE SignedLong
  /\ width \in Widths
  /\ neg = 0
  /\ rest = 0
  /\ iter = 0
  /\ out = AllJunk
  /\ pc = "call"

Next == Ultoa \/ Ltoa \/ Ltox \/ Double \/ Strip \/ Pad
Spec == Init /\ [][Next]_vars
-----------------------------------------------------------------------------
(* Properties.                                                             *)

Magnitude(v) == IF v < 0 THEN -v ELSE v

Decimal(o, a, n) == \A x \in a..(a + n - 1) : o[x] \in 0..9

\* The number that n characters from a on show in a base.
Reads(o, a, n, base) ==
  LET read[k \in 0..(BufSize - a)] ==
        IF k = 0 THEN 0 ELSE base * read[k - 1] + o[a + k - 1]
  IN read[n]

\* ultoa's loop: after every iteration the row is decimal and shows the bits
\* that were shifted in.
DigitsDouble ==
  pc = "double" =>
    /\ Decimal(out, neg, Digits)
    /\ Reads(out, neg, Digits, 10) = Magnitude(value) \div Power(2, Bits - iter)

\* The text of ultoa and ltoa reads as the number, for the lowest long as well,
\* and has no leading zero.
TextRight ==
  pc = "done" /\ fn \in {"ultoa", "ltoa"} =>
    LET digits == StrLen(out) - neg IN
    /\ neg = 1 <=> value < 0
    /\ neg = 1 => out[0] = Minus
    /\ digits > 0
    /\ Decimal(out, neg, digits)
    /\ Reads(out, neg, digits, 10) = Magnitude(value)
    /\ out[neg] = 0 => digits = 1

\* ltox shows as many of the low bits as it is asked for, of negative numbers too.
HexRight ==
  pc = "done" /\ fn = "ltox" =>
    /\ StrLen(out) = width
    /\ Reads(out, 0, width, 16) = value % Power(16, width)

\* padn only adds in front, and only what is missing.
PadRight ==
  pc = "done" /\ fn = "padn" =>
    LET first == Min({x \in DOMAIN out : out[x] # Space})
        end == StrLen(out)
    IN /\ first < end
       /\ Decimal(out, first, end - first)
       /\ Reads(out, first, end - first, 10) = value
       /\ first > 0 => end = width
       /\ end >= width

\* ultoa, ltoa, ltox and padn are right about every number, and ultoa after every
\* bit of it.
NumbersRight == DigitsDouble /\ TextRight /\ HexRight /\ PadRight
=============================================================================
