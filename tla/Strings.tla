------------------------------ MODULE Strings ------------------------------
(***************************************************************************)
(* The memory and string functions of util/string.c, one call at a time.   *)
(* Their loops are recursive functions over the memory; what they promise  *)
(* is stated without them in the properties.                               *)
(***************************************************************************)
EXTENDS Integers, Sequences, FiniteSetsExt

CONSTANTS
  Size,     \* bytes of memory, at the addresses 1..Size
  Bytes,    \* values a byte takes here, with 0
  Nums      \* lengths passed as num

ASSUME StringsAssumption == Size \in Nat /\ Bytes \subseteq 0..255 /\ Nums \subseteq Nat

NULL == 0
Addr == 1..Size
\* No string that is passed gets here: its terminator stands before.
MemEnd == Size + 1
Ptr == Addr \cup {NULL}
\* What a call gives when it runs into unmapped memory, or never returns.
Fault == -10
Hang == -11

VARIABLES
  mem,
  last    \* the call: its name and arguments, memory before it, its result

stringVars == <<mem, last>>

NoCall == [fn |-> "none"]

\* char is signed.
Char(b) == IF b < 128 THEN b ELSE b - 256

Res(m, v) == [mem |-> m, ret |-> v]

-----------------------------------------------------------------------------
(* The loops.                                                              *)

strlen(m, p) ==
  LET len[a \in 1..MemEnd] == IF a = MemEnd \/ m[a] = 0 THEN 0 ELSE 1 + len[a + 1]
  IN IF p = NULL THEN 0 ELSE len[p]

CopyUp(m, d, s, n) ==
  LET to[i \in 0..n] ==
        IF i = 0 THEN m ELSE [to[i - 1] EXCEPT ![d + i - 1] = to[i - 1][s + i - 1]]
  IN to[n]

\* Mutated: the loop stops before the byte at 0 is copied.
CopyDownShort(m, d, s, n) ==
  LET from[i \in 0..n] ==
        IF i = n THEN m ELSE [from[i + 1] EXCEPT ![d + i] = from[i + 1][s + i]]
  IN from[1]

CopyDown(m, d, s, n) ==
  LET from[i \in 0..n] ==
        IF i = n THEN m ELSE [from[i + 1] EXCEPT ![d + i] = from[i + 1][s + i]]
  IN from[0]

\* num - 1 wraps when nothing is to be copied down: the copy starts below both
\* pointers and goes on until it leaves what is mapped.
\* memmove calls it with the same arguments.
memcpy(m, d, s, n) ==
  IF d = NULL \/ s = NULL THEN Res(m, NULL)
  ELSE IF s > d THEN Res(CopyUp(m, d, s, n), d)
  ELSE IF n > 0 THEN Res(CopyDown(m, d, s, n), d)
  ELSE Res(m, Fault)

memset(m, d, c, n) ==
  IF d = NULL THEN Res(m, NULL)
  ELSE Res([a \in Addr |-> IF a \in d..(d + n - 1) THEN c % 256 ELSE m[a]], d)

memchr(m, p, c, n) ==
  LET find[i \in 0..n] ==
        IF i = n THEN NULL ELSE IF m[p + i] = c % 256 THEN p + i ELSE find[i + 1]
  IN IF p = NULL THEN NULL ELSE find[0]

Sign(x) == IF x < 0 THEN -1 ELSE IF x > 0 THEN 1 ELSE 0

memcmp(m, a, b, n) ==
  LET cmp[i \in 0..n] ==
        IF i = n THEN 0
        ELSE IF m[a + i] # m[b + i] THEN Sign(m[a + i] - m[b + i]) ELSE cmp[i + 1]
  IN IF a = NULL \/ b = NULL THEN 1 ELSE cmp[0]

\* strcmp has no limit: n = Size is none.
strncmp(m, a, b, n) ==
  LET cmp[i \in 0..n] ==
        IF i = n THEN 0
        ELSE IF m[a + i] # m[b + i] THEN Sign(Char(m[a + i]) - Char(m[b + i]))
        ELSE IF m[a + i] = 0 THEN 0 ELSE cmp[i + 1]
  IN IF a = NULL \/ b = NULL THEN (IF a = b THEN 0 ELSE 1) ELSE cmp[0]

-----------------------------------------------------------------------------
(* Functions made of others, and the searches in a string.                 *)

\* strcat has no limit: n = Size is none.
strncat(m, d, s, n) ==
  LET dl == strlen(m, d)
      sl == IF strlen(m, s) > n THEN n ELSE strlen(m, s)
      c == memcpy(m, d + dl, s, sl)
  IN IF d = NULL \/ s = NULL THEN Res(m, NULL)
     ELSE IF c.ret = Fault THEN c
     ELSE Res([c.mem EXCEPT ![d + dl + sl] = 0], d)

strcpy(m, d, s) ==
  IF d = NULL \/ s = NULL THEN Res(m, NULL) ELSE memcpy(m, d, s, strlen(m, s) + 1)

strncpy(m, d, s, n) ==
  LET len == strlen(m, s)
      c == memcpy(m, d, s, len)
  IN IF d = NULL \/ s = NULL THEN Res(m, NULL)
     ELSE IF len >= n THEN memcpy(m, d, s, n)
     ELSE IF c.ret = Fault THEN c
     ELSE Res(memset(c.mem, d + len, 0, n - len).mem, d)

strchr(m, p, c) ==
  LET find[a \in 1..MemEnd] ==
        IF a = MemEnd \/ m[a] = 0 THEN NULL ELSE IF Char(m[a]) = c THEN a ELSE find[a + 1]
  IN IF p = NULL THEN NULL ELSE find[p]

strrchr(m, p, c) ==
  LET lastOccurance[i \in 0..strlen(m, p)] ==
        IF i = 0 THEN NULL
        ELSE IF Char(m[p + i - 1]) = c THEN p + i - 1 ELSE lastOccurance[i - 1]
  IN IF p = NULL THEN NULL ELSE lastOccurance[strlen(m, p)]

\* The loop over b.
InSet(m, c, b) ==
  LET match[i \in 0..strlen(m, b)] == i > 0 /\ (c = m[b + i - 1] \/ match[i - 1])
  IN match[strlen(m, b)]

\* The prefix of a whose characters are all in b (want) or all outside it.
Span(m, a, b, want) ==
  LET num[x \in 1..MemEnd] ==
        IF x = MemEnd \/ m[x] = 0 \/ InSet(m, m[x], b) # want THEN 0 ELSE 1 + num[x + 1]
  IN IF a = NULL THEN 0 ELSE IF b = NULL THEN strlen(m, a) ELSE num[a]

strcspn(m, a, b) == Span(m, a, b, FALSE)
strspn(m, a, b) == Span(m, a, b, TRUE)

\* The loop never moves a on.
strpbrk(m, a, b) ==
  IF a = NULL \/ b = NULL THEN NULL
  ELSE IF m[a] = 0 THEN NULL
  ELSE IF InSet(m, m[a], b) THEN a ELSE Hang

\* Nor does this one: the needle is compared with the first character only.
strstr(m, h, n) ==
  IF h = NULL \/ n = NULL THEN NULL
  ELSE IF m[h] = 0 THEN NULL
  ELSE IF \A i \in 0..(strlen(m, n) - 1) : m[n + i] = m[h] THEN h ELSE Hang

-----------------------------------------------------------------------------
(* The calls: arguments a caller may pass, in the room there is.           *)

Fits(p, n) == p = NULL \/ p + n - 1 <= Size
Str(p) == \E a \in Addr : a >= p /\ mem[a] = 0
Ints == Bytes \cup {Char(b) : b \in Bytes}

Call(fn, args, r) ==
  /\ mem' = r.mem
  /\ last' = [fn |-> fn, args |-> args, old |-> mem, ret |-> r.ret]

Ask(fn, args, v) == Call(fn, args, Res(mem, v))

Copies ==
  \E d, s \in Ptr, n \in Nums :
    \/ /\ Fits(d, n) /\ Fits(s, n)
       /\ Call("memcpy", <<d, s, n>>, memcpy(mem, d, s, n))
    \/ /\ Str(s) /\ Str(d) /\ Fits(d, strlen(mem, d) + strlen(mem, s) + 1)
       /\ Call("strncat", <<d, s, n>>, strncat(mem, d, s, n))
    \/ /\ Str(s) /\ Fits(d, strlen(mem, s) + 1)
       /\ Call("strcpy", <<d, s, Size>>, strcpy(mem, d, s))
    \/ /\ Str(s) /\ Fits(d, n)
       /\ Call("strncpy", <<d, s, n>>, strncpy(mem, d, s, n))

Sets ==
  \E d \in Ptr, c \in Ints, n \in Nums :
    Fits(d, n) /\ Call("memset", <<d, c, n>>, memset(mem, d, c, n))

Compares ==
  \E a, b \in Ptr, n \in Nums \cup {Size} :
    \/ Fits(a, n) /\ Fits(b, n) /\ Ask("memcmp", <<a, b, n>>, memcmp(mem, a, b, n))
    \/ Str(a) /\ Str(b) /\ Ask("strncmp", <<a, b, n>>, strncmp(mem, a, b, n))

Searches ==
  \E p \in Ptr, c \in Ints :
    \/ \E n \in Nums : Fits(p, n) /\ Ask("memchr", <<p, c, n>>, memchr(mem, p, c, n))
    \/ Str(p) /\ Ask("strchr", <<p, c>>, strchr(mem, p, c))
    \/ Str(p) /\ Ask("strrchr", <<p, c>>, strrchr(mem, p, c))

Spans ==
  \E a, b \in Ptr :
    /\ Str(a) /\ Str(b)
    /\ \/ Ask("strcspn", <<a, b>>, strcspn(mem, a, b))
       \/ Ask("strspn", <<a, b>>, strspn(mem, a, b))
       \/ Ask("strpbrk", <<a, b>>, strpbrk(mem, a, b))
       \/ Ask("strstr", <<a, b>>, strstr(mem, a, b))

Return ==
  /\ last # NoCall /\ last.ret \notin {Fault, Hang}
  /\ last' = NoCall
  /\ UNCHANGED mem

StringsInit == mem \in [Addr -> Bytes] /\ last = NoCall
StringsNext ==
  \/ last = NoCall /\ (Copies \/ Sets \/ Compares \/ Searches \/ Spans)
  \/ Return
StringsSpec == StringsInit /\ [][StringsNext]_stringVars
-----------------------------------------------------------------------------
(* Properties.                                                             *)

Called(fns) == last # NoCall /\ last.fn \in fns
NoneNull == last.args[1] # NULL /\ last.args[2] # NULL

\* The text of a string, without its terminator.
Text(m, p) ==
  LET end == Min({a \in p..Size : m[a] = 0}) IN [i \in 1..(end - p) |-> m[p + i - 1]]

FirstN(t, n) == SubSeq(t, 1, IF n < Len(t) THEN n ELSE Len(t))

Put(m, p, t) == [a \in Addr |-> IF a \in p..(p + Len(t) - 1) THEN t[a - p + 1] ELSE m[a]]

\* What the copying functions leave at which address; sources may overlap.
Expected(c) ==
  LET d == c.args[1]
      s == c.args[2]
      n == c.args[3]
      m == c.old
  IN CASE c.fn = "memcpy" -> Put(m, d, [i \in 1..n |-> m[s + i - 1]])
       [] c.fn = "strncat" ->
            Put(m, d + Len(Text(m, d)), FirstN(Text(m, s), n) \o <<0>>)
       [] c.fn = "strcpy" -> Put(m, d, Text(m, s) \o <<0>>)
       [] c.fn = "strncpy" ->
            Put(m, d, [i \in 1..n |-> IF i <= Len(Text(m, s)) THEN Text(m, s)[i] ELSE 0])

\* memcpy, strncat, strcpy and strncpy move the bytes the source had before the
\* call, however the two overlap, and touch no byte outside their destination;
\* what never comes back had nothing to copy.
CopiesRight ==
  Called({"memcpy", "strncat", "strcpy", "strncpy"}) /\ NoneNull =>
    \/ mem = Expected(last) /\ last.ret = last.args[1]
    \/ last.ret = Fault /\ (last.args[3] = 0 \/ Text(last.old, last.args[2]) = <<>>)

\* What a comparison sees of a string: n bytes at most, its terminator the last.
Seen(m, p, n) == FirstN(Append(Text(m, p), 0), n)

\* Sign of the first difference of two byte sequences.
Order(s, t) ==
  LET diff == {i \in DOMAIN s \cap DOMAIN t : s[i] # t[i]}
  IN IF diff = {} THEN 0 ELSE IF s[Min(diff)] < t[Min(diff)] THEN -1 ELSE 1

Signed(s) == [i \in DOMAIN s |-> Char(s[i])]

\* Comparisons order by the first difference within the length and the strings:
\* memcmp by unsigned bytes, strcmp and strncmp by signed characters.
ComparesRight ==
  LET n == last.args[3]
      a == last.args[1]
      b == last.args[2]
  IN /\ Called({"memcmp"}) /\ NoneNull =>
          last.ret = Order([i \in 1..n |-> mem[a + i - 1]], [i \in 1..n |-> mem[b + i - 1]])
     /\ Called({"strncmp"}) /\ NoneNull =>
          last.ret = Order(Signed(Seen(mem, a, n)), Signed(Seen(mem, b, n)))

\* memchr and strchr find the first, strrchr the last of the bytes that match;
\* the terminator of a string never does.
SearchesRight ==
  Called({"memchr", "strchr", "strrchr"}) /\ last.args[1] # NULL =>
    LET p == last.args[1]
        c == last.args[2]
        hits == IF last.fn = "memchr"
                THEN {a \in p..(p + last.args[3] - 1) : mem[a] = c % 256}
                ELSE {a \in p..(p + Len(Text(mem, p)) - 1) : Char(mem[a]) = c}
    IN last.ret = IF hits = {} THEN NULL
                  ELSE IF last.fn = "strrchr" THEN Max(hits) ELSE Min(hits)

Letters(p) == {Text(mem, p)[i] : i \in DOMAIN Text(mem, p)}

\* strcspn and strspn split the string: what they count is in the set or outside
\* it, and the next character is not.
SpansRight ==
  Called({"strcspn", "strspn"}) /\ NoneNull =>
    LET t == Text(mem, last.args[1])
        in(i) == (t[i] \in Letters(last.args[2])) = (last.fn = "strspn")
    IN /\ last.ret <= Len(t)
       /\ \A i \in 1..last.ret : in(i)
       /\ last.ret < Len(t) => ~in(last.ret + 1)

FirstOf(hits) == IF hits = {} THEN NULL ELSE Min(hits)
Places(p) == p..(p + Len(Text(mem, p)) - 1)

FirstInSet == FirstOf({x \in Places(last.args[1]) : mem[x] \in Letters(last.args[2])})

\* "First character in a matching any in b" (string.c:167, string.h:26): strpbrk
\* answers with it, or with NULL where there is none.
PbrkFirst == Called({"strpbrk"}) /\ NoneNull => last.ret = FirstInSet

\* If strpbrk comes back its answer is that one; PbrkFirst is about the rest.
PbrkRight == Called({"strpbrk"}) /\ NoneNull => last.ret \in {FirstInSet, Hang}

\* If strstr comes back from looking for one character, it is with the first place
\* of it or with NULL.  Of a longer needle no more than the first character of the
\* haystack is ever compared, and nothing is claimed.
StrstrRight ==
  Called({"strstr"}) /\ NoneNull /\ Len(Text(mem, last.args[2])) = 1 =>
    last.ret \in {FirstOf({x \in Places(last.args[1]) : mem[x] = mem[last.args[2]]}), Hang}

\* On every memory and for all arguments in it, the functions of string.c copy,
\* compare, find and count what they should; strpbrk, and strstr for one character,
\* when they come back.
StringsRight ==
  CopiesRight /\ ComparesRight /\ SearchesRight /\ SpansRight /\ PbrkRight /\ StrstrRight
=============================================================================
