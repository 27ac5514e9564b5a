--------------------------- MODULE InterruptsProofs ---------------------------
(***************************************************************************)
(* Exceptions that nest to any depth, at any instruction and on any stack: *)
(* each handler finds its frame, what returns leaves everything as it was, *)
(* and what does not shows the right screen.                               *)
(***************************************************************************)
EXTENDS InterruptsInv, SequenceTheorems, TLAPS

-----------------------------------------------------------------------------
(* Addresses of code.                                                      *)

LEMMA Addresses ==
  ASSUME NEW v \in 0..31, NEW o \in 0..63
  PROVE  /\ VectorAt(Stubs(v) + o) = v /\ Offset(Stubs(v) + o) = o
         /\ Stubs(v) + o >= 64 /\ Stubs(v) + o < Halt
BY DEF VectorAt, Offset, Stubs, Halt

LEMMA StubAddresses ==
  ASSUME NEW v \in 0..15, NEW q \in Places(v)
  PROVE  /\ q \in 0..36 /\ q - Extra(v) \in 0..36
         /\ At(v, q) \in Int
         /\ VectorAt(At(v, q)) = v /\ Offset(At(v, q)) = q - Extra(v)
         /\ At(v, q) >= 64 /\ At(v, q) < Halt
<1>1. Extra(v) \in {0, 1}
    BY DEF Extra
<1>2. q \in 0..36 /\ q - Extra(v) \in 0..36
    BY <1>1 DEF Places
<1>3. At(v, q) = Stubs(v) + (q - Extra(v)) /\ Stubs(v) \in Int
    BY <1>1, <1>2 DEF At, Stubs
<1> QED
    BY <1>1, <1>2, <1>3, Addresses

LEMMA FunctionSeq ==
  ASSUME NEW S, NEW n \in Nat, NEW f \in [1..n -> S]
  PROVE  f \in Seq(S) /\ Len(f) = n
BY SeqDef

\* The instructions one by one.
LEMMA Instr0 == Instr(0) = <<"push 0">>
BY DEF Instr

LEMMA InstrPush == ASSUME NEW q \in 1..16 PROVE Instr(q) = <<"push", PushOrder[q]>>
<1>1. q # 0 /\ q <= 16
    OBVIOUS
<1> QED
    BY <1>1, Zenon DEF Instr

LEMMA InstrMov == Instr(17) = <<"mov rsp, rdi">>
BY DEF Instr

LEMMA InstrCall == Instr(18) = <<"call handler">>
BY DEF Instr

LEMMA InstrPop == ASSUME NEW q \in 19..34 PROVE Instr(q) = <<"pop", PopOrder[q - 18]>>
<1>1. q # 0 /\ ~(q <= 16) /\ q # 17 /\ q # 18 /\ q <= 34
    OBVIOUS
<1> QED
    BY <1>1, Zenon DEF Instr

LEMMA InstrPopCode == Instr(35) = <<"pop irqErrorCode">>
BY DEF Instr

LEMMA InstrIretq == Instr(36) = <<"iretq">>
BY DEF Instr

\* s is a sequence of n elements of S, and st is s followed by t: by these
\* names the provers need not look into either.
Words(S, s, n) == s \in Seq(S) /\ Len(s) = n
Cat(s, t, st) == st = s \o t

\* One sequence after another.
LEMMA Joined ==
  ASSUME NEW S, NEW s, NEW t, NEW st, NEW m \in Nat, NEW n \in Nat,
         Words(S, s, m), Words(S, t, n), Cat(s, t, st)
  PROVE  /\ Words(S, st, m + n)
         /\ \A i \in 1..m : st[i] = s[i]
         /\ \A i \in 1..n : st[m + i] = t[i]
<1>0. s \in Seq(S) /\ t \in Seq(S) /\ Len(s) = m /\ Len(t) = n /\ st = s \o t
    BY DEF Words, Cat
<1>1. /\ st \in Seq(S) /\ Len(st) = Len(s) + Len(t)
      /\ \A i \in 1..(Len(s) + Len(t)) :
           st[i] = IF i <= Len(s) THEN s[i] ELSE t[i - Len(s)]
  <2>1. /\ s \o t \in Seq(S) /\ Len(s \o t) = Len(s) + Len(t)
        /\ \A i \in 1..(Len(s) + Len(t)) :
             (s \o t)[i] = IF i <= Len(s) THEN s[i] ELSE t[i - Len(s)]
      BY <1>0, ConcatProperties
  <2> QED BY <1>0, <2>1, Zenon
<1>2. \A i \in 1..(m + n) : st[i] = IF i <= m THEN s[i] ELSE t[i - m]
    BY <1>0, <1>1
<1>3. ASSUME NEW i \in 1..n PROVE st[m + i] = t[i]
  <2>1. m + i \in 1..(m + n) /\ ~(m + i <= m) /\ (m + i) - m = i
      OBVIOUS
  <2> QED
      BY <1>2, <2>1
<1>4. \A i \in 1..m : st[i] = s[i]
    BY <1>2
<1>5. Words(S, st, m + n)
    BY <1>0, <1>1 DEF Words
<1> QED
    BY <1>3, <1>4, <1>5

LEMMA FunctionWords ==
  ASSUME NEW S, NEW n \in Nat, NEW f \in [1..n -> S]
  PROVE  Words(S, f, n)
BY FunctionSeq DEF Words

\* Short sequences.
LEMMA NoWords == ASSUME NEW S, NEW s, s = <<>> PROVE Words(S, s, 0)
BY DEF Words

LEMMA OneWord ==
  ASSUME NEW S, NEW s, NEW x \in S, s = <<x>>
  PROVE  Words(S, s, 1) /\ s[1] = x
BY DEF Words

Pair(s, x, y) == s = <<x, y>>

LEMMA TwoWords ==
  ASSUME NEW S, NEW s, NEW x \in S, NEW y \in S, Pair(s, x, y)
  PROVE  Words(S, s, 2) /\ s[1] = x /\ s[2] = y
BY DEF Words, Pair

\* A stub does, in this order, what Instr says.
LEMMA StubInstructions ==
  ASSUME NEW v \in 0..15, NEW q \in Places(v)
  PROVE  Stub(v)[q - Extra(v) + 1] = Instr(q)
<1> DEFINE S == {Instr(k) : k \in 0..36}
           f == [k \in 0..36 |-> Instr(k)]
           pre == IF v \in StubsWithoutCode THEN <<>> ELSE << <<"push 0">> >>
           pushes == [i \in 1..16 |-> <<"push", PushOrder[i]>>]
           call == << <<"mov rsp, rdi">>, <<"call handler">> >>
           pops == [i \in 1..16 |-> <<"pop", PopOrder[i]>>]
           end == << <<"pop irqErrorCode">>, <<"iretq">> >>
           e == Extra(v)
           s1 == pre \o pushes
           s2 == s1 \o call
           s3 == s2 \o pops
           s == s3 \o end
<1>1. Cat(pre, pushes, s1) /\ Cat(s1, call, s2) /\ Cat(s2, pops, s3) /\ Cat(s3, end, s)
    BY Zenon DEF Cat
<1>2. Stub(v) = s
    BY Zenon DEF Stub
<1> HIDE DEF s1, s2, s3, s
<1>3. \A k \in 0..36 : f[k] \in S /\ f[k] = Instr(k)
    OBVIOUS
<1> HIDE DEF S, f
<1>4. e \in {0, 1} /\ (v \in StubsWithoutCode <=> e = 1)
    BY DEF Extra
<1>5. q \in 0..36 /\ q >= e
    BY <1>4 DEF Places
<1> HIDE DEF e
<1>6. Words(S, pre, 1 - e) /\ (e = 0 => pre[1] = f[0])
  <2>1. CASE v \in StubsWithoutCode
    <3>1. pre = <<>>
        BY <2>1, Zenon
    <3> HIDE DEF pre
    <3>2. Words(S, pre, 0)
        BY <3>1, NoWords, Zenon
    <3> QED
        BY <1>4, <2>1, <3>2
  <2>2. CASE v \notin StubsWithoutCode
    <3>1. pre = << f[0] >>
      <4>1. pre = << <<"push 0">> >>
          BY <2>2, Zenon
      <4>2. f[0] = Instr(0)
          BY <1>3
      <4> QED
          BY <4>1, <4>2, Instr0, Zenon
    <3> HIDE DEF pre
    <3>2. f[0] \in S
        BY <1>3
    <3>3. Words(S, pre, 1) /\ pre[1] = f[0]
        BY <3>1, <3>2, OneWord, Zenon
    <3> QED
        BY <1>4, <2>2, <3>3
  <2> QED
      BY <2>1, <2>2
<1>7. Words(S, pushes, 16) /\ \A i \in 1..16 : pushes[i] = f[i]
  <2>1. \A i \in 1..16 : pushes[i] = f[i]
      BY <1>3, InstrPush
  <2>2. pushes = [i \in 1..16 |-> pushes[i]]
      OBVIOUS
  <2> HIDE DEF pushes
  <2>3. pushes \in [1..16 -> S]
      BY <1>3, <2>1, <2>2
  <2>4. Words(S, pushes, 16)
      BY <2>3, FunctionWords
  <2> QED
      BY <2>1, <2>4
<1>8. Words(S, call, 2) /\ call[1] = f[17] /\ call[2] = f[18]
  <2>1. f[17] = Instr(17) /\ f[18] = Instr(18) /\ f[17] \in S /\ f[18] \in S
      BY <1>3
  <2>2. Pair(call, f[17], f[18])
      BY <2>1, InstrMov, InstrCall, Zenon DEF Pair
  <2> HIDE DEF call
  <2> QED
      BY <2>1, <2>2, TwoWords
<1>9. Words(S, pops, 16) /\ \A i \in 1..16 : pops[i] = f[i + 18]
  <2>1. ASSUME NEW i \in 1..16 PROVE pops[i] = f[i + 18]
    <3>1. i + 18 \in 19..34 /\ i + 18 \in 0..36 /\ (i + 18) - 18 = i
        OBVIOUS
    <3>2. Instr(i + 18) = <<"pop", PopOrder[(i + 18) - 18]>>
        BY <3>1, InstrPop
    <3> QED
        BY <1>3, <3>1, <3>2
  <2>2. pops = [i \in 1..16 |-> pops[i]]
      OBVIOUS
  <2> HIDE DEF pops
  <2>3. pops \in [1..16 -> S]
      BY <1>3, <2>1, <2>2
  <2>4. Words(S, pops, 16)
      BY <2>3, FunctionWords
  <2> QED
      BY <2>1, <2>4
<1>a. Words(S, end, 2) /\ end[1] = f[35] /\ end[2] = f[36]
  <2>1. f[35] = Instr(35) /\ f[36] = Instr(36) /\ f[35] \in S /\ f[36] \in S
      BY <1>3
  <2>2. Pair(end, f[35], f[36])
      BY <2>1, InstrPopCode, InstrIretq, Zenon DEF Pair
  <2> HIDE DEF end
  <2> QED
      BY <2>1, <2>2, TwoWords
<1> HIDE DEF pre, pushes, call, pops, end
<1> PICK l \in Nat : l = 1 - e
    BY <1>4
<1>b. /\ Words(S, s1, l + 16)
      /\ \A i \in 1..l : s1[i] = pre[i]
      /\ \A i \in 1..16 : s1[l + i] = pushes[i]
    BY <1>1, <1>6, <1>7, Joined
<1>c. /\ Words(S, s2, l + 18)
      /\ \A i \in 1..(l + 16) : s2[i] = s1[i]
      /\ \A i \in 1..2 : s2[(l + 16) + i] = call[i]
    BY <1>1, <1>b, <1>8, Joined
<1>d. /\ Words(S, s3, l + 34)
      /\ \A i \in 1..(l + 18) : s3[i] = s2[i]
      /\ \A i \in 1..16 : s3[(l + 18) + i] = pops[i]
    BY <1>1, <1>c, <1>9, Joined
<1>e. /\ \A i \in 1..(l + 34) : s[i] = s3[i]
      /\ \A i \in 1..2 : s[(l + 34) + i] = end[i]
    BY <1>1, <1>d, <1>a, Joined
<1>f. s[l + q] = f[q]
  <2>1. CASE q = 0
    <3>1. l = 1 /\ s[1] = s3[1] /\ s3[1] = s2[1] /\ s2[1] = s1[1] /\ s1[1] = pre[1]
        BY <1>4, <1>5, <1>b, <1>c, <1>d, <1>e, <2>1
    <3> QED
        BY <1>4, <1>6, <2>1, <3>1
  <2>2. CASE q \in 1..16
    <3>1. /\ s[l + q] = s3[l + q] /\ s3[l + q] = s2[l + q]
          /\ s2[l + q] = s1[l + q] /\ s1[l + q] = pushes[q]
        BY <1>b, <1>c, <1>d, <1>e, <2>2
    <3> QED
        BY <1>7, <2>2, <3>1
  <2>3. CASE q \in {17, 18}
    <3>1. (l + 16) + (q - 16) = l + q /\ q - 16 \in 1..2
        BY <2>3
    <3>2. s[l + q] = s3[l + q] /\ s3[l + q] = s2[l + q]
        BY <1>d, <1>e, <2>3
    <3>3. s2[(l + 16) + (q - 16)] = call[q - 16]
        BY <1>c, <3>1
    <3> QED
        BY <1>8, <2>3, <3>1, <3>2, <3>3
  <2>4. CASE q \in 19..34
    <3>1. (l + 18) + (q - 18) = l + q /\ q - 18 \in 1..16 /\ (q - 18) + 18 = q
        BY <2>4
    <3>2. s[l + q] = s3[l + q]
        BY <1>e, <2>4
    <3>3. s3[(l + 18) + (q - 18)] = pops[q - 18] /\ pops[q - 18] = f[q]
        BY <1>9, <1>d, <3>1
    <3> QED
        BY <3>1, <3>2, <3>3
  <2>5. CASE q \in {35, 36}
    <3>1. (l + 34) + (q - 34) = l + q /\ q - 34 \in 1..2
        BY <2>5
    <3>2. s[(l + 34) + (q - 34)] = end[q - 34]
        BY <1>e, <3>1
    <3> QED
        BY <1>a, <2>5, <3>1, <3>2
  <2> QED
      BY <1>5, <2>1, <2>2, <2>3, <2>4, <2>5
<1>g. l + q = q - e + 1
    BY <1>4, <1>5
<1> QED
    BY <1>2, <1>3, <1>5, <1>f, <1>g, Zenon DEF e

\* Which action an instruction belongs to.
LEMMA InstrKinds ==
  ASSUME NEW q \in 0..36
  PROVE  /\ Instr(q) = <<"push 0">> <=> q = 0
         /\ Instr(q)[1] = "push" <=> q \in 1..16
         /\ q \in 1..16 => Instr(q)[2] = PushOrder[q]
         /\ Instr(q) = <<"mov rsp, rdi">> <=> q = 17
         /\ Instr(q) = <<"call handler">> <=> q = 18
         /\ Instr(q)[1] = "pop" <=> q \in 19..34
         /\ q \in 19..34 => Instr(q)[2] = PopOrder[q - 18]
         /\ Instr(q) = <<"pop", "rsp">> <=> q = 24
         /\ Instr(q) = <<"pop irqErrorCode">> <=> q = 35
         /\ Instr(q) = <<"iretq">> <=> q = 36
<1> DEFINE Code(k) == Instr(k)[1]
<1>0. ASSUME NEW i, NEW w, i = <<w>> PROVE i[1] = w
    BY <1>0
<1>1. /\ Code(0) = "push 0" /\ Code(17) = "mov rsp, rdi" /\ Code(18) = "call handler"
      /\ Code(35) = "pop irqErrorCode" /\ Code(36) = "iretq"
  <2>1. Code(0) = "push 0"
      BY <1>0, Instr0, Zenon
  <2>2. Code(17) = "mov rsp, rdi"
      BY <1>0, InstrMov, Zenon
  <2>3. Code(18) = "call handler"
      BY <1>0, InstrCall, Zenon
  <2>4. Code(35) = "pop irqErrorCode"
      BY <1>0, InstrPopCode, Zenon
  <2>5. Code(36) = "iretq"
      BY <1>0, InstrIretq, Zenon
  <2> QED
      BY <2>1, <2>2, <2>3, <2>4, <2>5
<1>2. \A k \in 1..16 : Code(k) = "push"
    BY InstrPush
<1>3. \A k \in 19..34 : Code(k) = "pop"
    BY InstrPop
<1> DEFINE x == Instr(q)
           y == Code(q)
<1>4. /\ y = "push 0" <=> q = 0
      /\ y = "push" <=> q \in 1..16
      /\ y = "mov rsp, rdi" <=> q = 17
      /\ y = "call handler" <=> q = 18
      /\ y = "pop" <=> q \in 19..34
      /\ y = "pop irqErrorCode" <=> q = 35
      /\ y = "iretq" <=> q = 36
  <2> HIDE DEF Code
  <2>1. q \in 1..16 \/ q \in 19..34 \/ q \in {0, 17, 18, 35, 36}
      OBVIOUS
  <2> QED
      BY <1>1, <1>2, <1>3, <2>1
<1>5. y = x[1]
    OBVIOUS
<1> HIDE DEF Code, y, x
<1>6. ASSUME NEW w PROVE x = <<w>> => y = w
    BY <1>5
<1>7. x = <<"push 0">> <=> q = 0
  <2>1. x = <<"push 0">> => q = 0
      BY <1>4, <1>6
  <2>2. q = 0 => x = <<"push 0">>
      BY Instr0, Zenon DEF x
  <2> QED
      BY <2>1, <2>2
<1>a. x = <<"mov rsp, rdi">> <=> q = 17
  <2>1. x = <<"mov rsp, rdi">> => q = 17
      BY <1>4, <1>6
  <2>2. q = 17 => x = <<"mov rsp, rdi">>
      BY InstrMov, Zenon DEF x
  <2> QED
      BY <2>1, <2>2
<1>b. x = <<"call handler">> <=> q = 18
  <2>1. x = <<"call handler">> => q = 18
      BY <1>4, <1>6
  <2>2. q = 18 => x = <<"call handler">>
      BY InstrCall, Zenon DEF x
  <2> QED
      BY <2>1, <2>2
<1>c. x = <<"pop irqErrorCode">> <=> q = 35
  <2>1. x = <<"pop irqErrorCode">> => q = 35
      BY <1>4, <1>6
  <2>2. q = 35 => x = <<"pop irqErrorCode">>
      BY InstrPopCode, Zenon DEF x
  <2> QED
      BY <2>1, <2>2
<1>d. x = <<"iretq">> <=> q = 36
  <2>1. x = <<"iretq">> => q = 36
      BY <1>4, <1>6
  <2>2. q = 36 => x = <<"iretq">>
      BY InstrIretq, Zenon DEF x
  <2> QED
      BY <2>1, <2>2
<1>8. q \in 1..16 => Instr(q)[2] = PushOrder[q]
    BY InstrPush
<1>9. q \in 19..34 => Instr(q)[2] = PopOrder[q - 18]
    BY InstrPop
<1>e. Instr(q) = <<"pop", "rsp">> <=> q = 24
  <2>1. q \in 19..34 => (PopOrder[q - 18] = "rsp" <=> q = 24)
      BY DEF PopOrder
  <2>2. Instr(q)[1] = "pop" <=> q \in 19..34
      BY <1>4, <1>5 DEF x
  <2> QED
      BY <2>1, <2>2, InstrPop
<1> QED
    BY <1>4, <1>5, <1>7, <1>8, <1>9, <1>a, <1>b, <1>c, <1>d, <1>e DEF x

-----------------------------------------------------------------------------
(* Stacks.                                                                 *)

Same(s, t, n) == \A i \in 1..n : t[i] = s[i]

Grown(s, w, t) == t = Append(s, w)
Shrunk(s, n, t) == t = SubSeq(s, 1, n)

LEMMA Pushed ==
  ASSUME NEW S, NEW s, NEW n \in Nat, Words(S, s, n), NEW w \in S, NEW t, Grown(s, w, t)
  PROVE  Words(S, t, n + 1) /\ Same(s, t, n) /\ t[n + 1] = w
BY DEF Same, Words, Grown

LEMMA Cut ==
  ASSUME NEW S, NEW s, NEW n \in Nat, Words(S, s, n), NEW m \in 0..n, NEW t, Shrunk(s, m, t)
  PROVE  Words(S, t, m) /\ Same(s, t, m)
BY DEF Same, Words, Shrunk

LEMMA PoppedOne ==
  ASSUME NEW S, NEW s, NEW n \in Nat, Words(S, s, n), NEW t, t = Front(s)
  PROVE  Shrunk(s, n - 1, t)
BY DEF Front, Words, Shrunk

LEMMA SameBelow ==
  ASSUME NEW s, NEW t, NEW n \in Int, NEW m \in Int, m <= n, Same(s, t, n)
  PROVE  Same(s, t, m)
BY DEF Same

-----------------------------------------------------------------------------
(* Frames.                                                                 *)

LEMMA Bases ==
  ASSUME NEW c \in Interruption
  PROVE  /\ Base(c) \in Nat /\ Base(c) % 2 = 0
         /\ c.rsp <= Base(c) /\ Base(c) <= c.rsp + 1
         /\ c.vector \in 0..15 /\ c.rip \in Int /\ c.rsp \in Nat /\ c.code \in Int
         /\ c.rflags \in {0, 1} /\ c.regs \in [Registers -> Int]
BY DEF Base, Interruption

LEMMA Orders ==
  /\ \A q \in 1..16 : PushOrder[q] \in Registers \cup {"rsp"}
  /\ \A q \in 1..16 : PushOrder[q] = "rsp" <=> q = 11
  /\ \A q \in 1..16 : PopOrder[q] = PushOrder[17 - q]
BY DEF PushOrder, PopOrder, Registers

LEMMA FrameWords ==
  ASSUME NEW c
  PROVE  /\ FrameWord(c, 1) = 16 /\ FrameWord(c, 2) = c.rsp
         /\ FrameWord(c, 3) = c.rflags /\ FrameWord(c, 4) = 8
         /\ FrameWord(c, 5) = c.rip /\ FrameWord(c, 6) = c.code
         /\ \A w \in 7..22 : FrameWord(c, w) = Saved(c, PushOrder[w - 6])
BY DEF FrameWord

LEMMA FrameIsWords ==
  ASSUME NEW c \in Interruption, NEW w \in 1..22
  PROVE  FrameWord(c, w) \in Int
<1>1. CASE w \in {1, 2, 3, 4, 5, 6}
    BY <1>1, Bases, FrameWords
<1>2. CASE w \in 7..22
  <2>1. FrameWord(c, w) = Saved(c, PushOrder[w - 6]) /\ w - 6 \in 1..16
      BY <1>2, FrameWords
  <2>2. PushOrder[w - 6] \in Registers \cup {"rsp"}
      BY <2>1, Orders
  <2> QED
      BY <2>1, <2>2, Bases DEF Saved
<1> QED
    BY <1>1, <1>2

LEMMA Heights ==
  /\ \A q \in 0..36 : Height(q) \in 5..22
  /\ \A q \in 0..16 : Height(q) = 5 + q /\ Height(q + 1) = Height(q) + 1
  /\ Height(17) = 22 /\ Height(18) = 22
  /\ \A q \in 19..35 : Height(q) = 41 - q /\ Height(q + 1) = Height(q) - 1
  /\ Height(36) = 5
BY DEF Height

\* What a point of execution is to LevelInv does not change when words above
\* its stack pointer do.
LEMMA FramedSame ==
  ASSUME NEW c \in Interruption, NEW s, NEW t, NEW n \in Nat,
         Same(s, t, Base(c) + n), Framed(c, s, n)
  PROVE  Framed(c, t, n)
<1>1. \A w \in 1..n : Base(c) + w \in 1..(Base(c) + n)
    BY Bases
<1> QED
    BY <1>1 DEF Framed, Same

LEMMA LevelSame ==
  ASSUME NEW c \in Interruption, NEW p, NEW u, NEW s, NEW t,
         p.rsp \in Nat, Same(s, t, p.rsp), LevelInv(c, p, s),
         u.rip = p.rip, u.regs = p.regs, u.rsp = p.rsp, u.rflags = p.rflags
  PROVE  LevelInv(c, u, t)
<1>1. ASSUME HandlerAt(c, p, s) PROVE HandlerAt(c, u, t)
  <2>1. p.rsp = Base(c) + 23
      BY <1>1 DEF HandlerAt
  <2>2. Same(s, t, Base(c) + 22)
      BY <2>1, Bases, SameBelow
  <2>3. t[Base(c) + 23] = s[Base(c) + 23]
      BY <2>1, Bases DEF Same
  <2>4. Framed(c, t, 22)
      BY <1>1, <2>2, FramedSame DEF HandlerAt
  <2> QED
      BY <1>1, <2>3, <2>4 DEF HandlerAt, SameRegs
<1>2. ASSUME NEW q \in Places(c.vector), StubAt(c, p, s, q) PROVE StubAt(c, u, t, q)
  <2>1. Height(q) \in Nat
      BY Bases, StubAddresses, Heights
  <2>2. Framed(c, t, Height(q))
      BY <1>2, <2>1, FramedSame DEF StubAt
  <2> QED
      BY <1>2, <2>2 DEF StubAt, SameRegs
<1> QED
    BY <1>1, <1>2 DEF LevelInv

-----------------------------------------------------------------------------
(* What each instruction of a stub does to its level: c is what the         *)
(* exception interrupted, p and s are where it executes and the stack       *)
(* before the instruction, u and t those after it.                          *)

LEMMA KeptRegisters ==
  /\ \A q \in 0..17 : Kept(q) = Registers
  /\ Kept(18) = Registers \ {"rdi"}
  /\ Kept(19) = Registers \ CallerSaved
  /\ \A q \in 19..34 : Kept(q + 1) = Kept(q) \cup (Registers \cap {PopOrder[q - 18]})
  /\ Kept(36) = Registers
<1>1. \A q \in 0..17 : Kept(q) = Registers
    BY DEF Kept
<1>2. Kept(18) = Registers \ {"rdi"}
    BY DEF Kept
<1>3. Kept(19) = Registers \ CallerSaved
  <2>1. Restored(19) = {}
      BY DEF Restored
  <2> QED
      BY <2>1 DEF Kept
<1>4. ASSUME NEW q \in 19..34
      PROVE  Kept(q + 1) = Kept(q) \cup (Registers \cap {PopOrder[q - 18]})
  <2>1. {i \in 1..16 : i <= (q + 1) - 19} = {i \in 1..16 : i <= q - 19} \cup {q - 18}
      OBVIOUS
  <2>2. Restored(q + 1) = Restored(q) \cup {PopOrder[q - 18]}
      BY <2>1, Zenon DEF Restored
  <2>3. /\ Kept(q) = (Registers \ CallerSaved) \cup (Registers \cap Restored(q))
        /\ Kept(q + 1) = (Registers \ CallerSaved) \cup (Registers \cap Restored(q + 1))
      BY DEF Kept
  <2> QED
      BY <2>2, <2>3, Zenon
<1>5. Kept(36) = Registers /\ Kept(35) = Registers
  <2>1. ASSUME NEW q \in {35, 36} PROVE Kept(q) = Registers
    <3>1. {i \in 1..16 : i <= q - 19} = 1..16
        OBVIOUS
    <3>2. Registers \subseteq {PopOrder[j] : j \in 1..16}
      <4> DEFINE R == {PopOrder[j] : j \in 1..16}
      <4>1. \A j \in 1..16 : PopOrder[j] \in R
          OBVIOUS
      <4> HIDE DEF R
      <4> QED
          BY <4>1 DEF PopOrder, Registers
    <3>3. Restored(q) = {PopOrder[j] : j \in 1..16}
        BY <3>1, Zenon DEF Restored
    <3> QED
        BY <3>2, <3>3 DEF Kept
  <2> QED
      BY <2>1
<1> QED
    BY <1>1, <1>2, <1>3, <1>4, <1>5

\* "push 0" and the pushes of the registers.
LEMMA PushLevel ==
  ASSUME NEW c \in Interruption, NEW q \in Places(c.vector), q <= 16,
         NEW p, NEW u, NEW s, NEW t, StubAt(c, p, s, q),
         u.rip = p.rip + 1, u.rsp = p.rsp + 1, u.regs = p.regs,
         Same(s, t, p.rsp), t[p.rsp + 1] = FrameWord(c, 6 + q)
  PROVE  q + 1 \in Places(c.vector) /\ StubAt(c, u, t, q + 1)
<1>1. q \in 0..16 /\ Extra(c.vector) \in {0, 1} /\ q >= Extra(c.vector)
    BY Bases, StubAddresses DEF Places, Extra
<1>2. q + 1 \in Places(c.vector)
    BY <1>1 DEF Places
<1>3. Height(q) = 5 + q /\ Height(q + 1) = 6 + q
    BY <1>1, Heights
<1>4. p.rsp = Base(c) + (5 + q) /\ p.rsp + 1 = Base(c) + (6 + q)
    BY <1>1, <1>3, Bases DEF StubAt
<1>5. Framed(c, t, 5 + q)
  <2>1. Same(s, t, Base(c) + (5 + q)) /\ Framed(c, s, 5 + q)
      BY <1>3, <1>4 DEF StubAt
  <2> QED
      BY <1>1, <2>1, FramedSame
<1>6. Framed(c, t, 6 + q)
  <2>1. t[Base(c) + (6 + q)] = FrameWord(c, 6 + q)
      BY <1>4
  <2>2. \A w \in 1..(6 + q) : w \in 1..(5 + q) \/ w = 6 + q
      BY <1>1
  <2> QED
      BY <1>5, <2>1, <2>2 DEF Framed
<1>7. u.rip = At(c.vector, q + 1)
    BY <1>1, Bases DEF StubAt, At, Stubs
<1>8. u.rsp = Base(c) + Height(q + 1)
    BY <1>3, <1>4
<1>9. SameRegs(c, u, Kept(q + 1))
  <2>1. Kept(q) = Kept(q + 1)
      BY <1>1, KeptRegisters
  <2> QED
      BY <2>1 DEF StubAt, SameRegs
<1>a. q + 1 # 18 /\ ~(q + 1 >= 19)
    BY <1>1
<1> QED
    BY <1>2, <1>3, <1>6, <1>7, <1>8, <1>9, <1>a DEF StubAt

\* "mov %rsp, %rdi".
LEMMA MovLevel ==
  ASSUME NEW c \in Interruption, 17 \in Places(c.vector),
         NEW p, NEW u, NEW s, StubAt(c, p, s, 17),
         u.rip = p.rip + 1, u.rsp = p.rsp, u.regs = [p.regs EXCEPT !["rdi"] = p.rsp],
         p.regs \in [Registers -> Int]
  PROVE  18 \in Places(c.vector) /\ StubAt(c, u, s, 18)
<1>1. 18 \in Places(c.vector)
    BY DEF Places, Extra
<1>2. u.rip = At(c.vector, 18)
    BY Bases DEF StubAt, At, Stubs, Extra
<1>3. p.rsp = Base(c) + 22 /\ Framed(c, s, 22)
    BY Heights DEF StubAt
<1>4. SameRegs(c, p, Registers)
    BY KeptRegisters DEF StubAt
<1>5. SameRegs(c, u, Registers \ {"rdi"}) /\ u.regs["rdi"] = p.rsp
    BY <1>4 DEF SameRegs, Registers
<1>6. Height(18) = 22 /\ Kept(18) = Registers \ {"rdi"}
    BY Heights, KeptRegisters
<1>7. /\ u.rsp = Base(c) + Height(18) /\ Framed(c, s, Height(18))
      /\ SameRegs(c, u, Kept(18)) /\ u.regs["rdi"] = Base(c) + 22
  <2>1. u.rsp = Base(c) + 22
      BY <1>3
  <2> QED
      BY <1>3, <1>5, <1>6, <2>1, Zenon
<1>8. StubAt(c, u, s, 18)
  <2>1. ~(18 >= 19)
      OBVIOUS
  <2> QED
      BY <1>2, <1>7, <2>1, Zenon DEF StubAt
<1> QED
    BY <1>1, <1>8

\* "call".
LEMMA CallLevel ==
  ASSUME NEW c \in Interruption, 18 \in Places(c.vector),
         NEW p, NEW u, NEW s, NEW t, StubAt(c, p, s, 18),
         u.rip = HandlerEntry(c.vector), u.rsp = p.rsp + 1, u.regs = p.regs,
         Same(s, t, p.rsp), t[p.rsp + 1] = p.rip + 1
  PROVE  HandlerAt(c, u, t)
<1>1. p.rsp = Base(c) + 22 /\ Framed(c, s, 22) /\ p.regs["rdi"] = Base(c) + 22
    BY Heights DEF StubAt
<1>2. p.rsp + 1 = Base(c) + 23
    BY <1>1, Bases
<1>3. Framed(c, t, 22)
    BY <1>1, FramedSame
<1>4. p.rip + 1 = At(c.vector, 19)
    BY Bases DEF StubAt, At, Stubs, Extra
<1>5. SameRegs(c, u, Kept(18))
    BY DEF StubAt, SameRegs
<1> QED
    BY <1>1, <1>2, <1>3, <1>4, <1>5 DEF HandlerAt

\* The handler of an exception that does not panic.
LEMMA LogLevel ==
  ASSUME NEW c \in Interruption, NEW p, NEW u, NEW s, HandlerAt(c, p, s),
         p.rip = HandlerEntry(c.vector), c.vector \notin Panics,
         u.rip = HandlerExit(c.vector), u.rsp = p.rsp,
         \A r \in Registers \ CallerSaved : u.regs[r] = p.regs[r]
  PROVE  HandlerAt(c, u, s)
<1>1. p.rip # HandlerExit(c.vector)
    BY Bases DEF HandlerEntry, HandlerExit, Stubs
<1>2. SameRegs(c, p, Registers \ {"rdi"})
    BY <1>1, KeptRegisters DEF HandlerAt
<1>3. SameRegs(c, u, Registers \ CallerSaved)
    BY <1>2 DEF SameRegs, CallerSaved
<1> QED
    BY <1>3, KeptRegisters DEF HandlerAt

\* Its return to the stub.
LEMMA ReturnLevel ==
  ASSUME NEW c \in Interruption, NEW p, NEW u, NEW s, NEW t, HandlerAt(c, p, s),
         p.rip = HandlerExit(c.vector),
         u.rip = s[p.rsp], u.rsp = p.rsp - 1, u.regs = p.regs,
         Same(s, t, p.rsp - 1)
  PROVE  19 \in Places(c.vector) /\ StubAt(c, u, t, 19)
<1>1. 19 \in Places(c.vector)
    BY DEF Places, Extra
<1>2. p.rip # HandlerEntry(c.vector)
    BY Bases DEF HandlerEntry, HandlerExit, Stubs
<1>3. c.vector \notin Panics /\ SameRegs(c, p, Kept(19)) /\ Framed(c, s, 22)
      /\ p.rsp = Base(c) + 23 /\ s[p.rsp] = At(c.vector, 19)
    BY <1>2 DEF HandlerAt
<1>4. p.rsp - 1 = Base(c) + 22
    BY <1>3, Bases
<1>5. Framed(c, t, 22)
    BY <1>3, <1>4, FramedSame
<1>6. Height(19) = 22
    BY Heights
<1> QED
    BY <1>1, <1>3, <1>4, <1>5, <1>6 DEF StubAt, SameRegs

\* The pops of the registers: the word popped is the one pushed for them.
LEMMA PoppedWord ==
  ASSUME NEW c \in Interruption, NEW q \in 19..34, NEW p, NEW s, StubAt(c, p, s, q)
  PROVE  /\ p.rsp = Base(c) + (41 - q) /\ 41 - q \in 7..22
         /\ s[p.rsp] = Saved(c, PopOrder[q - 18])
<1>1. Height(q) = 41 - q
    BY Heights
<1>2. p.rsp = Base(c) + (41 - q) /\ 41 - q \in 7..22 /\ 41 - q \in 1..(41 - q)
    BY <1>1 DEF StubAt
<1>3. s[p.rsp] = FrameWord(c, 41 - q)
    BY <1>1, <1>2 DEF StubAt, Framed
<1>4. FrameWord(c, 41 - q) = Saved(c, PushOrder[(41 - q) - 6])
    BY <1>2, FrameWords
<1>5. q - 18 \in 1..16 /\ 17 - (q - 18) = (41 - q) - 6
    OBVIOUS
<1>6. PushOrder[(41 - q) - 6] = PopOrder[q - 18]
    BY <1>5, Orders
<1> QED
    BY <1>2, <1>3, <1>4, <1>6

LEMMA PopLevel ==
  ASSUME NEW c \in Interruption, NEW q \in 19..34, NEW r, r = PopOrder[q - 18],
         NEW p, NEW u, NEW s, NEW t, StubAt(c, p, s, q),
         p.regs \in [Registers -> Int], u.rip = p.rip + 1,
         \/ /\ r # "rsp" /\ u.rsp = p.rsp - 1
            /\ u.regs = [p.regs EXCEPT ![r] = s[p.rsp]]
         \/ r = "rsp" /\ u.rsp = s[p.rsp] /\ u.regs = p.regs,
         Same(s, t, p.rsp - 1)
  PROVE  q + 1 \in Places(c.vector) /\ StubAt(c, u, t, q + 1)
<1>1. q + 1 \in Places(c.vector)
    BY DEF Places, Extra
<1>2. p.rsp = Base(c) + (41 - q) /\ 41 - q \in 7..22 /\ s[p.rsp] = Saved(c, r)
    BY PoppedWord
<1>3. Height(q) = 41 - q /\ Height(q + 1) = 40 - q
    BY Heights
<1>4. u.rsp = Base(c) + Height(q + 1)
  <2>1. CASE r = "rsp"
    <3>1. q - 18 \in 1..16 /\ 17 - (q - 18) \in 1..16
        OBVIOUS
    <3>2. 17 - (q - 18) = 11
        BY <2>1, <3>1, Orders
    <3> QED
        BY <1>2, <1>3, <2>1, <3>2 DEF Saved
  <2>2. CASE r # "rsp"
      BY <1>2, <1>3, <2>2, Bases
  <2> QED
      BY <2>1, <2>2
<1>5. Framed(c, t, 40 - q)
  <2>1. Framed(c, s, 40 - q)
      BY <1>3 DEF StubAt, Framed
  <2>2. p.rsp - 1 = Base(c) + (40 - q)
      BY <1>2, Bases
  <2> QED
      BY <1>2, <2>1, <2>2, FramedSame
<1>6. SameRegs(c, u, Kept(q + 1))
  <2>1. Kept(q + 1) = Kept(q) \cup (Registers \cap {r})
      BY KeptRegisters
  <2>2. SameRegs(c, p, Kept(q)) /\ Kept(q) \subseteq Registers
      BY DEF StubAt, Kept
  <2>3. CASE r = "rsp"
    <3>1. r \notin Registers
        BY <2>3 DEF Registers
    <3>2. u.regs = p.regs
        BY <2>3
    <3> QED
        BY <2>1, <2>2, <3>1, <3>2 DEF SameRegs
  <2>4. CASE r # "rsp"
    <3>1. u.regs = [p.regs EXCEPT ![r] = s[p.rsp]] /\ s[p.rsp] = c.regs[r]
        BY <1>2, <2>4 DEF Saved
    <3> QED
        BY <2>1, <2>2, <3>1 DEF SameRegs
  <2> QED
      BY <2>3, <2>4
<1>7. u.rip = At(c.vector, q + 1)
    BY Bases DEF StubAt, At, Stubs, Extra
<1>8. q + 1 # 18 /\ c.vector \notin Panics
    BY DEF StubAt
<1> QED
    BY <1>1, <1>3, <1>4, <1>5, <1>6, <1>7, <1>8 DEF StubAt

\* "pop irqErrorCode".
LEMMA PopCodeLevel ==
  ASSUME NEW c \in Interruption, NEW p, NEW u, NEW s, NEW t, StubAt(c, p, s, 35),
         u.rip = p.rip + 1, u.rsp = p.rsp - 1, u.regs = p.regs, Same(s, t, p.rsp - 1)
  PROVE  36 \in Places(c.vector) /\ StubAt(c, u, t, 36)
<1>1. 36 \in Places(c.vector)
    BY DEF Places, Extra
<1>2. Height(35) = 6 /\ Height(36) = 5
    BY Heights
<1>3. p.rsp = Base(c) + 6 /\ p.rsp - 1 = Base(c) + 5
    BY <1>2, Bases DEF StubAt
<1>4. Framed(c, s, 5)
    BY <1>2 DEF StubAt, Framed
<1>5. Framed(c, t, 5)
    BY <1>3, <1>4, FramedSame
<1>6. Kept(35) = Kept(36)
  <2>1. {i \in 1..16 : i <= 35 - 19} = {i \in 1..16 : i <= 36 - 19}
      OBVIOUS
  <2>2. Restored(35) = Restored(36)
      BY <2>1, Zenon DEF Restored
  <2> QED
      BY <2>2 DEF Kept
<1>7. SameRegs(c, u, Kept(36))
    BY <1>6 DEF StubAt, SameRegs
<1>8. u.rip = At(c.vector, 36) /\ c.vector \notin Panics
    BY Bases DEF StubAt, At, Stubs, Extra
<1> QED
    BY <1>1, <1>2, <1>3, <1>5, <1>7, <1>8 DEF StubAt

\* "iretq" finds what the processor pushed, and the registers as they were.
LEMMA IretLevel ==
  ASSUME NEW c \in Interruption, NEW p, NEW s, StubAt(c, p, s, 36),
         p.regs \in [Registers -> Int]
  PROVE  /\ s[p.rsp] = c.rip /\ s[p.rsp - 2] = c.rflags /\ s[p.rsp - 3] = c.rsp
         /\ p.regs = c.regs /\ c.vector \notin Panics
         /\ p.rsp = Base(c) + 5
<1>1. p.rsp = Base(c) + 5 /\ Framed(c, s, 5)
    BY Heights DEF StubAt
<1>2. p.rsp - 2 = Base(c) + 3 /\ p.rsp - 3 = Base(c) + 2
    BY <1>1, Bases
<1>3. s[Base(c) + 5] = c.rip /\ s[Base(c) + 3] = c.rflags /\ s[Base(c) + 2] = c.rsp
    BY <1>1, FrameWords DEF Framed
<1>4. SameRegs(c, p, Registers)
    BY KeptRegisters DEF StubAt
<1>5. p.regs = c.regs
    BY <1>4, Bases DEF SameRegs
<1> QED
    BY <1>1, <1>2, <1>3, <1>5 DEF StubAt

-----------------------------------------------------------------------------
(* The innermost exception.                                                *)

Top == interrupted[Depth]

LEMMA RunningFields ==
  /\ Running.rip = rip /\ Running.regs = regs /\ Running.rsp = rsp
  /\ Running.rflags = Word(intFlag)
  /\ Running'.rip = rip' /\ Running'.regs = regs' /\ Running'.rsp = rsp'
  /\ Running'.rflags = Word(intFlag')
BY DEF Running

LEMMA TopFacts ==
  ASSUME NestingInv, Depth > 0
  PROVE  /\ Depth \in Nat /\ rsp \in Nat /\ interrupted # <<>>
         /\ Top \in Interruption /\ Last(interrupted) = Top
         /\ LevelInv(Top, Running, stack)
         /\ ~intFlag /\ Base(Top) <= rsp
         /\ \A i \in 1..Depth : interrupted[i] \in Interruption /\ interrupted[i].rsp <= Top.rsp
<1>1. interrupted \in Seq(Interruption) /\ stack \in Seq(Int)
    BY DEF NestingInv, TypeInv
<1>2. Depth \in Nat /\ rsp \in Nat /\ interrupted # <<>> /\ Last(interrupted) = Top
      /\ \A i \in 1..Depth : interrupted[i] \in Interruption
    BY <1>1 DEF Depth, rsp, Top, Last
<1>3. Depth \in 1..Depth
    BY <1>2
<1>4. LevelInv(Top, Running, stack)
    BY DEF NestingInv, StackInv, Top
<1>5. Word(intFlag) = 0 /\ Base(Top) <= rsp
    BY <1>4, RunningFields DEF LevelInv
<1>6. ~intFlag
    BY <1>5 DEF Word
<1>7. \A i \in 1..Depth : interrupted[i].rsp <= Top.rsp
    BY <1>3 DEF NestingInv, StackInv, Top
<1> QED
    BY <1>2, <1>3, <1>4, <1>5, <1>6, <1>7 DEF Top

\* Whatever the innermost exception does on top of its own frame, the
\* others find their frames as they left them.
LEMMA TopStep ==
  ASSUME NestingInv, Depth > 0, UNCHANGED <<idtTable, interrupted>>,
         rip' \in Int, regs' \in [Registers -> Int], stack' \in Seq(Int),
         Same(stack, stack', Base(Top)),
         LevelInv(Top, Running', stack')
  PROVE  NestingInv'
<1>1. TypeInv'
    BY DEF NestingInv, TypeInv, setupInterrupts
<1>2. Depth' = Depth /\ interrupted' = interrupted
    BY DEF Depth
<1>3. ASSUME NEW i \in 1..(Depth - 1)
      PROVE  LevelInv(interrupted[i], interrupted[i + 1], stack')
  <2>1. i + 1 \in 1..Depth /\ i \in 1..Depth
      BY TopFacts
  <2>2. LevelInv(interrupted[i], interrupted[i + 1], stack)
      BY DEF NestingInv, StackInv
  <2>3. interrupted[i + 1].rsp <= Base(Top) /\ interrupted[i + 1].rsp \in Nat
    <3>1. /\ interrupted[i + 1] \in Interruption /\ Top \in Interruption
          /\ interrupted[i + 1].rsp <= Top.rsp
        BY <2>1, TopFacts
    <3>2. /\ interrupted[i + 1].rsp \in Nat /\ Top.rsp \in Nat /\ Base(Top) \in Nat
          /\ Top.rsp <= Base(Top)
        BY <3>1, Bases
    <3> QED
        BY <3>1, <3>2
  <2>4. Same(stack, stack', interrupted[i + 1].rsp)
      BY <2>3, TopFacts, Bases, SameBelow
  <2> QED
      BY <2>1, <2>2, <2>3, <2>4, TopFacts, LevelSame
<1>4. \A i, j \in 1..Depth : i <= j => interrupted[i].rsp <= interrupted[j].rsp
    BY DEF NestingInv, StackInv
<1>5. interrupted[1].rip \in Main \cup {Halt}
    BY DEF NestingInv, StackInv
<1>6. StackInv'
    BY <1>2, <1>3, <1>4, <1>5 DEF StackInv, Top
<1> QED
    BY <1>1, <1>6 DEF NestingInv

-----------------------------------------------------------------------------
(* Where the processor is.                                                 *)

Innermost(q) ==
  /\ Depth > 0
  /\ q \in Places(Top.vector) /\ StubAt(Top, Running, stack, q)

LEMMA NoStubInMain ==
  ASSUME NestingInv, rip \in Main \cup {Halt}
  PROVE  ~InStub /\ ~InHandler
BY DEF Main, Halt, InStub, InHandler

LEMMA HandlerAddresses ==
  ASSUME NEW v \in 0..15
  PROVE  /\ VectorAt(HandlerEntry(v)) = v /\ Offset(HandlerEntry(v)) = 48
         /\ VectorAt(HandlerExit(v)) = v /\ Offset(HandlerExit(v)) = 49
         /\ HandlerEntry(v) >= 64 /\ HandlerEntry(v) < Halt /\ HandlerEntry(v) \in Int
         /\ HandlerExit(v) >= 64 /\ HandlerExit(v) < Halt /\ HandlerExit(v) \in Int
BY Addresses DEF HandlerEntry, HandlerExit, Stubs, Halt

\* In a stub, the instruction is the one of the place the innermost exception
\* is at.
LEMMA WhereInStub ==
  ASSUME NestingInv, InStub
  PROVE  \E q \in 0..36 :
           /\ Innermost(q) /\ VectorAt(rip) = Top.vector /\ Instruction = Instr(q)
           /\ rip = At(Top.vector, q)
<1>1. Depth > 0
    BY NoStubInMain DEF NestingInv, TypeInv, StackInv, Depth
<1>2. Top \in Interruption /\ Top.vector \in 0..15 /\ LevelInv(Top, Running, stack)
    BY <1>1, TopFacts, Bases
<1>3. rip # Halt
    BY DEF InStub, Halt
<1>4. ~HandlerAt(Top, Running, stack)
  <2>1. Offset(rip) < 48
      BY DEF InStub
  <2> QED
      BY <1>2, <2>1, HandlerAddresses, RunningFields DEF HandlerAt
<1>5. PICK q \in Places(Top.vector) : StubAt(Top, Running, stack, q)
    BY <1>2, <1>3, <1>4, RunningFields DEF LevelInv
<1>6. rip = At(Top.vector, q)
    BY <1>5, RunningFields DEF StubAt
<1>7. /\ q \in 0..36 /\ VectorAt(rip) = Top.vector
      /\ Offset(rip) = q - Extra(Top.vector)
    BY <1>2, <1>6, StubAddresses
<1>8. Instruction = Instr(q)
    BY <1>2, <1>7, StubInstructions, Zenon DEF Instruction
<1> QED
    BY <1>1, <1>5, <1>6, <1>7, <1>8 DEF Innermost

LEMMA WhereInHandler ==
  ASSUME NestingInv, InHandler
  PROVE  /\ Depth > 0 /\ HandlerAt(Top, Running, stack) /\ VectorAt(rip) = Top.vector
         /\ rip \in {HandlerEntry(Top.vector), HandlerExit(Top.vector)}
<1>1. Depth > 0
    BY NoStubInMain DEF NestingInv, TypeInv, StackInv, Depth
<1>2. Top \in Interruption /\ Top.vector \in 0..15 /\ LevelInv(Top, Running, stack)
    BY <1>1, TopFacts, Bases
<1>3. rip # Halt
    BY DEF InHandler, Halt
<1>4. ASSUME NEW q \in Places(Top.vector) PROVE ~StubAt(Top, Running, stack, q)
  <2>1. Offset(rip) >= 48
      BY DEF InHandler
  <2>2. Offset(At(Top.vector, q)) \in 0..36
      BY <1>2, StubAddresses
  <2> QED
      BY <2>1, <2>2, RunningFields DEF StubAt
<1>5. HandlerAt(Top, Running, stack)
    BY <1>2, <1>3, <1>4, RunningFields DEF LevelInv
<1>6. rip \in {HandlerEntry(Top.vector), HandlerExit(Top.vector)}
    BY <1>5, RunningFields DEF HandlerAt
<1> QED
    BY <1>1, <1>2, <1>5, <1>6, HandlerAddresses

\* What is left to show of a step of a stub or a handler.
LEMMA LevelStep ==
  ASSUME NestingInv, Depth > 0, UNCHANGED <<idtTable, interrupted>>,
         rip' \in Int, regs' \in [Registers -> Int], stack' \in Seq(Int),
         Same(stack, stack', Base(Top)), intFlag' = FALSE, Base(Top) <= rsp',
         \/ rip' = Halt
         \/ HandlerAt(Top, Running', stack')
         \/ \E q \in Places(Top.vector) : StubAt(Top, Running', stack', q)
  PROVE  NestingInv'
<1>1. Running'.rflags = 0
    BY RunningFields DEF Word
<1>2. LevelInv(Top, Running', stack')
    BY <1>1, TopFacts, RunningFields DEF LevelInv
<1> QED
    BY <1>2, TopStep

LEMMA StubStep ==
  ASSUME NestingInv, Depth > 0, UNCHANGED <<idtTable, interrupted, intFlag>>,
         rip' \in Int, regs' \in [Registers -> Int], stack' \in Seq(Int),
         Same(stack, stack', Base(Top)),
         NEW q \in Places(Top.vector), StubAt(Top, Running', stack', q)
  PROVE  NestingInv'
<1>1. ~intFlag /\ Top \in Interruption /\ Base(Top) \in Nat /\ Height(q) \in 5..22
    BY TopFacts, Bases, StubAddresses, Heights
<1>2. rsp' = Base(Top) + Height(q)
    BY RunningFields DEF StubAt
<1>3. Base(Top) <= rsp' /\ intFlag' = FALSE
    BY <1>1, <1>2
<1> QED
    BY <1>3, LevelStep

LEMMA HandlerStep ==
  ASSUME NestingInv, Depth > 0, UNCHANGED <<idtTable, interrupted, intFlag>>,
         rip' \in Int, regs' \in [Registers -> Int], stack' \in Seq(Int),
         Same(stack, stack', Base(Top)), HandlerAt(Top, Running', stack')
  PROVE  NestingInv'
<1>1. ~intFlag /\ Top \in Interruption /\ Base(Top) \in Nat
    BY TopFacts, Bases
<1>2. rsp' = Base(Top) + 23
    BY RunningFields DEF HandlerAt
<1>3. Base(Top) <= rsp' /\ intFlag' = FALSE
    BY <1>1, <1>2
<1> QED
    BY <1>3, LevelStep

\* The stack as the innermost exception has it.
LEMMA StackFacts ==
  ASSUME NestingInv
  PROVE  /\ Words(Int, stack, rsp) /\ rsp \in Nat
         /\ \A i \in 1..rsp : stack[i] \in Int
         /\ rip \in Int /\ regs \in [Registers -> Int]
         /\ \A n : Words(Int, stack', n) => stack' \in Seq(Int) /\ rsp' = n
BY DEF NestingInv, TypeInv, rsp, Words

-----------------------------------------------------------------------------
(* The instructions of a stub.                                             *)

LEMMA PushKeeps ==
  ASSUME NestingInv, UNCHANGED <<idtTable, interrupted, intFlag, regs>>, Step,
         NEW q \in 0..16, Innermost(q), Push(FrameWord(Top, 6 + q))
  PROVE  NestingInv'
<1>1. /\ Depth > 0 /\ Top \in Interruption /\ q \in Places(Top.vector)
      /\ StubAt(Top, Running, stack, q)
    BY TopFacts DEF Innermost
<1>2. Base(Top) \in Nat /\ Base(Top) <= rsp
    BY <1>1, TopFacts, Bases
<1>3. FrameWord(Top, 6 + q) \in Int
    BY <1>1, FrameIsWords
<1>4. /\ stack' \in Seq(Int) /\ rsp' = rsp + 1
      /\ Same(stack, stack', rsp) /\ stack'[rsp + 1] = FrameWord(Top, 6 + q)
  <2>1. Grown(stack, FrameWord(Top, 6 + q), stack')
      BY DEF Push, Grown
  <2>2. /\ Words(Int, stack', rsp + 1)
        /\ Same(stack, stack', rsp) /\ stack'[rsp + 1] = FrameWord(Top, 6 + q)
      BY <1>3, <2>1, StackFacts, Pushed
  <2> QED
      BY <2>2, StackFacts
<1>5. Same(stack, stack', Base(Top))
    BY <1>2, <1>4, StackFacts, SameBelow
<1>6. q + 1 \in Places(Top.vector) /\ StubAt(Top, Running', stack', q + 1)
  <2>1. Running'.rip = Running.rip + 1 /\ Running'.regs = Running.regs
      BY RunningFields DEF Step
  <2>2. Running'.rsp = Running.rsp + 1 /\ Running.rsp = rsp
      BY <1>4, RunningFields
  <2> QED
      BY <1>1, <1>4, <2>1, <2>2, PushLevel
<1>7. rip' \in Int /\ regs' \in [Registers -> Int]
    BY StackFacts DEF Step
<1> QED
    BY <1>1, <1>4, <1>5, <1>6, <1>7, StubStep

LEMMA PushZeroKeeps == ASSUME NestingInv, PushZero PROVE NestingInv'
<1>1. PICK q \in 0..36 : Innermost(q) /\ Instruction = Instr(q)
    BY WhereInStub DEF PushZero
<1>2. Instruction = <<"push 0">>
    BY DEF PushZero
<1>3. q = 0
  <2>1. Instr(q) = <<"push 0">> <=> q = 0
      BY InstrKinds, Zenon
  <2> QED
      BY <1>1, <1>2, <2>1, Zenon
<1>4. Top.code = 0
  <2>1. Top \in Interruption /\ LevelInv(Top, Running, stack) /\ 0 \in Places(Top.vector)
      BY <1>1, <1>3, TopFacts DEF Innermost
  <2>2. Top.vector \notin StubsWithoutCode
      BY <2>1 DEF Places, Extra
  <2> QED
      BY <2>1, <2>2 DEF LevelInv
<1>5. FrameWord(Top, 6 + 0) = 0
    BY <1>4, FrameWords
<1>6. UNCHANGED <<idtTable, interrupted, intFlag, regs>> /\ Step /\ Push(0)
    BY DEF PushZero
<1> QED
    BY <1>1, <1>3, <1>5, <1>6, PushKeeps

LEMMA PushRegisterKeeps == ASSUME NestingInv, PushRegister PROVE NestingInv'
<1>1. PICK q \in 0..36 : Innermost(q) /\ Instruction = Instr(q)
    BY WhereInStub DEF PushRegister
<1>2. Instruction[1] = "push"
    BY DEF PushRegister
<1>3. q \in 1..16 /\ Instruction[2] = PushOrder[q]
    BY <1>1, <1>2, InstrKinds, Zenon
<1> DEFINE r == PushOrder[q]
<1>4. RegisterWord(r) = FrameWord(Top, 6 + q)
  <2>1. FrameWord(Top, 6 + q) = Saved(Top, r)
    <3>1. 6 + q \in 7..22 /\ (6 + q) - 6 = q
        BY <1>3
    <3> QED
        BY <3>1, FrameWords
  <2>2. StubAt(Top, Running, stack, q) /\ Height(q) = 5 + q /\ Kept(q) = Registers
      BY <1>1, <1>3, Heights, KeptRegisters DEF Innermost
  <2>3. /\ rsp = Base(Top) + (5 + q)
        /\ \A x \in Registers : regs[x] = Top.regs[x]
      BY <2>2, RunningFields DEF StubAt, SameRegs
  <2>4. r \in Registers \cup {"rsp"} /\ (r = "rsp" => q = 11)
      BY <1>3, Orders
  <2>5. CASE r = "rsp"
      BY <2>1, <2>3, <2>4, <2>5 DEF RegisterWord, Saved
  <2>6. CASE r # "rsp"
      BY <2>1, <2>3, <2>4, <2>6 DEF RegisterWord, Saved
  <2> QED
      BY <2>5, <2>6
<1>5. UNCHANGED <<idtTable, interrupted, intFlag, regs>> /\ Step
      /\ Push(RegisterWord(Instruction[2]))
    BY DEF PushRegister
<1>6. Push(FrameWord(Top, 6 + q))
    BY <1>3, <1>4, <1>5, Zenon
<1>7. q \in 0..16
    BY <1>3
<1> QED
    BY <1>1, <1>5, <1>6, <1>7, PushKeeps

LEMMA PassFrameKeeps == ASSUME NestingInv, PassFrame PROVE NestingInv'
<1>1. PICK q \in 0..36 : Innermost(q) /\ Instruction = Instr(q)
    BY WhereInStub DEF PassFrame
<1>2. Instruction = <<"mov rsp, rdi">>
    BY DEF PassFrame
<1>3. q = 17
  <2>1. Instr(q) = <<"mov rsp, rdi">> <=> q = 17
      BY InstrKinds, Zenon
  <2> QED
      BY <1>1, <1>2, <2>1, Zenon
<1>4. /\ Depth > 0 /\ Top \in Interruption /\ 17 \in Places(Top.vector)
      /\ StubAt(Top, Running, stack, 17) /\ Base(Top) <= rsp /\ Base(Top) \in Nat
    BY <1>1, <1>3, TopFacts, Bases DEF Innermost
<1>5. /\ UNCHANGED <<idtTable, stack, interrupted, intFlag>>
      /\ rip' = rip + 1 /\ regs' = [regs EXCEPT !["rdi"] = rsp] /\ rsp' = rsp
    BY DEF PassFrame, Step, rsp
<1>6. 18 \in Places(Top.vector) /\ StubAt(Top, Running', stack, 18)
  <2>1. Running'.regs = [Running.regs EXCEPT !["rdi"] = Running.rsp]
      BY <1>5, RunningFields
  <2>2. Running'.rip = Running.rip + 1 /\ Running'.rsp = Running.rsp
      BY <1>5, RunningFields
  <2>3. Running.regs \in [Registers -> Int]
      BY StackFacts, RunningFields
  <2> QED
      BY <1>4, <2>1, <2>2, <2>3, MovLevel
<1>7. rip' \in Int /\ regs' \in [Registers -> Int] /\ stack' \in Seq(Int)
  <2>1. rip \in Int /\ rsp \in Int /\ regs \in [Registers -> Int]
      BY StackFacts
  <2>2. stack' \in Seq(Int)
    <3>1. stack \in Seq(Int) /\ stack' = stack
        BY <1>5 DEF NestingInv, TypeInv
    <3> QED
        BY <3>1
  <2>3. rip' \in Int
      BY <1>5, <2>1
  <2>4. regs' \in [Registers -> Int]
      BY <1>5, <2>1
  <2> QED
      BY <2>2, <2>3, <2>4
<1>8. Same(stack, stack', Base(Top))
    BY <1>5 DEF Same
<1> QED
    BY <1>4, <1>5, <1>6, <1>7, <1>8, StubStep

LEMMA CallHandlerKeeps == ASSUME NestingInv, CallHandler PROVE NestingInv'
<1>1. PICK q \in 0..36 : /\ Innermost(q) /\ VectorAt(rip) = Top.vector
                         /\ Instruction = Instr(q)
    BY WhereInStub DEF CallHandler
<1>2. Instruction = <<"call handler">>
    BY DEF CallHandler
<1>3. q = 18
  <2>1. Instr(q) = <<"call handler">> <=> q = 18
      BY InstrKinds, Zenon
  <2> QED
      BY <1>1, <1>2, <2>1, Zenon
<1>4. /\ Depth > 0 /\ Top \in Interruption /\ 18 \in Places(Top.vector)
      /\ Top.vector \in 0..15
      /\ StubAt(Top, Running, stack, 18) /\ Base(Top) <= rsp /\ Base(Top) \in Nat
    BY <1>1, <1>3, TopFacts, Bases DEF Innermost
<1>5. /\ UNCHANGED <<idtTable, regs, interrupted, intFlag>>
      /\ rip' = HandlerEntry(Top.vector) /\ Push(rip + 1)
    BY <1>1 DEF CallHandler
<1>6. /\ stack' \in Seq(Int) /\ rsp' = rsp + 1
      /\ Same(stack, stack', rsp) /\ stack'[rsp + 1] = rip + 1
  <2>1. Grown(stack, rip + 1, stack') /\ rip + 1 \in Int
      BY <1>5, StackFacts DEF Push, Grown
  <2>2. /\ Words(Int, stack', rsp + 1)
        /\ Same(stack, stack', rsp) /\ stack'[rsp + 1] = rip + 1
      BY <2>1, StackFacts, Pushed
  <2> QED
      BY <2>2, StackFacts
<1>7. HandlerAt(Top, Running', stack')
  <2>1. /\ Running'.rip = HandlerEntry(Top.vector) /\ Running'.regs = Running.regs
        /\ Running'.rsp = Running.rsp + 1 /\ Running.rsp = rsp /\ Running.rip = rip
      BY <1>5, <1>6, RunningFields
  <2> QED
      BY <1>4, <1>6, <2>1, CallLevel
<1>8. Same(stack, stack', Base(Top))
    BY <1>4, <1>6, StackFacts, SameBelow
<1>9. rip' \in Int /\ regs' \in [Registers -> Int]
    BY <1>4, <1>5, HandlerAddresses, StackFacts
<1> QED
    BY <1>4, <1>5, <1>6, <1>7, <1>8, <1>9, HandlerStep

\* A pop cuts the innermost exception's stack, never below its frame.
LEMMA CutStack ==
  ASSUME NestingInv, Depth > 0, NEW n \in Nat, Base(Top) <= n, n <= rsp,
         Shrunk(stack, n, stack')
  PROVE  /\ stack' \in Seq(Int) /\ rsp' = n
         /\ Same(stack, stack', n) /\ Same(stack, stack', Base(Top))
<1>1. Base(Top) \in Nat
    BY TopFacts, Bases
<1>2. n \in 0..rsp
    BY StackFacts
<1>3. Words(Int, stack', n) /\ Same(stack, stack', n)
    BY <1>2, StackFacts, Cut
<1> QED
    BY <1>1, <1>3, StackFacts, SameBelow

LEMMA PopRegisterKeeps == ASSUME NestingInv, PopRegister PROVE NestingInv'
<1>1. PICK q \in 0..36 : Innermost(q) /\ Instruction = Instr(q)
    BY WhereInStub DEF PopRegister
<1>2. Instruction[1] = "pop"
    BY DEF PopRegister
<1>3. q \in 19..34 /\ Instruction[2] = PopOrder[q - 18]
    BY <1>1, <1>2, InstrKinds, Zenon
<1> DEFINE r == PopOrder[q - 18]
<1>4. /\ Depth > 0 /\ Top \in Interruption /\ StubAt(Top, Running, stack, q)
      /\ Base(Top) \in Nat
    BY <1>1, TopFacts, Bases DEF Innermost
<1>5. /\ rsp = Base(Top) + (41 - q) /\ 41 - q \in 7..22
    BY <1>3, <1>4, PoppedWord, RunningFields
<1>6. /\ UNCHANGED <<idtTable, interrupted, intFlag>> /\ r # "rsp"
      /\ rip' = rip + 1 /\ regs' = [regs EXCEPT ![r] = stack[rsp]]
      /\ stack' = Front(stack)
    BY <1>3, Zenon DEF PopRegister, Step, Popped
<1> HIDE DEF r
<1>7. /\ stack' \in Seq(Int) /\ rsp' = rsp - 1
      /\ Same(stack, stack', rsp - 1) /\ Same(stack, stack', Base(Top))
  <2>1. Shrunk(stack, rsp - 1, stack')
      BY <1>6, StackFacts, PoppedOne
  <2>2. rsp - 1 \in Nat /\ Base(Top) <= rsp - 1 /\ rsp - 1 <= rsp
      BY <1>4, <1>5
  <2> QED
      BY <1>4, <2>1, <2>2, CutStack
<1>8. q + 1 \in Places(Top.vector) /\ StubAt(Top, Running', stack', q + 1)
  <2>1. Running'.rip = Running.rip + 1 /\ Running'.rsp = Running.rsp - 1 /\ Running.rsp = rsp
      BY <1>6, <1>7, RunningFields
  <2>2. Running'.regs = [Running.regs EXCEPT ![r] = stack[Running.rsp]]
      BY <1>6, RunningFields
  <2>3. Running.regs \in [Registers -> Int]
      BY StackFacts, RunningFields
  <2>4. r = PopOrder[q - 18] /\ r # "rsp"
      BY <1>6 DEF r
  <2>5. Same(stack, stack', Running.rsp - 1)
      BY <1>7, RunningFields
  <2>6. q \in 19..34 /\ Top \in Interruption /\ StubAt(Top, Running, stack, q)
      BY <1>3, <1>4
  <2> QED
      BY <2>1, <2>2, <2>3, <2>4, <2>5, <2>6, PopLevel
<1>9. rip' \in Int /\ regs' \in [Registers -> Int]
  <2>1. rip \in Int /\ regs \in [Registers -> Int] /\ rsp \in 1..rsp
      BY <1>4, <1>5, StackFacts
  <2>2. stack[rsp] \in Int
      BY <2>1, StackFacts
  <2>3. rip' \in Int
      BY <1>6, <2>1
  <2>4. regs' \in [Registers -> Int]
      BY <1>6, <2>1, <2>2
  <2> QED
      BY <2>3, <2>4
<1> QED
    BY <1>4, <1>6, <1>7, <1>8, <1>9, StubStep

LEMMA PopRspKeeps == ASSUME NestingInv, PopRsp PROVE NestingInv'
<1>1. PICK q \in 0..36 : Innermost(q) /\ Instruction = Instr(q)
    BY WhereInStub DEF PopRsp
<1>2. Instruction = <<"pop", "rsp">>
    BY DEF PopRsp
<1>3. q = 24
  <2>1. Instr(q) = <<"pop", "rsp">> <=> q = 24
      BY InstrKinds, Zenon
  <2> QED
      BY <1>1, <1>2, <2>1, Zenon
<1>4. /\ Depth > 0 /\ Top \in Interruption /\ StubAt(Top, Running, stack, 24)
      /\ Base(Top) \in Nat
    BY <1>1, <1>3, TopFacts, Bases DEF Innermost
<1>5. PopOrder[24 - 18] = "rsp"
    BY DEF PopOrder
<1>6. rsp = Base(Top) + 17 /\ stack[rsp] = Base(Top) + 16
  <2>1. /\ rsp = Base(Top) + (41 - 24) /\ stack[rsp] = Saved(Top, PopOrder[24 - 18])
      BY <1>4, PoppedWord, RunningFields
  <2> QED
      BY <1>5, <2>1 DEF Saved
<1>7. /\ UNCHANGED <<idtTable, interrupted, intFlag, regs>> /\ rip' = rip + 1
      /\ Shrunk(stack, Base(Top) + 16, stack')
    BY <1>6, Zenon DEF PopRsp, Step, Popped, Shrunk
<1>8. /\ stack' \in Seq(Int) /\ rsp' = rsp - 1
      /\ Same(stack, stack', rsp - 1) /\ Same(stack, stack', Base(Top))
  <2>1. Base(Top) + 16 \in Nat /\ Base(Top) <= Base(Top) + 16 /\ Base(Top) + 16 = rsp - 1
        /\ Base(Top) + 16 <= rsp
      BY <1>4, <1>6
  <2> QED
      BY <1>4, <1>7, <2>1, CutStack
<1>9. 25 \in Places(Top.vector) /\ StubAt(Top, Running', stack', 25)
  <2>1. Running'.rip = Running.rip + 1 /\ Running'.regs = Running.regs /\ Running.rsp = rsp
      BY <1>7, RunningFields
  <2>2. Running'.rsp = stack[Running.rsp]
      BY <1>4, <1>6, <1>8, RunningFields
  <2>3. Running.regs \in [Registers -> Int]
      BY StackFacts, RunningFields
  <2>4. 24 \in 19..34 /\ 24 + 1 = 25
      OBVIOUS
  <2>5. 24 + 1 \in Places(Top.vector) /\ StubAt(Top, Running', stack', 24 + 1)
      BY <1>4, <1>5, <1>8, <2>1, <2>2, <2>3, <2>4, PopLevel
  <2> QED
      BY <2>4, <2>5
<1>a. rip' \in Int /\ regs' \in [Registers -> Int]
    BY <1>7, StackFacts
<1> QED
    BY <1>4, <1>7, <1>8, <1>9, <1>a, StubStep

LEMMA PopErrorCodeKeeps == ASSUME NestingInv, PopErrorCode PROVE NestingInv'
<1>1. PICK q \in 0..36 : Innermost(q) /\ Instruction = Instr(q)
    BY WhereInStub DEF PopErrorCode
<1>2. Instruction = <<"pop irqErrorCode">>
    BY DEF PopErrorCode
<1>3. q = 35
  <2>1. Instr(q) = <<"pop irqErrorCode">> <=> q = 35
      BY InstrKinds, Zenon
  <2> QED
      BY <1>1, <1>2, <2>1, Zenon
<1>4. /\ Depth > 0 /\ Top \in Interruption /\ StubAt(Top, Running, stack, 35)
      /\ Base(Top) \in Nat
    BY <1>1, <1>3, TopFacts, Bases DEF Innermost
<1>5. rsp = Base(Top) + 6
    BY <1>4, Heights, RunningFields DEF StubAt
<1>6. /\ UNCHANGED <<idtTable, interrupted, intFlag, regs>> /\ rip' = rip + 1
      /\ stack' = Front(stack)
    BY DEF PopErrorCode, Step
<1>7. /\ stack' \in Seq(Int) /\ rsp' = rsp - 1
      /\ Same(stack, stack', rsp - 1) /\ Same(stack, stack', Base(Top))
  <2>1. Shrunk(stack, rsp - 1, stack')
      BY <1>6, StackFacts, PoppedOne
  <2>2. rsp - 1 \in Nat /\ Base(Top) <= rsp - 1 /\ rsp - 1 <= rsp
      BY <1>4, <1>5
  <2> QED
      BY <1>4, <2>1, <2>2, CutStack
<1>8. 36 \in Places(Top.vector) /\ StubAt(Top, Running', stack', 36)
  <2>1. /\ Running'.rip = Running.rip + 1 /\ Running'.regs = Running.regs
        /\ Running'.rsp = Running.rsp - 1 /\ Running.rsp = rsp
      BY <1>6, <1>7, RunningFields
  <2> QED
      BY <1>4, <1>7, <2>1, PopCodeLevel
<1>9. rip' \in Int /\ regs' \in [Registers -> Int]
    BY <1>6, StackFacts
<1> QED
    BY <1>4, <1>6, <1>7, <1>8, <1>9, StubStep

\* The contexts that wait, before and after a step.
LEMMA WaitingFacts ==
  ASSUME NestingInv
  PROVE  /\ Words(Interruption, interrupted, Depth) /\ Depth \in Nat
         /\ \A n : Words(Interruption, interrupted', n) =>
              interrupted' \in Seq(Interruption) /\ Depth' = n
BY DEF NestingInv, TypeInv, Depth, Words

LEMMA IretqFacts ==
  ASSUME NestingInv, Iretq
  PROVE  /\ Depth > 0 /\ Top.vector \in 0..15 \ Panics
         /\ rip' = Top.rip /\ regs' = Top.regs /\ rsp' = Top.rsp
         /\ Word(intFlag') = Top.rflags
         /\ stack' \in Seq(Int) /\ Same(stack, stack', Top.rsp)
<1>1. PICK q \in 0..36 : Innermost(q) /\ Instruction = Instr(q)
    BY WhereInStub DEF Iretq
<1>2. Instruction = <<"iretq">>
    BY DEF Iretq
<1>3. q = 36
  <2>1. Instr(q) = <<"iretq">> <=> q = 36
      BY InstrKinds, Zenon
  <2> QED
      BY <1>1, <1>2, <2>1, Zenon
<1>4. Depth > 0 /\ Top \in Interruption /\ StubAt(Top, Running, stack, 36)
    BY <1>1, <1>3, TopFacts DEF Innermost
<1>5. /\ stack[rsp] = Top.rip /\ stack[rsp - 2] = Top.rflags /\ stack[rsp - 3] = Top.rsp
      /\ regs = Top.regs /\ Top.vector \notin Panics /\ rsp = Base(Top) + 5
    BY <1>4, IretLevel, StackFacts, RunningFields
<1>6. /\ Top.vector \in 0..15 /\ Top.rflags \in {0, 1} /\ Top.rsp \in Nat
      /\ Base(Top) \in Nat /\ Top.rsp <= Base(Top)
    BY <1>4, Bases
<1>7. rip' = Top.rip /\ regs' = Top.regs
    BY <1>5 DEF Iretq
<1>8. Word(intFlag') = Top.rflags
  <2>1. intFlag' = (Top.rflags = 1)
      BY <1>5, Zenon DEF Iretq
  <2> QED
      BY <1>6, <2>1 DEF Word
<1>9. stack' \in Seq(Int) /\ rsp' = Top.rsp /\ Same(stack, stack', Top.rsp)
  <2>1. Shrunk(stack, Top.rsp, stack')
      BY <1>5, Zenon DEF Iretq, Shrunk
  <2>2. Top.rsp \in 0..rsp
      BY <1>5, <1>6
  <2>3. Words(Int, stack', Top.rsp) /\ Same(stack, stack', Top.rsp)
      BY <2>1, <2>2, StackFacts, Cut
  <2> QED
      BY <2>3, StackFacts
<1> QED
    BY <1>4, <1>5, <1>6, <1>7, <1>8, <1>9

LEMMA IretqKeeps == ASSUME NestingInv, Iretq PROVE NestingInv'
<1>1. /\ Depth > 0 /\ rip' = Top.rip /\ regs' = Top.regs /\ rsp' = Top.rsp
      /\ Word(intFlag') = Top.rflags
      /\ stack' \in Seq(Int) /\ Same(stack, stack', Top.rsp)
    BY IretqFacts
<1>2. Top \in Interruption
    BY <1>1, TopFacts
<1>3. rip' \in Int /\ regs' \in [Registers -> Int]
    BY <1>1, <1>2, Bases
<1>4. Depth \in Nat /\ Depth - 1 \in Nat /\ Depth - 1 \in 0..Depth
    BY <1>1, WaitingFacts
<1>5. /\ interrupted' \in Seq(Interruption) /\ Depth' = Depth - 1
      /\ Same(interrupted, interrupted', Depth - 1)
  <2>1. Shrunk(interrupted, Depth - 1, interrupted')
    <3>1. interrupted' = Front(interrupted)
        BY DEF Iretq
    <3> QED
        BY <3>1, WaitingFacts, PoppedOne
  <2>2. Words(Interruption, interrupted', Depth - 1) /\ Same(interrupted, interrupted', Depth - 1)
      BY <1>4, <2>1, WaitingFacts, Cut
  <2> QED
      BY <2>2, WaitingFacts
<1>6. \A i \in 1..(Depth - 1) : interrupted'[i] = interrupted[i]
    BY <1>5 DEF Same
<1>7. ASSUME NEW i \in 1..(Depth - 1), NEW u,
             u.rip = interrupted[i + 1].rip, u.regs = interrupted[i + 1].regs,
             u.rsp = interrupted[i + 1].rsp, u.rflags = interrupted[i + 1].rflags
      PROVE  LevelInv(interrupted[i], u, stack')
  <2>1. i + 1 \in 1..Depth /\ i \in 1..Depth
      BY <1>4
  <2>2. LevelInv(interrupted[i], interrupted[i + 1], stack)
      BY DEF NestingInv, StackInv
  <2>3. /\ interrupted[i] \in Interruption /\ interrupted[i + 1] \in Interruption
        /\ interrupted[i + 1].rsp <= Top.rsp
      BY <1>1, <2>1, TopFacts
  <2>4. interrupted[i + 1].rsp \in Nat /\ Top.rsp \in Nat
      BY <1>2, <2>3, Bases
  <2>5. Same(stack, stack', interrupted[i + 1].rsp)
      BY <1>1, <2>3, <2>4, SameBelow
  <2> QED
      BY <1>7, <2>2, <2>3, <2>4, <2>5, LevelSame
<1>8. TypeInv'
    BY <1>1, <1>3, <1>5 DEF Iretq, NestingInv, TypeInv, setupInterrupts
<1>9. StackInv'
  <2>1. interrupted[1].rip \in Main \cup {Halt}
      BY <1>1 DEF NestingInv, StackInv
  <2>2. CASE Depth = 1
    <3>1. rip' \in Main \cup {Halt} /\ Depth' = 0
        BY <1>1, <1>5, <2>1, <2>2 DEF Top
    <3> QED
        BY <3>1 DEF StackInv
  <2>3. CASE Depth > 1
    <3>1. 1 \in 1..(Depth - 1) /\ Depth - 1 \in 1..(Depth - 1) /\ (Depth - 1) + 1 = Depth
        BY <1>4, <2>3
    <3>2. LevelInv(interrupted[Depth - 1], Running', stack')
      <4>1. /\ Running'.rip = interrupted[(Depth - 1) + 1].rip
            /\ Running'.regs = interrupted[(Depth - 1) + 1].regs
            /\ Running'.rsp = interrupted[(Depth - 1) + 1].rsp
            /\ Running'.rflags = interrupted[(Depth - 1) + 1].rflags
          BY <1>1, <3>1, RunningFields DEF Top
      <4> QED
          BY <1>7, <3>1, <4>1
    <3>3. ASSUME NEW i \in 1..((Depth - 1) - 1)
          PROVE  LevelInv(interrupted[i], interrupted[i + 1], stack')
      <4>1. i \in 1..(Depth - 1)
          BY <1>4
      <4> QED
          BY <1>7, <4>1
    <3>4. \A i \in 1..((Depth - 1) - 1) : i \in 1..(Depth - 1) /\ i + 1 \in 1..(Depth - 1)
        BY <1>4
    <3>5. \A i, j \in 1..(Depth - 1) : i <= j => interrupted[i].rsp <= interrupted[j].rsp
        BY <1>4 DEF NestingInv, StackInv
    <3>6. LevelInv(interrupted'[Depth - 1], Running', stack') /\ interrupted'[1].rip \in Main \cup {Halt}
        BY <1>6, <2>1, <3>1, <3>2
    <3>7. \A i \in 1..((Depth - 1) - 1) : LevelInv(interrupted'[i], interrupted'[i + 1], stack')
        BY <1>6, <3>3, <3>4
    <3>8. \A i, j \in 1..(Depth - 1) : i <= j => interrupted'[i].rsp <= interrupted'[j].rsp
        BY <1>6, <3>5
    <3>9. Depth' # 0
        BY <1>5, <2>3
    <3> QED
        BY <1>5, <3>6, <3>7, <3>8, <3>9 DEF StackInv
  <2> QED
      BY <1>1, <1>4, <2>2, <2>3
<1> QED
    BY <1>8, <1>9 DEF NestingInv

-----------------------------------------------------------------------------
(* The descriptors.                                                        *)

LEMMA Quotient ==
  ASSUME NEW n \in Nat, NEW d \in Nat \ {0}
  PROVE  /\ n \div d \in Nat /\ n % d \in 0..(d - 1)
         /\ n = d * (n \div d) + (n % d)
<1>1. n \div d \in Int /\ n % d \in 0..(d - 1) /\ n = d * (n \div d) + (n % d)
    OBVIOUS
<1> DEFINE q == n \div d
<1>2. n < d * q + d
    BY <1>1
<1> HIDE DEF q
<1>3. q >= 0
  <2>1. q < 0 => d * (-q) >= d
      BY <1>1 DEF q
  <2> QED
      BY <1>1, <1>2, <2>1 DEF q
<1> QED
    BY <1>1, <1>3 DEF q

\* A quotient and a remainder are the only ones.
LEMMA OneQuotient ==
  ASSUME NEW d \in Nat \ {0}, NEW q \in Nat, NEW r \in 0..(d - 1)
  PROVE  /\ d * q + r \in Nat
         /\ (d * q + r) \div d = q /\ (d * q + r) % d = r
<1> DEFINE n == d * q + r
           p == n \div d
           s == n % d
<1>1. n \in Nat /\ d * q \in Nat
    OBVIOUS
<1>2. p \in Nat /\ s \in 0..(d - 1) /\ n = d * p + s
    BY <1>1, Quotient
<1>3. d * p + s = d * q + r
    BY <1>2
<1> HIDE DEF n, p, s
<1>4. ~(p > q)
  <2>1. p > q => d * p = d * q + d + d * (p - q - 1) /\ d * (p - q - 1) \in Nat
      BY <1>2
  <2> QED
      BY <1>1, <1>2, <1>3, <2>1
<1>5. ~(q > p)
  <2>1. q > p => d * q = d * p + d + d * (q - p - 1) /\ d * (q - p - 1) \in Nat
      BY <1>2
  <2> QED
      BY <1>1, <1>2, <1>3, <2>1
<1>6. p = q
    BY <1>2, <1>4, <1>5
<1>7. s = r
    BY <1>1, <1>2, <1>3, <1>6
<1> QED
    BY <1>1, <1>6, <1>7 DEF n, p, s

\* The three fields of a descriptor give the handler's address back.
LEMMA ThreePieces ==
  ASSUME NEW P \in Nat, P > 1, NEW h \in Nat
  PROVE  (h % P) + P * ((h \div P) % P) + P * P * (h \div (P * P)) = h
<1> DEFINE a == h \div P
           b == a \div P
           r == h % P
           s == a % P
<1>1. P \in Nat \ {0} /\ a \in Nat /\ r \in 0..(P - 1) /\ h = P * a + r
  <2>1. P \in Nat \ {0}
      OBVIOUS
  <2> QED
      BY <2>1, Quotient
<1>2. b \in Nat /\ s \in 0..(P - 1) /\ a = P * b + s
    BY <1>1, Quotient
<1> DEFINE D == P * P
           R == P * s + r
<1>3. D \in Nat \ {0} /\ R \in 0..(D - 1)
  <2> HIDE DEF a, b, r, s
  <2>1. P * s <= P * (P - 1) /\ P * (P - 1) = P * P - P /\ P * s \in Nat
      BY <1>1, <1>2
  <2>2. P * P > 0 /\ P * P \in Nat
      BY <1>1
  <2> QED
      BY <1>1, <1>2, <2>1, <2>2
<1>4. h = D * b + R
  <2> HIDE DEF a, b, r, s
  <2>1. P * a = P * (P * b + s) /\ P * (P * b + s) = P * P * b + P * s
      BY <1>1, <1>2
  <2>2. P * P * b \in Int /\ P * s \in Int
      BY <1>1, <1>2
  <2> QED
      BY <1>1, <2>1, <2>2
<1>5. h \div D = b
  <2>1. b \in Nat
      BY <1>2
  <2> HIDE DEF D, R, b
  <2> QED
      BY <1>3, <1>4, <2>1, OneQuotient
<1>6. (h \div P) % P = s /\ h % P = r /\ h \div (P * P) = b
    BY <1>5
<1>7. r + P * s + P * P * b = h
  <2> HIDE DEF a, b, r, s
  <2> QED
      BY <1>1, <1>2, <1>4
<1> QED
    BY <1>6, <1>7, Zenon

LEMMA Gates ==
  ASSUME idtTable = setupInterrupts
  PROVE  /\ \A v \in 0..15 : /\ Gate(v) = Stubs(v)
                             /\ idtTable[v].attributes.present /\ ~idtTable[v].attributes.trap
         /\ \A v \in 16..31 : ~idtTable[v].attributes.present
<1>1. ASSUME NEW v \in 0..15 PROVE idtTable[v] = setInterrupt(Stubs(v), IRQ_MODE_INTERRUPT)
  <2>1. v \in AllVectors /\ v <= 15
      BY DEF AllVectors
  <2> QED
      BY <2>1, Zenon DEF setupInterrupts
<1>2. ASSUME NEW v \in 16..31 PROVE idtTable[v] = setInterrupt(NULL, IRQ_MODE_DISABLED)
  <2>1. v \in AllVectors /\ ~(v <= 15)
      BY DEF AllVectors
  <2> QED
      BY <2>1, Zenon DEF setupInterrupts
<1>3. ASSUME NEW v \in 0..15 PROVE Gate(v) = Stubs(v)
  <2> DEFINE h == Stubs(v)
  <2>1. h \in Nat
      BY DEF Stubs
  <2> HIDE DEF h
  <2>2. /\ idtTable[v].offset0 = h % Piece
        /\ idtTable[v].offset1 = (h \div Piece) % Piece
        /\ idtTable[v].offset2 = h \div (Piece * Piece)
      BY <1>1 DEF setInterrupt, h
  <2>3. (h % Piece) + Piece * ((h \div Piece) % Piece) + Piece * Piece * (h \div (Piece * Piece)) = h
      BY <2>1, InterruptsAssumption, ThreePieces
  <2>4. Gate(v) = h
      BY <2>2, <2>3, Zenon DEF Gate
  <2> QED
      BY <2>4 DEF h
<1>4. Attributes(IRQ_MODE_INTERRUPT).present /\ ~Attributes(IRQ_MODE_INTERRUPT).trap
      /\ ~Attributes(IRQ_MODE_DISABLED).present
  <2>1. ASSUME NEW m
        PROVE  /\ Attributes(m).present <=> m \div 2 = 1
               /\ Attributes(m).trap <=> m % 2 = 1
      BY DEF Attributes
  <2>2. 2 \div 2 = 1 /\ 2 % 2 = 0 /\ 0 \div 2 = 0
      OBVIOUS
  <2> QED
      BY <2>1, <2>2 DEF IRQ_MODE_INTERRUPT, IRQ_MODE_DISABLED
<1>5. \A h, m : setInterrupt(h, m).attributes = Attributes(m)
    BY DEF setInterrupt
<1> QED
    BY <1>1, <1>2, <1>3, <1>4, <1>5

-----------------------------------------------------------------------------
(* The processor takes an exception.                                       *)

Taken(v, code) ==
  [rip |-> rip, regs |-> regs, rsp |-> rsp, rflags |-> Word(intFlag), vector |-> v,
   code |-> IF v \in PushesError THEN code ELSE 0]

\* What the processor pushes is the frame up to where the stub begins.
LEMMA DeliveredStack ==
  ASSUME NestingInv, NEW v \in 0..15, NEW code \in Int, Deliver(v, code)
  PROVE  LET c == Taken(v, code)
         IN /\ c \in Interruption /\ c.rsp = rsp
            /\ v \notin StubsWithoutCode => c.code = 0
            /\ stack' \in Seq(Int) /\ rsp' = Base(c) + Height(Extra(v))
            /\ Same(stack, stack', rsp) /\ Framed(c, stack', Height(Extra(v)))
<1> DEFINE c == Taken(v, code)
           e == Extra(v)
           five == <<16, rsp, Word(intFlag), 8, rip>>
           last == IF v \in PushesError THEN <<code>> ELSE <<>>
           most == Aligned \o five
<1>1. rsp \in Nat /\ rip \in Int /\ regs \in [Registers -> Int] /\ Words(Int, stack, rsp)
    BY StackFacts
<1>2. Word(intFlag) \in {0, 1} /\ 16 \in Int /\ 8 \in Int
    BY DEF Word
<1>3. c \in Interruption
    BY <1>1, <1>2 DEF Taken, Interruption
<1>4. /\ c.rip = rip /\ c.rsp = rsp /\ c.rflags = Word(intFlag) /\ c.vector = v
      /\ c.code = IF v \in PushesError THEN code ELSE 0
    BY DEF Taken
<1>5. e \in {0, 1} /\ (e = 1 <=> v \in StubsWithoutCode) /\ (v \in StubsWithoutCode <=> v \in PushesError)
    BY DEF Extra, StubsWithoutCode, PushesError
<1>6. v \notin StubsWithoutCode => c.code = 0
    BY <1>4, <1>5
<1> HIDE DEF c, e
<1>7. Base(c) \in Nat /\ rsp <= Base(c) /\ Base(c) = rsp + (rsp % 2)
    BY <1>3, <1>4, Bases DEF Base
<1>8. Words(Int, Aligned, Base(c)) /\ Same(stack, Aligned, rsp)
  <2>1. CASE rsp % 2 = 0
    <3>1. Aligned = stack /\ Base(c) = rsp
        BY <1>1, <1>7, <2>1 DEF Aligned
    <3> QED
        BY <1>1, <3>1 DEF Same
  <2>2. CASE rsp % 2 # 0
    <3>1. Grown(stack, Junk, Aligned)
        BY <2>2, Zenon DEF Aligned, Grown
    <3>2. Base(c) = rsp + 1 /\ Junk \in Int
        BY <1>1, <1>7, <2>2 DEF Junk
    <3> QED
        BY <1>1, <3>1, <3>2, Pushed
  <2> QED
      BY <2>1, <2>2
<1>9. /\ Words(Int, five, 5)
      /\ five[1] = 16 /\ five[2] = rsp /\ five[3] = Word(intFlag) /\ five[4] = 8
      /\ five[5] = rip
    BY <1>1, <1>2 DEF Words
<1>a. Words(Int, last, e) /\ (e = 1 => last[1] = code)
  <2>1. CASE e = 1
    <3>1. last = <<code>>
        BY <1>5, <2>1
    <3> HIDE DEF last
    <3> QED
        BY <2>1, <3>1, OneWord, Zenon
  <2>2. CASE e = 0
    <3>1. last = <<>>
        BY <1>5, <2>2
    <3> HIDE DEF last
    <3>2. Words(Int, last, 0)
        BY <3>1, NoWords, Zenon
    <3> QED
        BY <2>2, <3>2
  <2> QED
      BY <1>5, <2>1, <2>2
<1>b. Cat(Aligned, five, most) /\ Cat(most, last, stack')
    BY Zenon DEF Cat, Deliver
<1> HIDE DEF five, last, most
<1>c. /\ Words(Int, most, Base(c) + 5)
      /\ \A i \in 1..Base(c) : most[i] = Aligned[i]
      /\ \A i \in 1..5 : most[Base(c) + i] = five[i]
    BY <1>7, <1>8, <1>9, <1>b, Joined
<1>d. /\ Words(Int, stack', (Base(c) + 5) + e)
      /\ \A i \in 1..(Base(c) + 5) : stack'[i] = most[i]
      /\ \A i \in 1..e : stack'[(Base(c) + 5) + i] = last[i]
  <2>1. Base(c) + 5 \in Nat /\ e \in Nat
      BY <1>5, <1>7
  <2> QED
      BY <1>a, <1>b, <1>c, <2>1, Joined
<1>e. Height(e) = 5 + e
    BY <1>5, Heights
<1>f. stack' \in Seq(Int) /\ rsp' = Base(c) + Height(e)
  <2>1. stack' \in Seq(Int) /\ rsp' = (Base(c) + 5) + e
      BY <1>d, StackFacts
  <2> QED
      BY <1>5, <1>7, <1>e, <2>1
<1>g. Same(stack, stack', rsp)
  <2>1. \A i \in 1..rsp : i \in 1..Base(c) /\ i \in 1..(Base(c) + 5)
      BY <1>1, <1>7
  <2> QED
      BY <1>8, <1>c, <1>d, <2>1 DEF Same
<1>h. ASSUME NEW w \in 1..Height(e) PROVE stack'[Base(c) + w] = FrameWord(c, w)
  <2>1. CASE w \in 1..5
    <3>1. Base(c) + w \in 1..(Base(c) + 5)
        BY <1>7, <2>1
    <3>2. stack'[Base(c) + w] = five[w]
        BY <1>c, <1>d, <2>1, <3>1
    <3>3. five[w] = FrameWord(c, w)
        BY <1>4, <1>9, <2>1, FrameWords
    <3> QED
        BY <3>2, <3>3
  <2>2. CASE w = 6
    <3>1. e = 1 /\ Base(c) + w = (Base(c) + 5) + 1 /\ 1 \in 1..e
        BY <1>5, <1>7, <1>e, <2>2
    <3>2. stack'[Base(c) + w] = code
        BY <1>a, <1>d, <3>1
    <3>3. c.code = code
        BY <1>4, <1>5, <3>1
    <3> QED
        BY <2>2, <3>2, <3>3, FrameWords
  <2> QED
      BY <1>5, <1>e, <2>1, <2>2
<1>i. Framed(c, stack', Height(e))
    BY <1>h DEF Framed
<1> QED
    BY <1>3, <1>4, <1>6, <1>f, <1>g, <1>i DEF c, e

LEMMA DeliverKeeps ==
  ASSUME NestingInv, NEW v \in 0..15, NEW code \in Int, Deliver(v, code)
  PROVE  NestingInv'
<1> DEFINE c == Taken(v, code)
<1>1. /\ c \in Interruption /\ c.rsp = rsp
      /\ v \notin StubsWithoutCode => c.code = 0
      /\ stack' \in Seq(Int) /\ rsp' = Base(c) + Height(Extra(v))
      /\ Same(stack, stack', rsp) /\ Framed(c, stack', Height(Extra(v)))
    BY DeliveredStack
<1>2. /\ c.rip = rip /\ c.regs = regs /\ c.rflags = Word(intFlag) /\ c.vector = v
    BY DEF Taken
<1>3. /\ idtTable' = idtTable /\ regs' = regs /\ rip' = Gate(v)
      /\ intFlag' = (intFlag /\ idtTable[v].attributes.trap)
      /\ Grown(interrupted, c, interrupted')
    BY Zenon DEF Deliver, Grown, Taken
<1> HIDE DEF c
<1>4. Gate(v) = Stubs(v) /\ ~idtTable[v].attributes.trap
    BY Gates DEF NestingInv, TypeInv
<1>5. intFlag' = FALSE /\ rip' = Stubs(v)
    BY <1>3, <1>4
<1>6. Base(c) \in Nat /\ rsp <= Base(c) /\ rsp \in Nat
    BY <1>1, StackFacts, Bases
<1>7. Depth \in Nat
    BY WaitingFacts
<1>8. /\ interrupted' \in Seq(Interruption) /\ Depth' = Depth + 1
      /\ \A i \in 1..Depth : interrupted'[i] = interrupted[i]
      /\ interrupted'[Depth + 1] = c
  <2>1. /\ Words(Interruption, interrupted', Depth + 1)
        /\ Same(interrupted, interrupted', Depth) /\ interrupted'[Depth + 1] = c
      BY <1>1, <1>3, WaitingFacts, Pushed
  <2> QED
      BY <2>1, WaitingFacts DEF Same
<1>9. LevelInv(c, Running', stack')
  <2>1. Extra(v) \in {0, 1} /\ Extra(v) \in Places(c.vector) /\ Kept(Extra(v)) = Registers
    <3>1. Extra(v) \in {0, 1}
        BY DEF Extra
    <3> QED
        BY <1>2, <3>1, KeptRegisters DEF Places
  <2>2. Height(Extra(v)) \in Nat
      BY <2>1, Heights
  <2>3. Running'.rip = At(c.vector, Extra(v))
      BY <1>2, <1>5, <2>1, RunningFields DEF At, Stubs
  <2>4. SameRegs(c, Running', Registers) /\ Running'.rsp = Base(c) + Height(Extra(v))
        /\ Running'.rflags = 0
      BY <1>1, <1>2, <1>3, <1>5, RunningFields DEF SameRegs, Word
  <2>5. StubAt(c, Running', stack', Extra(v))
      BY <1>1, <2>1, <2>3, <2>4 DEF StubAt
  <2>6. Base(c) <= Running'.rsp
      BY <1>6, <2>2, <2>4
  <2> QED
      BY <1>1, <1>2, <2>1, <2>4, <2>5, <2>6 DEF LevelInv
<1>a. Depth > 0 => /\ Top \in Interruption /\ LevelInv(Top, Running, stack)
                   /\ Top.rsp <= rsp /\ Top.rsp \in Nat
  <2>1. SUFFICES ASSUME Depth > 0
                 PROVE  /\ Top \in Interruption /\ LevelInv(Top, Running, stack)
                        /\ Top.rsp <= rsp /\ Top.rsp \in Nat
      OBVIOUS
  <2>2. Top \in Interruption /\ LevelInv(Top, Running, stack) /\ Base(Top) <= rsp
      BY <2>1, TopFacts
  <2>3. Base(Top) \in Nat /\ Top.rsp \in Nat /\ Top.rsp <= Base(Top)
      BY <2>2, Bases
  <2> QED
      BY <1>6, <2>2, <2>3
<1>b. ASSUME Depth > 0 PROVE LevelInv(interrupted[Depth], c, stack')
  <2>1. /\ Running.rsp \in Nat /\ Same(stack, stack', Running.rsp)
        /\ c.rip = Running.rip /\ c.regs = Running.regs /\ c.rsp = Running.rsp
        /\ c.rflags = Running.rflags
      BY <1>1, <1>2, <1>6, RunningFields
  <2> QED
      BY <1>a, <1>b, <2>1, LevelSame DEF Top
<1>c. ASSUME NEW i \in 1..(Depth - 1)
      PROVE  LevelInv(interrupted[i], interrupted[i + 1], stack')
  <2>1. i + 1 \in 1..Depth /\ i \in 1..Depth /\ Depth > 0
      BY <1>7
  <2>2. LevelInv(interrupted[i], interrupted[i + 1], stack)
      BY DEF NestingInv, StackInv
  <2>3. /\ interrupted[i] \in Interruption /\ interrupted[i + 1] \in Interruption
        /\ interrupted[i + 1].rsp <= Top.rsp
      BY <2>1, TopFacts
  <2>4. interrupted[i + 1].rsp \in Nat
      BY <2>3, Bases
  <2>5. interrupted[i + 1].rsp <= rsp
      BY <1>6, <1>a, <2>1, <2>3, <2>4
  <2>6. Same(stack, stack', interrupted[i + 1].rsp)
      BY <1>1, <1>6, <2>4, <2>5, SameBelow
  <2> QED
      BY <2>2, <2>3, <2>4, <2>6, LevelSame
<1>d. TypeInv'
  <2>1. rip' \in Int /\ regs' \in [Registers -> Int]
      BY <1>3, <1>5, StackFacts DEF Stubs
  <2>2. idtTable' = setupInterrupts'
      BY <1>3 DEF NestingInv, TypeInv, setupInterrupts
  <2> QED
      BY <1>1, <1>8, <2>1, <2>2 DEF TypeInv
<1>e. StackInv'
  <2>1. interrupted'[1].rip \in Main \cup {Halt}
    <3>1. CASE Depth = 0
      <4>1. rip \in Main \cup {Halt}
          BY <3>1 DEF NestingInv, StackInv
      <4> QED
          BY <1>2, <1>8, <3>1, <4>1
    <3>2. CASE Depth > 0
      <4>1. interrupted[1].rip \in Main \cup {Halt} /\ 1 \in 1..Depth
          BY <1>7, <3>2 DEF NestingInv, StackInv
      <4> QED
          BY <1>8, <4>1
    <3> QED
        BY <1>7, <3>1, <3>2
  <2>2. LevelInv(interrupted'[Depth + 1], Running', stack')
      BY <1>8, <1>9
  <2>3. ASSUME NEW i \in 1..Depth
        PROVE  LevelInv(interrupted'[i], interrupted'[i + 1], stack')
    <3>1. CASE i = Depth
        BY <1>8, <1>b, <3>1
    <3>2. CASE i # Depth
      <4>1. i \in 1..(Depth - 1) /\ i + 1 \in 1..Depth
          BY <1>7, <3>2
      <4> QED
          BY <1>8, <1>c, <4>1
    <3> QED
        BY <3>1, <3>2
  <2>4. ASSUME NEW i \in 1..(Depth + 1), NEW j \in 1..(Depth + 1), i <= j
        PROVE  interrupted'[i].rsp <= interrupted'[j].rsp
    <3>1. CASE j \in 1..Depth
      <4>1. i \in 1..Depth
          BY <1>7, <2>4, <3>1
      <4>2. interrupted[i].rsp <= interrupted[j].rsp
          BY <2>4, <3>1, <4>1 DEF NestingInv, StackInv
      <4> QED
          BY <1>8, <3>1, <4>1, <4>2
    <3>2. CASE j = Depth + 1 /\ i = Depth + 1
        BY <1>1, <1>6, <1>8, <3>2
    <3>3. CASE j = Depth + 1 /\ i \in 1..Depth
      <4>1. Depth > 0
          BY <1>7, <3>3
      <4>2. interrupted[i] \in Interruption /\ interrupted[i].rsp <= Top.rsp
          BY <3>3, <4>1, TopFacts
      <4>3. interrupted[i].rsp \in Nat
          BY <4>2, Bases
      <4>4. interrupted[i].rsp <= rsp
          BY <1>6, <1>a, <4>1, <4>2, <4>3
      <4> QED
          BY <1>1, <1>8, <3>3, <4>4
    <3> QED
        BY <1>7, <3>1, <3>2, <3>3
  <2>5. Depth' # 0 /\ Depth' - 1 = Depth
      BY <1>7, <1>8
  <2> QED
      BY <1>8, <2>1, <2>2, <2>3, <2>4, <2>5 DEF StackInv
<1> QED
    BY <1>d, <1>e DEF NestingInv

LEMMA ExceptionKeeps ==
  ASSUME NestingInv, NEW v \in Vectors, NEW code \in ErrorCodes, Exception(v, code)
  PROVE  NestingInv'
<1>1. v \in 0..20 /\ code \in Int
    BY InterruptsAssumption
<1>2. CASE idtTable[v].attributes.present
  <2>1. Deliver(v, code)
      BY <1>2 DEF Exception
  <2>2. v \in 0..15
    <3>1. \A x \in 16..31 : ~idtTable[x].attributes.present
        BY Gates DEF NestingInv, TypeInv
    <3> QED
        BY <1>1, <1>2, <3>1
  <2> QED
      BY <1>1, <2>1, <2>2, DeliverKeeps
<1>3. CASE ~idtTable[v].attributes.present
  <2>1. Deliver(11, 8 * v + 2)
      BY <1>3 DEF Exception, NotPresent
  <2>2. 11 \in 0..15 /\ 8 * v + 2 \in Int
      BY <1>1
  <2> QED
      BY <2>1, <2>2, DeliverKeeps
<1> QED
    BY <1>2, <1>3

LEMMA NonMaskableKeeps == ASSUME NestingInv, NonMaskable PROVE NestingInv'
<1>1. Deliver(2, 0)
    BY DEF NonMaskable, NMI
<1> QED
    BY <1>1, DeliverKeeps

-----------------------------------------------------------------------------
(* The handlers, and the code that is interrupted.                         *)

LEMMA HandlerLogsKeeps == ASSUME NestingInv, HandlerLogs PROVE NestingInv'
<1>1. /\ Depth > 0 /\ HandlerAt(Top, Running, stack) /\ VectorAt(rip) = Top.vector
    BY WhereInHandler DEF HandlerLogs
<1>2. Top \in Interruption /\ Top.vector \in 0..15
    BY <1>1, TopFacts, Bases
<1>3. /\ UNCHANGED <<idtTable, stack, interrupted, intFlag>>
      /\ rip = HandlerEntry(Top.vector) /\ Top.vector \notin Panics
      /\ rip' = HandlerExit(Top.vector) /\ rsp' = rsp
      /\ regs' = [r \in Registers |-> IF r \in CallerSaved THEN Junk ELSE regs[r]]
    BY <1>1 DEF HandlerLogs, rsp
<1>4. HandlerAt(Top, Running', stack)
  <2>1. \A r \in Registers \ CallerSaved : Running'.regs[r] = Running.regs[r]
      BY <1>3, RunningFields
  <2>2. /\ Running.rip = HandlerEntry(Top.vector) /\ Running'.rip = HandlerExit(Top.vector)
        /\ Running'.rsp = Running.rsp
      BY <1>3, RunningFields
  <2> QED
      BY <1>1, <1>2, <1>3, <2>1, <2>2, LogLevel
<1>5. rip' \in Int
    BY <1>2, <1>3, HandlerAddresses
<1>6. regs' \in [Registers -> Int]
  <2>1. regs \in [Registers -> Int] /\ Junk \in Int
      BY StackFacts DEF Junk
  <2> QED
      BY <1>3, <2>1
<1>7. stack' \in Seq(Int) /\ stack' = stack /\ Same(stack, stack', Base(Top))
    BY <1>3 DEF Same, NestingInv, TypeInv
<1> QED
    BY <1>1, <1>3, <1>4, <1>5, <1>6, <1>7, HandlerStep

LEMMA HandlerReturnsKeeps == ASSUME NestingInv, HandlerReturns PROVE NestingInv'
<1>1. /\ Depth > 0 /\ HandlerAt(Top, Running, stack) /\ VectorAt(rip) = Top.vector
    BY WhereInHandler DEF HandlerReturns
<1>2. Top \in Interruption /\ Top.vector \in 0..15 /\ Base(Top) \in Nat
    BY <1>1, TopFacts, Bases
<1>3. /\ UNCHANGED <<idtTable, regs, interrupted, intFlag>>
      /\ rip = HandlerExit(Top.vector)
      /\ rip' = stack[rsp] /\ stack' = Front(stack)
    BY <1>1, Zenon DEF HandlerReturns, Popped
<1>4. rsp = Base(Top) + 23
    BY <1>1, RunningFields DEF HandlerAt
<1>5. /\ stack' \in Seq(Int) /\ rsp' = rsp - 1
      /\ Same(stack, stack', rsp - 1) /\ Same(stack, stack', Base(Top))
  <2>1. Shrunk(stack, rsp - 1, stack')
      BY <1>3, StackFacts, PoppedOne
  <2>2. rsp - 1 \in Nat /\ Base(Top) <= rsp - 1 /\ rsp - 1 <= rsp
      BY <1>2, <1>4
  <2> QED
      BY <1>1, <2>1, <2>2, CutStack
<1>6. 19 \in Places(Top.vector) /\ StubAt(Top, Running', stack', 19)
  <2>1. /\ Running.rip = HandlerExit(Top.vector) /\ Running.rsp = rsp
        /\ Running'.rip = stack[Running.rsp] /\ Running'.regs = Running.regs
        /\ Running'.rsp = Running.rsp - 1
      BY <1>3, <1>5, RunningFields
  <2> QED
      BY <1>1, <1>2, <1>5, <2>1, ReturnLevel
<1>7. rip' \in Int /\ regs' \in [Registers -> Int]
  <2>1. rsp \in 1..rsp
      BY <1>2, <1>4
  <2> QED
      BY <1>3, <2>1, StackFacts
<1> QED
    BY <1>1, <1>3, <1>5, <1>6, <1>7, StubStep

LEMMA kpaniciKeeps == ASSUME NestingInv, kpanici PROVE NestingInv'
<1>1. Depth > 0
    BY WhereInHandler DEF kpanici
<1>2. UNCHANGED <<idtTable, regs, stack, interrupted>> /\ intFlag' = FALSE /\ rip' = Halt
      /\ rsp' = rsp
    BY DEF kpanici, rsp
<1>3. rip' \in Int /\ regs' \in [Registers -> Int]
    BY <1>2, StackFacts DEF Halt
<1>4. stack' \in Seq(Int) /\ Same(stack, stack', Base(Top))
    BY <1>2 DEF Same, NestingInv, TypeInv
<1>5. Base(Top) <= rsp'
    BY <1>1, <1>2, TopFacts
<1> QED
    BY <1>1, <1>2, <1>3, <1>4, <1>5, LevelStep

\* C code runs only when no exception waits.
LEMMA MainDepth == ASSUME NestingInv, rip \in Main PROVE Depth = 0
<1>1. Depth \in Nat
    BY WaitingFacts
<1>2. ASSUME Depth > 0 PROVE FALSE
  <2>1. Top \in Interruption /\ LevelInv(Top, Running, stack) /\ Top.vector \in 0..15
      BY <1>2, TopFacts, Bases
  <2>2. rip < 64
      BY DEF Main
  <2>3. rip # Halt
      BY <2>2 DEF Halt
  <2>4. ~HandlerAt(Top, Running, stack)
      BY <2>1, <2>2, HandlerAddresses, RunningFields DEF HandlerAt
  <2>5. ASSUME NEW q \in Places(Top.vector) PROVE ~StubAt(Top, Running, stack, q)
    <3>1. At(Top.vector, q) >= 64 /\ At(Top.vector, q) \in Int
        BY <2>1, StubAddresses
    <3>2. rip # At(Top.vector, q)
        BY <2>2, <3>1
    <3> QED
        BY <3>2, RunningFields DEF StubAt
  <2> QED
      BY <2>1, <2>3, <2>4, <2>5, RunningFields DEF LevelInv
<1> QED
    BY <1>1, <1>2

LEMMA MainStep ==
  ASSUME NestingInv, rip \in Main, UNCHANGED <<idtTable, regs, interrupted>>,
         rip' \in Main \cup {Halt}, stack' \in Seq(Int)
  PROVE  NestingInv'
<1>1. Depth = 0 /\ Depth' = Depth
    BY MainDepth DEF Depth
<1>2. TypeInv'
  <2>1. rip' \in Int
      BY DEF Main, Halt
  <2>2. idtTable' = setupInterrupts'
      BY DEF NestingInv, TypeInv, setupInterrupts
  <2>3. regs' \in [Registers -> Int] /\ interrupted' \in Seq(Interruption)
      BY DEF NestingInv, TypeInv
  <2> QED
      BY <2>1, <2>2, <2>3 DEF TypeInv
<1>3. StackInv'
    BY <1>1 DEF StackInv
<1> QED
    BY <1>2, <1>3 DEF NestingInv

LEMMA kpanicKeeps == ASSUME NestingInv, kpanic PROVE NestingInv'
<1>1. /\ rip \in Main /\ UNCHANGED <<idtTable, regs, interrupted>>
      /\ rip' = Halt /\ stack' = stack
    BY DEF kpanic
<1>2. stack' \in Seq(Int)
    BY <1>1 DEF NestingInv, TypeInv
<1> QED
    BY <1>1, <1>2, MainStep

LEMMA MainFlagKeeps == ASSUME NestingInv, MainFlag PROVE NestingInv'
<1>1. /\ rip \in Main /\ UNCHANGED <<idtTable, regs, interrupted>>
      /\ rip' = 3 - rip /\ stack' = stack
    BY DEF MainFlag, Continue, ReturnAddress
<1>2. stack' \in Seq(Int)
    BY <1>1 DEF NestingInv, TypeInv
<1>3. rip' \in Main
    BY <1>1 DEF Main
<1> QED
    BY <1>1, <1>2, <1>3, MainStep

LEMMA MainStackKeeps == ASSUME NestingInv, MainStack PROVE NestingInv'
<1>1. /\ rip \in Main /\ UNCHANGED <<idtTable, regs, interrupted>>
      /\ rip' = 3 - rip
      /\ stack' = IF rsp = 2 THEN Append(stack, Junk) ELSE Front(stack)
    BY DEF MainStack, Continue, ReturnAddress
<1>2. rip' \in Main
    BY <1>1 DEF Main
<1>3. stack' \in Seq(Int)
  <2>1. CASE rsp = 2
    <3>1. Grown(stack, Junk, stack') /\ Junk \in Int
        BY <1>1, <2>1 DEF Grown, Junk
    <3> QED
        BY <3>1, StackFacts, Pushed
  <2>2. CASE rsp # 2
    <3>1. stack' = Front(stack)
        BY <1>1, <2>2, Zenon
    <3>2. stack \in Seq(Int)
        BY DEF NestingInv, TypeInv
    <3> HIDE DEF NestingInv
    <3> QED
        BY <3>1, <3>2 DEF Front
  <2> QED
      BY <2>1, <2>2
<1> QED
    BY <1>1, <1>2, <1>3, MainStep

-----------------------------------------------------------------------------
(* The invariant.                                                          *)

LEMMA InitNesting == Init => NestingInv
<1> SUFFICES ASSUME Init PROVE NestingInv
    OBVIOUS
<1>1. regs \in [Registers -> Int]
  <2> DEFINE Place(r) == CHOOSE i \in 1..16 : PushOrder[i] = r
  <2>1. regs = [r \in Registers |-> 1000 + Place(r)]
      BY Zenon DEF Init
  <2>2. ASSUME NEW r \in Registers PROVE \E i \in 1..16 : PushOrder[i] = r
      BY DEF Registers, PushOrder
  <2>3. \A r \in Registers : Place(r) \in 1..16
      BY <2>2, Zenon
  <2> HIDE DEF Place
  <2> QED
      BY <2>1, <2>3
<1>2. idtTable = setupInterrupts /\ rip = 1 /\ interrupted = <<>>
    BY DEF Init
<1>3. stack \in Seq(Int)
  <2>1. Words(Int, stack, 2)
    <3>1. Pair(stack, Junk, Junk) /\ Junk \in Int
        BY DEF Init, Pair, Junk
    <3> QED
        BY <3>1, TwoWords
  <2> QED
      BY <2>1 DEF Words
<1>4. interrupted \in Seq(Interruption) /\ Depth = 0
  <2>1. Words(Interruption, interrupted, 0)
      BY <1>2, NoWords, Zenon
  <2> QED
      BY <2>1 DEF Words, Depth
<1>5. TypeInv
    BY <1>1, <1>2, <1>3, <1>4 DEF TypeInv
<1>6. StackInv
    BY <1>2, <1>4 DEF StackInv, Main
<1> QED
    BY <1>5, <1>6 DEF NestingInv

LEMMA NextNesting == ASSUME NestingInv, [Next]_vars PROVE NestingInv'
<1>1. CASE UNCHANGED vars
  <2>1. UNCHANGED <<idtTable, rip, regs, stack, intFlag, interrupted>>
      BY <1>1 DEF vars
  <2>2. TypeInv'
      BY <2>1 DEF NestingInv, TypeInv, setupInterrupts
  <2>3. Depth' = Depth /\ Running' = Running
      BY <2>1 DEF Depth, Running, rsp
  <2>4. StackInv'
      BY <2>1, <2>3 DEF NestingInv, StackInv
  <2> QED
      BY <2>2, <2>4 DEF NestingInv
<1>2. CASE PushZero
    BY <1>2, PushZeroKeeps
<1>3. CASE PushRegister
    BY <1>3, PushRegisterKeeps
<1>4. CASE PassFrame
    BY <1>4, PassFrameKeeps
<1>5. CASE CallHandler
    BY <1>5, CallHandlerKeeps
<1>6. CASE PopRegister
    BY <1>6, PopRegisterKeeps
<1>7. CASE PopRsp
    BY <1>7, PopRspKeeps
<1>8. CASE PopErrorCode
    BY <1>8, PopErrorCodeKeeps
<1>9. CASE Iretq
    BY <1>9, IretqKeeps
<1>a. CASE HandlerLogs
    BY <1>a, HandlerLogsKeeps
<1>b. CASE HandlerReturns
    BY <1>b, HandlerReturnsKeeps
<1>c. CASE kpanici
    BY <1>c, kpaniciKeeps
<1>d. CASE MainStack
    BY <1>d, MainStackKeeps
<1>e. CASE MainFlag
    BY <1>e, MainFlagKeeps
<1>f. CASE kpanic
    BY <1>f, kpanicKeeps
<1>g. CASE \E v \in Vectors, code \in ErrorCodes : Exception(v, code)
    BY <1>g, ExceptionKeeps
<1>h. CASE NonMaskable
    BY <1>h, NonMaskableKeeps
<1> QED
    BY <1>1, <1>2, <1>3, <1>4, <1>5, <1>6, <1>7, <1>8, <1>9, <1>a, <1>b, <1>c, <1>d, <1>e,
       <1>f, <1>g, <1>h, Zenon DEF Next, Instructions

LEMMA AlwaysNested == Spec => []NestingInv
<1>1. Init => NestingInv
    BY InitNesting
<1>2. NestingInv /\ [Next]_vars => NestingInv'
    BY NextNesting
<1> QED
    BY <1>1, <1>2, PTL DEF Spec

-----------------------------------------------------------------------------
(* What a handler finds.                                                   *)

\* The fields of struct interrupt_frame, from the frame's end to its start,
\* are the words of the frame from the first to the last.
LEMMA FieldWords ==
  ASSUME NEW c \in Interruption, Framed(c, stack, 22), NEW i \in 0..21
  PROVE  FieldAt(Base(c) + 22, i) = FrameWord(c, 22 - i)
<1>1. 22 - i \in 1..22 /\ Base(c) \in Nat /\ (Base(c) + 22) - i = Base(c) + (22 - i)
    BY Bases
<1> QED
    BY <1>1 DEF FieldAt, Framed

LEMMA FieldOrder ==
  /\ \A i \in 0..21 : Fields[i + 1] \in Registers => i \in 0..15 /\ PushOrder[16 - i] = Fields[i + 1]
  /\ \A i \in 0..21 : /\ Fields[i + 1] = "errorCode" <=> i = 16
                      /\ Fields[i + 1] = "rip" <=> i = 17
                      /\ Fields[i + 1] = "rflags" <=> i = 19
                      /\ Fields[i + 1] = "rsp" <=> i = 20
  /\ \A r \in Registers : \E i \in 0..21 : Fields[i + 1] = r
<1>1. \A i \in 0..21 : Fields[i + 1] \in Registers => i \in 0..15 /\ PushOrder[16 - i] = Fields[i + 1]
    BY DEF Fields, Registers, PushOrder
<1>2. \A i \in 0..21 : /\ Fields[i + 1] = "errorCode" <=> i = 16
                       /\ Fields[i + 1] = "rip" <=> i = 17
                       /\ Fields[i + 1] = "rflags" <=> i = 19
                       /\ Fields[i + 1] = "rsp" <=> i = 20
    BY DEF Fields
<1>3. \A r \in Registers : \E i \in 0..21 : Fields[i + 1] = r
    BY DEF Fields, Registers
<1> QED
    BY <1>1, <1>2, <1>3

LEMMA FrameFields ==
  ASSUME NEW c \in Interruption, Framed(c, stack, 22), NEW f, f = Base(c) + 22
  PROVE  /\ \A r \in Registers : Field(f, r) = c.regs[r]
         /\ Field(f, "errorCode") = c.code /\ Field(f, "rip") = c.rip
         /\ Field(f, "rsp") = c.rsp /\ Field(f, "rflags") = c.rflags
<1>1. ASSUME NEW name, \E i \in 0..21 : Fields[i + 1] = name
      PROVE  \E i \in 0..21 : Fields[i + 1] = name /\ Field(f, name) = FrameWord(c, 22 - i)
  <2> DEFINE k == CHOOSE i \in 0..21 : Fields[i + 1] = name
  <2>1. k \in 0..21 /\ Fields[k + 1] = name
      BY <1>1, Zenon
  <2>2. Field(f, name) = FieldAt(f, k)
      BY Zenon DEF Field
  <2> HIDE DEF k
  <2> QED
      BY <2>1, <2>2, FieldWords
<1>2. ASSUME NEW r \in Registers PROVE Field(f, r) = c.regs[r]
  <2>1. PICK i \in 0..21 : Fields[i + 1] = r /\ Field(f, r) = FrameWord(c, 22 - i)
      BY <1>1, FieldOrder
  <2>2. i \in 0..15 /\ PushOrder[16 - i] = r
      BY <2>1, FieldOrder
  <2>3. 22 - i \in 7..22 /\ (22 - i) - 6 = 16 - i
      BY <2>2
  <2>4. FrameWord(c, 22 - i) = Saved(c, r)
      BY <2>2, <2>3, FrameWords
  <2>5. r # "rsp"
      BY DEF Registers
  <2> QED
      BY <2>1, <2>4, <2>5 DEF Saved
<1>3. Field(f, "errorCode") = FrameWord(c, 6) /\ Field(f, "rip") = FrameWord(c, 5)
      /\ Field(f, "rflags") = FrameWord(c, 3) /\ Field(f, "rsp") = FrameWord(c, 2)
  <2>1. /\ Fields[16 + 1] = "errorCode" /\ Fields[17 + 1] = "rip"
        /\ Fields[19 + 1] = "rflags" /\ Fields[20 + 1] = "rsp"
      BY FieldOrder
  <2>2. /\ \E i \in 0..21 : Fields[i + 1] = "errorCode"
        /\ \E i \in 0..21 : Fields[i + 1] = "rip"
        /\ \E i \in 0..21 : Fields[i + 1] = "rflags"
        /\ \E i \in 0..21 : Fields[i + 1] = "rsp"
      BY <2>1
  <2>3. PICK i \in 0..21 : Fields[i + 1] = "errorCode" /\ Field(f, "errorCode") = FrameWord(c, 22 - i)
      BY <1>1, <2>2
  <2>4. PICK j \in 0..21 : Fields[j + 1] = "rip" /\ Field(f, "rip") = FrameWord(c, 22 - j)
      BY <1>1, <2>2
  <2>5. PICK k \in 0..21 : Fields[k + 1] = "rflags" /\ Field(f, "rflags") = FrameWord(c, 22 - k)
      BY <1>1, <2>2
  <2>6. PICK l \in 0..21 : Fields[l + 1] = "rsp" /\ Field(f, "rsp") = FrameWord(c, 22 - l)
      BY <1>1, <2>2
  <2>7. i = 16 /\ j = 17 /\ k = 19 /\ l = 20
      BY <2>3, <2>4, <2>5, <2>6, FieldOrder
  <2> QED
      BY <2>3, <2>4, <2>5, <2>6, <2>7
<1> QED
    BY <1>2, <1>3, FrameWords

LEMMA EntryFacts ==
  ASSUME NestingInv, InHandler, rip = HandlerEntry(VectorAt(rip))
  PROVE  /\ Top \in Interruption /\ Last(interrupted) = Top /\ Top.vector = VectorAt(rip)
         /\ Framed(Top, stack, 22) /\ regs["rdi"] = Base(Top) + 22
<1>1. Depth > 0 /\ HandlerAt(Top, Running, stack) /\ VectorAt(rip) = Top.vector
    BY WhereInHandler
<1>2. Top \in Interruption /\ Last(interrupted) = Top /\ Top.vector \in 0..15
    BY <1>1, TopFacts, Bases
<1>3. rip # HandlerExit(Top.vector)
    BY <1>1, <1>2 DEF HandlerEntry, HandlerExit, Stubs
<1> QED
    BY <1>1, <1>2, <1>3, RunningFields DEF HandlerAt

LEMMA EvenWords == \A n \in Nat : n % 2 = 0 => (n + 22) % 2 = 0
OBVIOUS

LEMMA SafeHandlers == NestingInv => HandlersSafe
<1> SUFFICES ASSUME NestingInv PROVE HandlersSafe
    OBVIOUS
<1>1. FrameMatches
    BY EntryFacts, FrameFields, Zenon DEF FrameMatches
<1>2. CallsAligned
  <2> SUFFICES ASSUME InStub, Instruction = <<"call handler">> PROVE rsp % 2 = 0
      BY DEF CallsAligned
  <2>1. PICK q \in 0..36 : Innermost(q) /\ Instruction = Instr(q)
      BY WhereInStub
  <2>2. q = 18
    <3>1. Instr(q) = <<"call handler">> <=> q = 18
        BY InstrKinds, Zenon
    <3> QED
        BY <2>1, <3>1, Zenon
  <2>3. Depth > 0 /\ StubAt(Top, Running, stack, 18)
      BY <2>1, <2>2 DEF Innermost
  <2>4. rsp = Base(Top) + 22
      BY <2>3, Heights, RunningFields DEF StubAt
  <2>5. Base(Top) \in Nat /\ Base(Top) % 2 = 0
      BY <2>3, TopFacts, Bases
  <2>6. (Base(Top) + 22) % 2 = 0
      BY <2>5, EvenWords, Zenon
  <2> QED
      BY <2>4, <2>6, Zenon
<1>3. InterruptsOff
  <2> SUFFICES ASSUME InStub \/ InHandler PROVE ~intFlag
      BY DEF InterruptsOff
  <2>1. Depth > 0
      BY WhereInStub, WhereInHandler DEF Innermost
  <2> QED
      BY <2>1, TopFacts
<1> QED
    BY <1>1, <1>2, <1>3 DEF HandlersSafe

-----------------------------------------------------------------------------
(* The theorems.                                                           *)

\* Every handler is called on an aligned stack with interrupts off, and finds
\* in its struct interrupt_frame what was interrupted: in a boot with any
\* number of exceptions, nested in one another at any instructions.
THEOREM HandlersFindTheirFrames == Spec => []HandlersSafe
BY AlwaysNested, SafeHandlers, PTL

\* Every iretq gives the code it returns to its instruction, registers, stack
\* and interrupt flag back.
THEOREM ReturnsLeaveNoTrace == Spec => ReturnsUnchanged
<1>1. ASSUME NestingInv, Iretq
      PROVE  LET was == Last(interrupted)
             IN /\ was.vector \notin FaultsAndAborts
                /\ rip' = was.rip /\ regs' = was.regs
                /\ Len(stack') = was.rsp /\ Word(intFlag') = was.rflags
  <2>1. /\ Depth > 0 /\ Top.vector \in 0..15 \ Panics
        /\ rip' = Top.rip /\ regs' = Top.regs /\ Len(stack') = Top.rsp
        /\ Word(intFlag') = Top.rflags
      BY <1>1, IretqFacts DEF rsp
  <2>2. Last(interrupted) = Top
      BY <1>1, <2>1, TopFacts
  <2>3. Top.vector \notin FaultsAndAborts
      BY <2>1 DEF Panics, FaultsAndAborts
  <2> QED
      BY <2>1, <2>2, <2>3, Zenon
<1> QED
    BY <1>1, AlwaysNested, PTL DEF Spec, ReturnsUnchanged

LEMMA ScreenRows ==
  /\ \A i \in 1..16 : regNames[i] \notin {"rsp", "rbp"} =>
       /\ regNames[i] \in Registers
       /\ Fields[(i - 1) + 1] = regNames[i] /\ PanicPushOrder[17 - i] = regNames[i]
  /\ \A i \in 1..16 : i - 1 \in 0..21 /\ (i - 1) + 1 = i
BY DEF regNames, Fields, PanicPushOrder, Registers

\* The panic screen is about the fault, or about kpanic's caller: its rip and
\* every register but the two whose names are swapped.
THEOREM ScreensAreRight == Spec => ScreenRight
<1> DEFINE Shows(screen, context) ==
             /\ screen.rip = context.rip
             /\ \A i \in 1..16 :
                  LET row == screen.registers[i]
                  IN row[1] \notin {"rsp", "rbp"} => row[2] = context.regs[row[1]]
<1>1. ASSUME NEW screen, NEW context, NEW value, screen.rip = context.rip,
             NEW rows, screen.registers = rows,
             \A i \in 1..16 : rows[i][1] = regNames[i] /\ rows[i][2] = value[i],
             \A i \in 1..16 : regNames[i] \notin {"rsp", "rbp"} =>
                                value[i] = context.regs[regNames[i]]
      PROVE  Shows(screen, context)
  <2>3. ASSUME NEW i \in 1..16, screen.registers[i][1] \notin {"rsp", "rbp"}
        PROVE  screen.registers[i][2] = context.regs[screen.registers[i][1]]
      BY <1>1, <2>3, Zenon
  <2> QED
      BY <1>1, <2>3, Zenon
<1>0. ASSUME NEW value
      PROVE  LET rows == [i \in 1..16 |-> <<regNames[i], value[i]>>]
             IN \A i \in 1..16 : rows[i][1] = regNames[i] /\ rows[i][2] = value[i]
    OBVIOUS
<1>2. ASSUME kpanic PROVE Shows(shown'[1], Context)
  <2> DEFINE value == [i \in 1..16 |-> RegisterWord(PanicPushOrder[17 - i])]
             rows == [i \in 1..16 |-> <<regNames[i], value[i]>>]
  <2>1. shown' = <<[rip |-> ReturnAddress,
                    registers |-> [i \in 1..16 |-> <<regNames[i], RegisterWord(PanicPushOrder[17 - i])>>]]>>
        /\ rip \in Main
      BY <1>2, Zenon DEF kpanic
  <2>2. rows = [i \in 1..16 |-> <<regNames[i], RegisterWord(PanicPushOrder[17 - i])>>]
      OBVIOUS
  <2>3. \A i \in 1..16 : value[i] = RegisterWord(PanicPushOrder[17 - i])
      OBVIOUS
  <2> HIDE DEF value, rows
  <2>4. shown' = <<[rip |-> ReturnAddress, registers |-> rows]>>
      BY <2>1, <2>2, Zenon
  <2>5. shown'[1].rip = ReturnAddress /\ shown'[1].registers = rows
      BY <2>4
  <2>6. Context.rip = ReturnAddress /\ Context.regs = regs
      BY <2>1 DEF Context
  <2>7. ASSUME NEW i \in 1..16, regNames[i] \notin {"rsp", "rbp"}
        PROVE  value[i] = Context.regs[regNames[i]]
    <3>1. value[i] = RegisterWord(regNames[i]) /\ regNames[i] # "rsp"
        BY <2>3, <2>7, ScreenRows
    <3> QED
        BY <2>6, <3>1 DEF RegisterWord
  <2>8. \A i \in 1..16 : rows[i][1] = regNames[i] /\ rows[i][2] = value[i]
      BY <1>0, Zenon DEF rows
  <2> HIDE DEF Shows
  <2> QED
      BY <1>1, <2>5, <2>6, <2>7, <2>8
<1>3. ASSUME NestingInv, kpanici PROVE Shows(shown'[1], Context)
  <2> DEFINE f == regs["rdi"]
             value == [i \in 1..16 |-> FieldAt(f, i - 1)]
             rows == [i \in 1..16 |-> <<regNames[i], value[i]>>]
  <2>1. shown' = <<Screen(f)>> /\ InHandler /\ rip = HandlerEntry(VectorAt(rip))
      BY <1>3 DEF kpanici
  <2>2. Screen(f) = [rip |-> Field(f, "rip"), registers |-> rows]
      BY DEF Screen
  <2>3. \A i \in 1..16 : value[i] = FieldAt(f, i - 1)
      OBVIOUS
  <2>4. rip \notin Main
      BY <1>3, <2>1 DEF InHandler, Main
  <2>5. /\ Top \in Interruption /\ Last(interrupted) = Top
        /\ Framed(Top, stack, 22) /\ f = Base(Top) + 22
      BY <1>3, <2>1, EntryFacts
  <2> HIDE DEF value, rows, f
  <2>6. shown'[1] = Screen(f)
      BY <2>1
  <2>7. shown'[1].rip = Field(f, "rip") /\ shown'[1].registers = rows
      BY <2>2, <2>6
  <2>8. Context = Top
      BY <2>4, <2>5 DEF Context
  <2>9. Field(f, "rip") = Top.rip
      BY <2>5, FrameFields
  <2>a. ASSUME NEW i \in 1..16, regNames[i] \notin {"rsp", "rbp"}
        PROVE  value[i] = Top.regs[regNames[i]]
    <3>1. regNames[i] \in Registers /\ Fields[(i - 1) + 1] = regNames[i] /\ i - 1 \in 0..21
        BY <2>a, ScreenRows
    <3>2. value[i] = FrameWord(Top, 22 - (i - 1))
        BY <2>3, <2>5, <3>1, FieldWords
    <3>3. i - 1 \in 0..15 /\ PushOrder[16 - (i - 1)] = regNames[i] /\ regNames[i] # "rsp"
        BY <2>a, <3>1, FieldOrder
    <3>4. 22 - (i - 1) \in 7..22 /\ (22 - (i - 1)) - 6 = 16 - (i - 1)
        BY <3>3
    <3>5. FrameWord(Top, 22 - (i - 1)) = Saved(Top, regNames[i])
        BY <3>3, <3>4, FrameWords
    <3> QED
        BY <3>2, <3>3, <3>5 DEF Saved
  <2>b. \A i \in 1..16 : rows[i][1] = regNames[i] /\ rows[i][2] = value[i]
      BY <1>0, Zenon DEF rows
  <2> HIDE DEF Shows
  <2> QED
      BY <1>1, <2>7, <2>8, <2>9, <2>a, <2>b
<1>4. ASSUME NestingInv, [Next]_vars, shown' # shown PROVE Shows(shown'[1], Context)
  <2>1. kpanic \/ kpanici
      BY <1>4, Zenon DEF Next, Instructions, vars, PushZero, PushRegister, PassFrame,
         CallHandler, PopRegister, PopRsp, PopErrorCode, Iretq, HandlerLogs, HandlerReturns,
         MainStack, MainFlag, Exception, NonMaskable, Deliver
  <2> QED
      BY <1>2, <1>3, <1>4, <2>1
<1>5. NestingInv /\ [Next]_vars =>
        (shown' # shown =>
           /\ shown'[1].rip = Context.rip
           /\ \A i \in 1..16 : LET row == shown'[1].registers[i]
                               IN row[1] \notin {"rsp", "rbp"} => row[2] = Context.regs[row[1]])
    BY <1>4, Zenon
<1> QED
    BY <1>5, AlwaysNested, PTL DEF Spec, ScreenRight
=============================================================================
