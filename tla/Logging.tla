------------------------------ MODULE Logging ------------------------------
(***************************************************************************)
(* util/logging.c: the formatted messages of logkf, errkf, warnkf and      *)
(* debugkf.  va_msprintf goes through the format once per percent sign and *)
(* takes one argument from the va_list for each conversion; the message is *)
(* then printed behind a time stamp and a tag, and its buffer freed.       *)
(*                                                                         *)
(* A format is a sequence of characters; it is chosen as a sequence of     *)
(* tokens, so that what it means is known without parsing it.  What        *)
(* ultoa, ltoa and ltox print for a number is in module Numbers; here the  *)
(* output is a sequence of pieces that name the number.                    *)
(***************************************************************************)
EXTENDS Integers, Sequences, SequencesExt

CONSTANTS
  Tokens,          \* tokens a format may have
  MaxTokens,
  Args,            \* registers passed as arguments
  WidthOf,         \* bits of 1, 2, 4 and 8 bytes, scaled down
  Room,            \* bytes of the first buffer beyond the length of the format
  Times,           \* nanoseconds at which a message may be logged
  Kilo,            \* 1000
  StampWidth       \* characters of the stamp before its point

VARIABLES
  tokens, args,    \* the call
  fmt,             \* its format
  offs,            \* what is left of it starts here
  taken,           \* arguments taken from the va_list
  out,             \* pieces in the buffer
  room,            \* bytes the buffer has
  now,             \* when the message is logged, -1 before the timer is set up
  held,            \* whether the buffer is allocated
  printed,         \* what fbPrint got, with the colour
  pc

vars == <<tokens, args, fmt, offs, taken, out, room, now, held, printed, pc>>
call == <<tokens, args, fmt>>

-----------------------------------------------------------------------------
(* Formats and arguments.                                                  *)

Lengths == [none |-> <<>>, hh |-> <<"h", "h">>, h |-> <<"h">>, l |-> <<"l">>, z |-> <<"z">>]
Kinds == {"c", "s", "p", "x", "u", "d"}
Specs == [len : DOMAIN Lengths, kind : Kinds]
Text == [len |-> "none", kind |-> "text"]
Percent == [len |-> "none", kind |-> "percent"]

IsSpec(t) == t.kind \in Kinds

Chars(t) ==
  CASE t = Text -> <<"a">>
    [] t = Percent -> <<"%", "%">>
    [] IsSpec(t) -> <<"%">> \o Lengths[t.len] \o <<t.kind>>

Signed(v, w) == IF v % 2^w < 2^(w - 1) THEN v % 2^w ELSE (v % 2^w) - 2^w

\* Bytes of the argument of a conversion, by its length and kind.
BytesOf(len, kind) ==
  IF kind \in {"p", "s"} \/ len \in {"l", "z"} THEN 8
  ELSE IF len = "hh" THEN 1 ELSE IF len = "h" THEN 2 ELSE 4

\* Arguments a caller may pass: a char or short was promoted to int.
ArgOk(t, a) ==
  t.len \in {"hh", "h"} /\ t.kind \in {"u", "d"} =>
    LET w == WidthOf[BytesOf(t.len, t.kind)]
    IN Signed(a, WidthOf[4]) \in IF t.kind = "u" THEN 0..(2^w - 1) ELSE (-(2^(w - 1)))..(2^(w - 1) - 1)

Piece(k, v) == [kind |-> k, v |-> v]

\* strlen of a string argument; the address stands for a length.
LenOf(s) == s % 4

\* Characters of a piece; a number has at most as many as it has bits and a sign.
SizeOf(p) ==
  IF p.kind = "str" THEN LenOf(p.v) ELSE IF p.kind = "text" THEN 1 ELSE WidthOf[8] + 1

RECURSIVE Used(_)
Used(o) == IF o = <<>> THEN 0 ELSE SizeOf(Head(o)) + Used(Tail(o))

-----------------------------------------------------------------------------
(* va_msprintf                                                             *)

\* msp_append: krealloc keeps a buffer that is large enough.
MspAppend(ps) ==
  /\ out' = out \o ps
  /\ room' = IF room >= Used(out) + Used(ps) + 1 THEN room ELSE Used(out) + Used(ps) + 1

Texts(n) == [i \in 1..n |-> Piece("text", "a")]

At(i) == IF i <= Len(fmt) THEN fmt[i] ELSE "end"

\* The first percent sign from offs on.
NextPercent(i) ==
  /\ i \in offs..Len(fmt) /\ fmt[i] = "%"
  /\ \A j \in offs..(i - 1) : fmt[j] # "%"

\* Mutated: one h is skipped for hh.
LengthAtOnce(i) ==
  IF At(i) = "h" THEN [len |-> IF At(i + 1) = "h" THEN "hh" ELSE "h", used |-> 1]
  ELSE IF At(i) \in {"l", "z"} THEN [len |-> At(i), used |-> 1]
  ELSE [len |-> "none", used |-> 0]

\* The length before a conversion, and the characters it takes.
LengthAt(i) ==
  IF At(i) = "h" /\ At(i + 1) = "h" THEN [len |-> "hh", used |-> 2]
  ELSE IF At(i) \in {"h", "l", "z"} THEN [len |-> At(i), used |-> 1]
  ELSE [len |-> "none", used |-> 0]

\* va_arg: of an int the high half of the register is dropped.
Value(a, bytes) == IF bytes = 8 THEN Signed(a, WidthOf[8]) ELSE Signed(a, WidthOf[4])

\* What a conversion appends; a character 0 ends the string it is copied from.
Converted(kind, v, bytes) ==
  CASE kind = "c" -> IF v % 2^WidthOf[1] = 0 THEN <<>> ELSE <<Piece("text", v % 2^WidthOf[1])>>
    [] kind = "s" -> <<Piece("str", v % 2^WidthOf[8])>>
    [] kind \in {"p", "x"} -> <<Piece("hex", <<v % 2^WidthOf[bytes], bytes>>)>>
    [] kind = "u" -> <<Piece("dec", v % 2^WidthOf[8])>>
    [] kind = "d" -> <<Piece("dec", v)>>
    [] OTHER -> <<>>

\* Every conversion takes an argument, known or not.
Take == taken + 1

\* What va_arg gives when the caller passed no such argument: any register.
ArgAt(n) == IF n <= Len(args) THEN {args[n]} ELSE Args

Conversion(i) ==
  LET l == LengthAt(i + 1)
      k == i + 1 + l.used
      kind == At(k)
      bytes == BytesOf(l.len, kind)
  IN \E a \in ArgAt(taken + 1) :
       /\ MspAppend(Texts(i - offs) \o Converted(kind, Value(a, bytes), bytes))
       /\ taken' = Take
       /\ offs' = k + 1
       /\ pc' = IF kind = "end" THEN "overrun" ELSE "format"
       /\ UNCHANGED <<call, now, held, printed>>

\* The second percent sign is not skipped.
PercentSign(i) ==
  /\ MspAppend(Texts(i - offs) \o <<Piece("text", "%")>>)
  /\ offs' = i + 1
  /\ UNCHANGED <<call, taken, now, held, printed, pc>>

RestOfText ==
  /\ offs <= Len(fmt) /\ ~\E i \in offs..Len(fmt) : fmt[i] = "%"
  /\ MspAppend(Texts(Len(fmt) + 1 - offs))
  /\ offs' = Len(fmt) + 1
  /\ UNCHANGED <<call, taken, now, held, printed, pc>>

Formatted ==
  /\ offs = Len(fmt) + 1
  /\ pc' = "log"
  /\ UNCHANGED <<call, offs, taken, out, room, now, held, printed>>

Format ==
  /\ pc = "format"
  /\ \/ \E i \in offs..Len(fmt) : NextPercent(i) /\ At(i + 1) # "%" /\ Conversion(i)
     \/ \E i \in offs..Len(fmt) : NextPercent(i) /\ At(i + 1) = "%" /\ PercentSign(i)
     \/ RestOfText
     \/ Formatted

-----------------------------------------------------------------------------
(* logk, errk, warnk, debugk: a stamp, a tag and the message.              *)

Tags == [L |-> "green", E |-> "red", W |-> "yellow", D |-> "blue"]

\* Characters of a stamp that are no digits.
Blank == 100
Point == 101

RECURSIVE DecimalText(_)
DecimalText(n) == IF n < 10 THEN <<n>> ELSE Append(DecimalText(n \div 10), n % 10)

Pad(t, p, n) == [i \in 1..(IF n > Len(t) THEN n - Len(t) ELSE 0) |-> p] \o t

Micros(t, n) == SubSeq(Pad(t, 0, n), 1, n)

\* logTimer: the milliseconds in StampWidth characters, a point and what is
\* left in microseconds, in as many digits as they need.
Stamp(nanos) ==
  LET micros == nanos \div Kilo
      millis == micros \div Kilo
  IN SubSeq(Pad(DecimalText(millis), Blank, StampWidth), 1, StampWidth)
       \o <<Point>> \o Micros(DecimalText(micros % Kilo), Len(DecimalText(Kilo - 1)))

LogLine(stamp, tag) ==
  <<[col |-> "green", text |-> stamp]>>
    \o (IF tag = "L" THEN <<>> ELSE <<[col |-> Tags[tag], text |-> <<tag>>]>>)
    \o <<[col |-> "white", text |-> out]>>

\* isTimerSetup: before that the stamp is blank.
Log ==
  /\ pc = "log"
  /\ now' \in Times \cup {-1}
  /\ \E tag \in DOMAIN Tags :
       printed' = LogLine(IF now' = -1 THEN <<Blank>> ELSE Stamp(now'), tag)
  /\ held' = FALSE
  /\ pc' = "done"
  /\ UNCHANGED <<call, offs, taken, out, room>>

Init ==
  /\ tokens \in UNION {[1..n -> Tokens] : n \in 0..MaxTokens}
  /\ LET specs == SelectSeq(tokens, IsSpec) IN
       /\ args \in [1..Len(specs) -> Args]
       /\ \A i \in DOMAIN specs : ArgOk(specs[i], args[i])
  /\ fmt = FlattenSeq([i \in DOMAIN tokens |-> Chars(tokens[i])])
  /\ offs = 1
  /\ taken = 0
  /\ out = <<>>
  /\ room = Len(fmt) + Room
  /\ now = -1
  /\ held = TRUE
  /\ printed = <<>>
  /\ pc = "format"

Next == Format \/ Log
Spec == Init /\ [][Next]_vars
-----------------------------------------------------------------------------
(* Properties.                                                             *)

SpecsBefore(i) == Len(SelectSeq(SubSeq(tokens, 1, i), IsSpec))

\* What a conversion means by the comment at va_msprintf.
Means(t, a) ==
  LET b == BytesOf(t.len, t.kind)
      w == WidthOf[IF b = 8 THEN 8 ELSE 4]
  IN CASE t.kind = "u" -> <<Piece("dec", a % 2^w)>>
       [] t.kind = "d" -> <<Piece("dec", Signed(a, w))>>
       [] t.kind \in {"x", "p"} -> <<Piece("hex", <<a % 2^WidthOf[b], b>>)>>
       [] t.kind = "s" -> <<Piece("str", a % 2^w)>>
       [] t.kind = "c" -> IF a % 2^WidthOf[1] = 0 THEN <<>>
                          ELSE <<Piece("text", a % 2^WidthOf[1])>>

Meaning ==
  FlattenSeq([i \in DOMAIN tokens |->
    CASE tokens[i] = Text -> <<Piece("text", "a")>>
      [] tokens[i] = Percent -> <<Piece("text", "%")>>
      [] IsSpec(tokens[i]) -> Means(tokens[i], args[SpecsBefore(i)])])

Ended == pc \in {"log", "overrun"}

\* %u reads an int and extends its sign: right below half of the range only.
LargeUnsigned(t, a) ==
  t = [len |-> "none", kind |-> "u"] /\ a % 2^WidthOf[4] >= 2^(WidthOf[4] - 1)

\* A percent sign takes an argument from the conversions behind it.
Understood ==
  \A i \in DOMAIN tokens :
    tokens[i] # Percent /\ (IsSpec(tokens[i]) => ~LargeUnsigned(tokens[i], args[SpecsBefore(i)]))

\* Every conversion shows its own argument, whatever lengths and texts stand
\* before it, none is left over, and the terminator fits behind every piece.
OutputRight ==
  /\ Ended /\ Understood => out = Meaning /\ taken = Len(args) /\ pc = "log"
  /\ Used(out) + 1 <= room

\* Until the milliseconds outgrow the stamp, it shows the time to the microsecond.
StampRight ==
  pc = "done" /\ now >= 0 /\ now \div (Kilo * Kilo) < 10^StampWidth =>
    LET s == printed[1].text
        digits == SelectSeq(s, LAMBDA c : c \in 0..9)
        shown[i \in 0..Len(digits)] == IF i = 0 THEN 0 ELSE 10 * shown[i - 1] + digits[i]
    IN shown[Len(digits)] = now \div Kilo /\ s[StampWidth + 1] = Point

\* A logged line says what its format, its arguments and its time mean.
MessageRight == OutputRight /\ StampRight
=============================================================================
