------------------------------ MODULE Terminal ------------------------------
(***************************************************************************)
(* What the console promises to whoever prints: a screen of characters, a  *)
(* cursor that breaks a full line when the next character comes, and a     *)
(* scroll by two lines.  Characters in Hidden are printed but not kept:    *)
(* the icon is drawn over them.                                            *)
(***************************************************************************)
EXTENDS Integers

CONSTANTS
  MaxX, MaxY,   \* ttyMaxX, ttyMaxY
  Chars,        \* characters that are drawn
  Blank,        \* the one that draws nothing
  Hidden        \* cells under the icon: the top of some columns

Cells == (0..(MaxX - 1)) \X (0..(MaxY - 1))

TerminalAssumption ==
  /\ MaxX \in Nat \ {0}
  /\ MaxY \in Nat /\ MaxY >= 2
  /\ Blank \in Chars
  /\ Hidden \subseteq Cells
  /\ \A c \in Hidden : \A y \in 0..c[2] : <<c[1], y>> \in Hidden

VARIABLES
  text,        \* the character in each cell
  x, y,        \* ttyXPos, ttyYPos
  afterCr      \* whether the last character was a carriage return

vars == <<text, x, y, afterCr>>

TypeOK ==
  /\ text \in [Cells \ Hidden -> Chars]
  /\ x \in 0..MaxX
  /\ y \in 0..(MaxY - 1)
  /\ afterCr \in BOOLEAN

Init ==
  /\ text = [c \in Cells \ Hidden |-> Blank]
  /\ x = 0
  /\ y = 0
  /\ afterCr = FALSE

Lines == 2   \* lines a scroll moves

Scrolled(t) ==
  [c \in Cells \ Hidden |->
     IF c[2] + Lines < MaxY THEN t[<<c[1], c[2] + Lines>>] ELSE Blank]

\* The text and the line after a line break on line l.
Broken(t, l) == IF l + 1 >= MaxY THEN Scrolled(t) ELSE t
LineAfter(l) == IF l + 1 >= MaxY THEN MaxY - Lines ELSE l + 1

Full == x >= MaxX

\* A full line breaks before anything else is done with a character.
TextFrom == IF Full THEN Broken(text, y) ELSE text
LineFrom == IF Full THEN LineAfter(y) ELSE y
ColumnFrom == IF Full THEN 0 ELSE x

Drawn(t, c, ch) == [d \in DOMAIN t |-> IF d = c THEN ch ELSE t[d]]

Put(ch) ==
  /\ text' = Drawn(TextFrom, <<ColumnFrom, LineFrom>>, ch)
  /\ x' = ColumnFrom + 1
  /\ y' = LineFrom
  /\ afterCr' = FALSE

Break(cr) ==
  /\ text' = Broken(TextFrom, LineFrom)
  /\ x' = 0
  /\ y' = LineAfter(LineFrom)
  /\ afterCr' = cr

\* The line feed of a carriage return and line feed breaks no second line.
FeedAfterCr ==
  /\ afterCr
  /\ text' = TextFrom
  /\ x' = ColumnFrom
  /\ y' = LineFrom
  /\ afterCr' = FALSE

LineFeed == FeedAfterCr \/ (~afterCr /\ Break(FALSE))
Return == Break(TRUE)

\* fbNewln called by itself: a full line breaks once.
NewLine ==
  /\ text' = Broken(text, y)
  /\ x' = 0
  /\ y' = LineAfter(y)
  /\ UNCHANGED afterCr

Next == (\E ch \in Chars : Put(ch)) \/ LineFeed \/ Return \/ NewLine
Spec == Init /\ [][Next]_vars
-----------------------------------------------------------------------------
\* Nothing printed is printed over: from the cursor on the screen is blank.
AheadBlank ==
  \A c \in DOMAIN text :
    c[2] > y \/ (c[2] = y /\ c[1] >= x) => text[c] = Blank
=============================================================================
