------------------------------ MODULE Console ------------------------------
(***************************************************************************)
(* The console of graphics/framebuffer.c: characters drawn as pixels, the  *)
(* scroll that copies pixels, the background picture that shows through    *)
(* wherever nothing is printed, and the icon in the upper right corner.    *)
(*                                                                         *)
(* A pixel is named by its index in the frame buffer.  What it holds is    *)
(* one of four kinds; all but ink have an alpha of 0, which is how the     *)
(* scroll tells them apart.                                                *)
(***************************************************************************)
EXTENDS Integers

CONSTANTS
  Width, Height,     \* framebufWidth, framebufHeight
  CellW, CellH,      \* FONT_WIDTH2, FONT_HEIGHT2
  IconW, IconH,      \* ICON_WIDTH, ICON_HEIGHT
  Chars, Blank,
  Glyph              \* the pixels each character lights: pairs of offsets

ttyMaxX == Width \div CellW
ttyMaxY == Height \div CellH
Pixels == 0..(Width * Height - 1)

ASSUME ConsoleAssumption ==
  /\ CellW \in Nat \ {0} /\ CellH \in Nat \ {0}
  /\ Width \in Nat /\ Height \in Nat /\ ttyMaxX >= 1 /\ ttyMaxY >= 2
  /\ IconW \in 0..Width /\ IconH \in 0..Height
  /\ Glyph \in [Chars -> SUBSET ((0..(CellW - 1)) \X (0..(CellH - 1)))]
  /\ Blank \in Chars /\ Glyph[Blank] = {}

VARIABLES
  framebuf,
  altBuf,                 \* whether there is a background picture
  ttyXPos, ttyYPos,
  ttyLastChar             \* "cr", or anything else

vars == <<framebuf, altBuf, ttyXPos, ttyYPos, ttyLastChar>>

Black == [kind |-> "black", at |-> 0]
Ink == [kind |-> "ink", at |-> 0]
Icon == [kind |-> "icon", at |-> 0]
Alt(i) == [kind |-> "alt", at |-> i]   \* altBuf[i]

X(i) == i % Width
Y(i) == i \div Width

InIcon(i) == X(i) >= Width - IconW /\ Y(i) < IconH

\* Blended over what is there or, without a background, drawn as it is: the
\* alpha is 0 in both cases.
fbDrawIcon(f) == [i \in Pixels |-> IF InIcon(i) THEN Icon ELSE f[i]]

\* fbFill with the background colour and fbDrawIcon, before anything is printed.
Init ==
  /\ framebuf = fbDrawIcon([i \in Pixels |-> Black])
  /\ altBuf = FALSE
  /\ ttyXPos = 0
  /\ ttyYPos = 0
  /\ ttyLastChar = "none"

\* fbMagicRect: what is black shows the background.
Magic(f) == [i \in Pixels |-> IF f[i] = Black THEN Alt(i) ELSE f[i]]

\* fbSetup, when pmm_alloc had the memory.
fbSetup ==
  /\ ~altBuf
  /\ altBuf' = TRUE
  /\ framebuf' = fbDrawIcon(Magic(framebuf))
  /\ UNCHANGED <<ttyXPos, ttyYPos, ttyLastChar>>

-----------------------------------------------------------------------------
(* fbNewln                                                                 *)

\* Mutated: one line is scrolled, but the cursor goes up by two.
ScrollSrcShort == Width * CellH

ScrollSrc == Width * CellH * 2

\* Mutated: a pixel of the background moves with the text.
CopiedBlind(f, i) == f[i + ScrollSrc]

Copied(f, i) ==
  IF altBuf /\ f[i + ScrollSrc].kind # "ink" THEN Alt(i) ELSE f[i + ScrollSrc]

Cleared(i) == IF altBuf THEN Alt(i) ELSE Black

Scrolled(f) ==
  fbDrawIcon([i \in Pixels |-> IF i + ScrollSrc \in Pixels THEN Copied(f, i) ELSE Cleared(i)])

\* Mutated: what is left below the last line counts as a line.
BreaksLate(l) == l >= ttyMaxY

Breaks(l) == l + 1 >= ttyMaxY

\* The frame buffer and the line after fbNewln on line l.
Broken(f, l) == IF Breaks(l) THEN Scrolled(f) ELSE f
LineAfter(l) == IF Breaks(l) THEN ttyMaxY - 2 ELSE l + 1

fbNewln ==
  /\ framebuf' = Broken(framebuf, ttyYPos)
  /\ ttyXPos' = 0
  /\ ttyYPos' = LineAfter(ttyYPos)
  /\ UNCHANGED <<altBuf, ttyLastChar>>

-----------------------------------------------------------------------------
(* fbPutc                                                                  *)

InCell(i, cx, cy) == X(i) \div CellW = cx /\ Y(i) \div CellH = cy
Lit(i, ch) == <<X(i) % CellW, Y(i) % CellH>> \in Glyph[ch]

\* fbChar: the pixels that are not lit turn black, then into the background.
fbChar(f, cx, cy, ch) ==
  [i \in Pixels |->
     IF ~InCell(i, cx, cy) THEN f[i]
     ELSE IF Lit(i, ch) THEN Ink
     ELSE IF altBuf THEN Alt(i) ELSE Black]

\* A line that is full breaks first.
Full == ttyXPos >= ttyMaxX
FrameFrom == IF Full THEN Broken(framebuf, ttyYPos) ELSE framebuf
LineFrom == IF Full THEN LineAfter(ttyYPos) ELSE ttyYPos
ColumnFrom == IF Full THEN 0 ELSE ttyXPos

Draw(ch) ==
  /\ framebuf' = fbChar(FrameFrom, ColumnFrom, LineFrom, ch)
  /\ ttyXPos' = ColumnFrom + 1
  /\ ttyYPos' = LineFrom
  /\ ttyLastChar' = "none"
  /\ UNCHANGED altBuf

Break(last) ==
  /\ framebuf' = Broken(FrameFrom, LineFrom)
  /\ ttyXPos' = 0
  /\ ttyYPos' = LineAfter(LineFrom)
  /\ ttyLastChar' = last
  /\ UNCHANGED altBuf

LineFeed ==
  IF ttyLastChar # "cr" THEN Break("none")
  ELSE /\ framebuf' = FrameFrom
       /\ ttyXPos' = ColumnFrom
       /\ ttyYPos' = LineFrom
       /\ ttyLastChar' = "none"
       /\ UNCHANGED altBuf

fbPutc == (\E ch \in Chars : Draw(ch)) \/ LineFeed \/ Break("cr")

Next == fbSetup \/ fbNewln \/ fbPutc
Spec == Init /\ [][Next]_vars
-----------------------------------------------------------------------------
(* Properties.                                                             *)

\* Every pixel a scroll, a character or the icon left behind is ink, the icon
\* in its place or the background that belongs there, with or without altBuf:
\* neither the picture nor the icon moves with the text.  No ink gets below the
\* last whole line, which no scroll would clear.
BackgroundStays ==
  \A i \in Pixels :
    \/ Y(i) < ttyMaxY * CellH /\ framebuf[i] = Ink
    \/ framebuf[i] \in {Icon, Alt(i)} /\ InIcon(i)
    \/ framebuf[i] = (IF altBuf THEN Alt(i) ELSE Black)

PixelsOf(c) == {i \in Pixels : InCell(i, c[1], c[2])}

HiddenCells ==
  {c \in (0..(ttyMaxX - 1)) \X (0..(ttyMaxY - 1)) : \E i \in PixelsOf(c) : InIcon(i)}

\* The pixels of a cell that hold ink, by their place in it, and a character
\* that lights just these: characters that look the same are read as one.
Inked(f, c) ==
  {<<X(i) % CellW, Y(i) % CellH>> : i \in {j \in PixelsOf(c) : f[j] = Ink}}
CharOf(lit) == CHOOSE ch \in Chars : Glyph[ch] = lit

ShownCells == ((0..(ttyMaxX - 1)) \X (0..(ttyMaxY - 1))) \ HiddenCells
Shown == [c \in ShownCells |-> CharOf(Inked(framebuf, c))]

Text == INSTANCE Terminal WITH
  MaxX <- ttyMaxX, MaxY <- ttyMaxY, Hidden <- HiddenCells, Blank <- CharOf({}),
  text <- Shown, x <- ttyXPos, y <- ttyYPos, afterCr <- ttyLastChar = "cr"

\* Read as characters, the pixels outside the icon are a Terminal.
TerminalSpec == Text!Spec

\* No character is drawn over another, also right after a scroll.
NothingAhead == Text!AheadBlank
=============================================================================
