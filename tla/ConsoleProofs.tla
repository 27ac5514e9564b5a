---------------------------- MODULE ConsoleProofs ----------------------------
(***************************************************************************)
(* The console on a frame buffer, a font and an icon of any size: what is  *)
(* not ink is the background that belongs there, and the ink reads as the  *)
(* text of a Terminal that prints over nothing.                            *)
(***************************************************************************)
EXTENDS Console, TLAPS

-----------------------------------------------------------------------------
(* Places of pixels.                                                       *)

LEMMA Quotient ==
  ASSUME NEW n \in Nat, NEW d \in Nat \ {0}
  PROVE  /\ n \div d \in Nat /\ n % d \in 0..(d - 1)
         /\ n = d * (n \div d) + (n % d)
<1>1. n \div d \in Int /\ n % d \in 0..(d - 1) /\ n = d * (n \div d) + (n % d)
    OBVIOUS
<1> DEFINE q == n \div d
<1>2. n < d * q + d
    BY <1>1
<1> HIDE DEF q
<1>3. q >= 0
  <2>1. q < 0 => d * (-q) >= d
      BY <1>1 DEF q
  <2> QED
      BY <1>1, <1>2, <2>1 DEF q
<1> QED
    BY <1>1, <1>3 DEF q

\* A quotient and a remainder are the only ones.
LEMMA OneQuotient ==
  ASSUME NEW d \in Nat \ {0}, NEW q \in Nat, NEW r \in 0..(d - 1)
  PROVE  /\ d * q + r \in Nat
         /\ (d * q + r) \div d = q /\ (d * q + r) % d = r
<1> DEFINE n == d * q + r
           p == n \div d
           s == n % d
<1>1. n \in Nat /\ d * q \in Nat
    OBVIOUS
<1>2. p \in Nat /\ s \in 0..(d - 1) /\ n = d * p + s
    BY <1>1, Quotient
<1>3. d * p + s = d * q + r
    BY <1>2
<1> HIDE DEF n, p, s
<1>4. ~(p > q)
  <2>1. p > q => d * p = d * q + d + d * (p - q - 1) /\ d * (p - q - 1) \in Nat
      BY <1>2
  <2> QED
      BY <1>1, <1>2, <1>3, <2>1
<1>5. ~(q > p)
  <2>1. q > p => d * q = d * p + d + d * (q - p - 1) /\ d * (q - p - 1) \in Nat
      BY <1>2
  <2> QED
      BY <1>1, <1>2, <1>3, <2>1
<1>6. p = q
    BY <1>2, <1>4, <1>5
<1>7. s = r
    BY <1>1, <1>2, <1>3, <1>6
<1> QED
    BY <1>1, <1>6, <1>7 DEF n, p, s

\* A multiple below a multiple is below it by as many whole steps.
LEMMA Monotone ==
  ASSUME NEW d \in Nat \ {0}, NEW p \in Nat, NEW q \in Nat
  PROVE  /\ d * p \in Nat
         /\ p <= q => d * p <= d * q
         /\ p < q => d * p + d <= d * q
<1>1. \A k \in Nat : d * k \in Nat
    OBVIOUS
<1>2. ASSUME p <= q PROVE d * p <= d * q
  <2>1. d * q = d * p + d * (q - p) /\ d * (q - p) \in Nat
      BY <1>2
  <2> QED
      BY <1>1, <2>1
<1>3. ASSUME p < q PROVE d * p + d <= d * q
  <2>1. d * q = d * p + d + d * (q - p - 1) /\ d * (q - p - 1) \in Nat
      BY <1>3
  <2> QED
      BY <1>1, <2>1
<1> QED
    BY <1>1, <1>2, <1>3

LEMMA Sizes ==
  /\ Width \in Nat \ {0} /\ Height \in Nat \ {0}
  /\ CellW \in Nat \ {0} /\ CellH \in Nat \ {0}
  /\ ttyMaxX \in Nat \ {0} /\ ttyMaxY \in Nat /\ ttyMaxY >= 2
  /\ CellW * ttyMaxX <= Width /\ CellH * ttyMaxY <= Height
  /\ Height < CellH * ttyMaxY + CellH
<1>1. /\ CellW \in Nat \ {0} /\ CellH \in Nat \ {0} /\ Width \in Nat /\ Height \in Nat
      /\ ttyMaxX >= 1 /\ ttyMaxY >= 2
    BY ConsoleAssumption
<1>2. /\ ttyMaxX \in Nat /\ Width % CellW \in Nat
      /\ Width = CellW * ttyMaxX + (Width % CellW)
    BY <1>1, Quotient DEF ttyMaxX
<1>3. /\ ttyMaxY \in Nat /\ Height % CellH \in 0..(CellH - 1)
      /\ Height = CellH * ttyMaxY + (Height % CellH)
    BY <1>1, Quotient DEF ttyMaxY
<1> DEFINE w == CellW * ttyMaxX
           h == CellH * ttyMaxY
<1>4. CellW * 1 <= w /\ w \in Nat /\ CellH * 1 <= h /\ h \in Nat
    BY <1>1, <1>2, <1>3, Monotone
<1> HIDE DEF w, h
<1>5. Width = w + (Width % CellW) /\ Height = h + (Height % CellH)
    BY <1>2, <1>3 DEF w, h
<1> QED
    BY <1>1, <1>2, <1>3, <1>4, <1>5 DEF w, h

\* A pixel has its column and its row, and any column and row have a pixel.
LEMMA PixelXY ==
  ASSUME NEW i \in Pixels
  PROVE  X(i) \in 0..(Width - 1) /\ Y(i) \in 0..(Height - 1) /\ i = Width * Y(i) + X(i)
<1>1. i \in Nat /\ i < Width * Height
    BY Sizes DEF Pixels
<1>2. Y(i) \in Nat /\ X(i) \in 0..(Width - 1) /\ i = Width * Y(i) + X(i)
    BY <1>1, Sizes, Quotient DEF X, Y
<1>3. Y(i) < Height
  <2> SUFFICES ASSUME Height <= Y(i) PROVE FALSE
      BY <1>2, Sizes
  <2>1. Width * Height <= Width * Y(i) /\ Width * Y(i) \in Nat /\ Width * Height \in Nat
      BY <1>2, Sizes, Monotone
  <2> QED
      BY <1>1, <1>2, <2>1
<1> QED
    BY <1>2, <1>3, Sizes

LEMMA PixelAt ==
  ASSUME NEW px \in 0..(Width - 1), NEW py \in Nat
  PROVE  /\ Width * py + px \in Nat
         /\ X(Width * py + px) = px /\ Y(Width * py + px) = py
         /\ Width * py + px \in Pixels <=> py < Height
<1>1. /\ Width * py + px \in Nat
      /\ X(Width * py + px) = px /\ Y(Width * py + px) = py
    BY Sizes, OneQuotient DEF X, Y
<1> DEFINE p == Width * py + px
<1>2. p \in Pixels => py < Height
  <2>1. p \in Pixels => Y(p) \in 0..(Height - 1)
      BY PixelXY
  <2> QED
      BY <1>1, <2>1, Sizes
<1>3. py < Height => p < Width * Height
  <2>1. py < Height => Width * py + Width <= Width * Height
      BY Sizes, Monotone
  <2>2. Width * py \in Nat /\ Width * Height \in Nat
      BY Sizes, Monotone
  <2> QED
      BY <2>1, <2>2, Sizes
<1>4. Width * Height \in Nat
    BY Sizes, Monotone
<1> HIDE DEF p
<1>5. py < Height => p \in Pixels
    BY <1>1, <1>3, <1>4 DEF Pixels, p
<1> QED
    BY <1>1, <1>2, <1>5 DEF p

\* What a scroll copies comes from the same column, two lines below.
LEMMA ScrollXY ==
  ASSUME NEW i \in Pixels
  PROVE  /\ i + ScrollSrc \in Nat
         /\ X(i + ScrollSrc) = X(i) /\ Y(i + ScrollSrc) = Y(i) + 2 * CellH
         /\ i + ScrollSrc \in Pixels <=> Y(i) + 2 * CellH < Height
<1>1. X(i) \in 0..(Width - 1) /\ Y(i) \in Nat /\ i = Width * Y(i) + X(i)
    BY PixelXY
<1> DEFINE py == Y(i) + 2 * CellH
<1>2. py \in Nat
    BY <1>1, Sizes
<1>3. i + ScrollSrc = Width * py + X(i)
  <2>1. ScrollSrc = Width * (2 * CellH)
      BY Sizes DEF ScrollSrc
  <2>2. Width * py = Width * Y(i) + Width * (2 * CellH)
      BY <1>1, Sizes
  <2>3. Width * py \in Nat /\ Width * Y(i) \in Nat /\ Width * (2 * CellH) \in Nat
      BY <1>1, <1>2, Sizes, Monotone
  <2> HIDE DEF py
  <2> QED
      BY <1>1, <2>1, <2>2, <2>3
<1> HIDE DEF py
<1> QED
    BY <1>1, <1>2, <1>3, PixelAt DEF py

-----------------------------------------------------------------------------
(* Cells.                                                                  *)

Screen == (0..(ttyMaxX - 1)) \X (0..(ttyMaxY - 1))

Offsets == (0..(CellW - 1)) \X (0..(CellH - 1))

OffsetIn(i) == <<X(i) % CellW, Y(i) % CellH>>

LEMMA CellXY ==
  ASSUME NEW i \in Pixels
  PROVE  /\ X(i) \div CellW \in Nat /\ X(i) % CellW \in 0..(CellW - 1)
         /\ X(i) = CellW * (X(i) \div CellW) + (X(i) % CellW)
         /\ Y(i) \div CellH \in Nat /\ Y(i) % CellH \in 0..(CellH - 1)
         /\ Y(i) = CellH * (Y(i) \div CellH) + (Y(i) % CellH)
         /\ OffsetIn(i) \in Offsets
<1>1. X(i) \in Nat /\ Y(i) \in Nat
    BY PixelXY
<1> QED
    BY <1>1, Sizes, Quotient DEF OffsetIn, Offsets

LEMMA ScrollCell ==
  ASSUME NEW i \in Pixels
  PROVE  /\ (Y(i) + 2 * CellH) \div CellH = (Y(i) \div CellH) + 2
         /\ (Y(i) + 2 * CellH) % CellH = Y(i) % CellH
<1> DEFINE q == Y(i) \div CellH
           r == Y(i) % CellH
<1>1. q \in Nat /\ r \in 0..(CellH - 1) /\ Y(i) = CellH * q + r
    BY CellXY
<1> HIDE DEF q, r
<1>2. CellH * (q + 2) = CellH * q + 2 * CellH /\ CellH * q \in Nat
    BY <1>1, Sizes
<1>3. Y(i) + 2 * CellH = CellH * (q + 2) + r
    BY <1>1, <1>2, Sizes
<1>4. (CellH * (q + 2) + r) \div CellH = q + 2 /\ (CellH * (q + 2) + r) % CellH = r
  <2> DEFINE k == q + 2
  <2>1. k \in Nat
      BY <1>1
  <2> HIDE DEF k
  <2>2. (CellH * k + r) \div CellH = k /\ (CellH * k + r) % CellH = r
      BY <1>1, <2>1, Sizes, OneQuotient
  <2> QED
      BY <2>2 DEF k
<1> QED
    BY <1>3, <1>4 DEF q, r

\* The lines of text end where the last whole line does.
LEMMA LastLine ==
  ASSUME NEW n \in Nat
  PROVE  n \div CellH < ttyMaxY <=> n < ttyMaxY * CellH
<1> DEFINE q == n \div CellH
           h == CellH * ttyMaxY
<1>1. q \in Nat /\ n % CellH \in 0..(CellH - 1) /\ n = CellH * q + (n % CellH)
    BY Sizes, Quotient
<1>2. CellH * q \in Nat /\ h \in Nat /\ h = ttyMaxY * CellH
    BY <1>1, Sizes, Monotone
<1>3. /\ q < ttyMaxY => CellH * q + CellH <= h
      /\ ttyMaxY <= q => h <= CellH * q
    BY <1>1, Sizes, Monotone
<1> HIDE DEF q, h
<1> QED
    BY <1>1, <1>2, <1>3, Sizes DEF q

\* Every place in a cell of the screen has its pixel.
LEMMA CellPixel ==
  ASSUME NEW c \in Screen, NEW o \in Offsets
  PROVE  \E i \in Pixels : /\ InCell(i, c[1], c[2]) /\ OffsetIn(i) = o
                           /\ X(i) = CellW * c[1] + o[1] /\ Y(i) = CellH * c[2] + o[2]
<1>1. /\ c[1] \in Nat /\ c[1] < ttyMaxX /\ c[2] \in Nat /\ c[2] < ttyMaxY
      /\ o = <<o[1], o[2]>> /\ o[1] \in 0..(CellW - 1) /\ o[2] \in 0..(CellH - 1)
    BY Sizes DEF Screen, Offsets
<1> DEFINE px == CellW * c[1] + o[1]
           py == CellH * c[2] + o[2]
           i == Width * py + px
<1>2. /\ px \in Nat /\ px \div CellW = c[1] /\ px % CellW = o[1]
      /\ py \in Nat /\ py \div CellH = c[2] /\ py % CellH = o[2]
    BY <1>1, Sizes, OneQuotient
<1>3. px < Width
  <2> DEFINE w == CellW * ttyMaxX
             b == CellW * c[1]
  <2>1. b + CellW <= w /\ w <= Width /\ w \in Nat /\ b \in Nat
      BY <1>1, Sizes, Monotone
  <2> HIDE DEF w, b
  <2>2. b + o[1] < Width
      BY <1>1, <2>1, Sizes
  <2> QED
      BY <2>2 DEF b
<1>4. py < Height
  <2> DEFINE h == CellH * ttyMaxY
             b == CellH * c[2]
  <2>1. b + CellH <= h /\ h <= Height /\ h \in Nat /\ b \in Nat
      BY <1>1, Sizes, Monotone
  <2> HIDE DEF h, b
  <2>2. b + o[2] < Height
      BY <1>1, <2>1, Sizes
  <2> QED
      BY <2>2 DEF b
<1> HIDE DEF px, py
<1>5. i \in Pixels /\ X(i) = px /\ Y(i) = py
  <2>1. px \in 0..(Width - 1)
      BY <1>2, <1>3, Sizes
  <2> QED
      BY <1>2, <1>4, <2>1, PixelAt
<1> HIDE DEF i
<1>6. InCell(i, c[1], c[2]) /\ OffsetIn(i) = o
    BY <1>1, <1>2, <1>5 DEF InCell, OffsetIn
<1> QED
    BY <1>5, <1>6 DEF px, py

\* The icon hangs from the top: above a hidden cell all are hidden.
LEMMA HiddenHangs ==
  ASSUME NEW c \in HiddenCells, NEW l \in 0..c[2]
  PROVE  <<c[1], l>> \in HiddenCells
<1>1. c \in Screen /\ c = <<c[1], c[2]>>
    BY DEF HiddenCells, Screen
<1>2. PICK i \in PixelsOf(c) : InIcon(i)
    BY DEF HiddenCells
<1>3. i \in Pixels /\ X(i) \div CellW = c[1] /\ Y(i) \div CellH = c[2]
    BY DEF PixelsOf, InCell
<1> DEFINE d == <<c[1], l>>
<1>4. d \in Screen /\ d[1] = c[1] /\ d[2] = l /\ c[2] \in Nat /\ l \in Nat /\ l <= c[2]
    BY <1>1, Sizes DEF Screen
<1> HIDE DEF d
<1>5. OffsetIn(i) \in Offsets /\ OffsetIn(i) = <<X(i) % CellW, Y(i) % CellH>>
    BY <1>3, CellXY DEF OffsetIn
<1>6. PICK j \in Pixels : /\ InCell(j, d[1], d[2])
                          /\ X(j) = CellW * d[1] + OffsetIn(i)[1]
                          /\ Y(j) = CellH * d[2] + OffsetIn(i)[2]
    BY <1>4, <1>5, CellPixel
<1>7. X(j) = X(i) /\ Y(j) <= Y(i)
  <2>1. X(j) = X(i)
      BY <1>3, <1>4, <1>5, <1>6, CellXY
  <2>2. CellH * l <= CellH * c[2] /\ CellH * l \in Nat /\ CellH * c[2] \in Nat
      BY <1>4, Sizes, Monotone
  <2>3. /\ Y(i) = CellH * c[2] + (Y(i) % CellH) /\ Y(j) = CellH * l + (Y(i) % CellH)
        /\ Y(i) % CellH \in Nat
      BY <1>3, <1>4, <1>5, <1>6, CellXY, Sizes
  <2> QED
      BY <2>1, <2>2, <2>3
<1>8. InIcon(j)
  <2>1. Y(j) \in Nat /\ Y(i) \in Nat /\ IconH \in Nat
      BY <1>3, <1>6, PixelXY, Sizes, ConsoleAssumption
  <2> QED
      BY <1>2, <1>7, <2>1 DEF InIcon
<1> QED
    BY <1>4, <1>6, <1>8 DEF HiddenCells, PixelsOf, Screen, d

-----------------------------------------------------------------------------
(* What is not ink.                                                        *)

LEMMA Kinds ==
  /\ Ink.kind = "ink" /\ Icon.kind # "ink" /\ Black.kind # "ink"
  /\ \A i : Alt(i).kind # "ink"
BY DEF Ink, Icon, Black, Alt

Behind(i) == IF altBuf THEN Alt(i) ELSE Black

RightPixel(v, i) ==
  \/ Y(i) < ttyMaxY * CellH /\ v = Ink
  \/ v \in {Icon, Alt(i)} /\ InIcon(i)
  \/ v = Behind(i)

RightPicture(f) == \A i \in Pixels : RightPixel(f[i], i)

\* The icon is above what is copied from below it.
LEMMA IconAbove ==
  ASSUME NEW i \in Pixels, InIcon(i + ScrollSrc)
  PROVE  InIcon(i)
<1>1. /\ X(i + ScrollSrc) = X(i) /\ Y(i + ScrollSrc) = Y(i) + 2 * CellH
      /\ Y(i) \in Nat
    BY ScrollXY, PixelXY
<1> QED
    BY <1>1, Sizes, ConsoleAssumption DEF InIcon

LEMMA ScrollRight ==
  ASSUME NEW f, RightPicture(f)
  PROVE  RightPicture(Scrolled(f))
<1> SUFFICES ASSUME NEW i \in Pixels, ~InIcon(i)
             PROVE  RightPixel(Scrolled(f)[i], i)
    BY DEF RightPicture, RightPixel, Scrolled, fbDrawIcon
<1> DEFINE j == i + ScrollSrc
<1>1. Scrolled(f)[i] = IF j \in Pixels THEN Copied(f, i) ELSE Cleared(i)
    BY DEF Scrolled, fbDrawIcon
<1>2. CASE j \notin Pixels
    BY <1>1, <1>2 DEF Cleared, RightPixel, Behind
<1>3. CASE j \in Pixels
  <2>1. RightPixel(f[j], j) /\ ~InIcon(j)
      BY <1>3, IconAbove DEF RightPicture
  <2>2. (Y(j) < ttyMaxY * CellH /\ f[j] = Ink) \/ f[j] = Behind(j)
      BY <2>1 DEF RightPixel
  <2>3. Y(j) < ttyMaxY * CellH => Y(i) < ttyMaxY * CellH
    <3> DEFINE h == ttyMaxY * CellH
    <3>1. Y(j) = Y(i) + 2 * CellH /\ Y(i) \in Nat /\ h \in Nat
        BY <1>3, ScrollXY, PixelXY, Sizes
    <3> HIDE DEF h, j
    <3>2. Y(j) < h => Y(i) < h
        BY <3>1, Sizes
    <3> QED
        BY <3>2 DEF h
  <2>4. Copied(f, i) = IF altBuf /\ f[j].kind # "ink" THEN Alt(i) ELSE f[j]
      BY DEF Copied
  <2> HIDE DEF j
  <2>5. f[j] = Ink \/ f[j] = Behind(j)
      BY <2>2
  <2> QED
      BY <1>1, <1>3, <2>2, <2>3, <2>4, <2>5, Kinds DEF RightPixel, Behind
<1> QED
    BY <1>2, <1>3

LEMMA BrokenRight ==
  ASSUME NEW f, RightPicture(f), NEW l
  PROVE  RightPicture(Broken(f, l))
BY ScrollRight DEF Broken

LEMMA CharRight ==
  ASSUME NEW f, RightPicture(f), NEW cx, NEW cy \in 0..(ttyMaxY - 1), NEW ch
  PROVE  RightPicture(fbChar(f, cx, cy, ch))
<1> SUFFICES ASSUME NEW i \in Pixels
             PROVE  RightPixel(fbChar(f, cx, cy, ch)[i], i)
    BY DEF RightPicture
<1>1. CASE ~InCell(i, cx, cy)
    BY <1>1 DEF fbChar, RightPicture
<1>2. CASE InCell(i, cx, cy)
  <2>1. Y(i) < ttyMaxY * CellH
    <3>1. Y(i) \in Nat /\ Y(i) \div CellH < ttyMaxY
        BY <1>2, PixelXY, Sizes DEF InCell
    <3> QED
        BY <3>1, LastLine
  <2> QED
      BY <1>2, <2>1 DEF fbChar, RightPixel, Behind
<1> QED
    BY <1>1, <1>2

-----------------------------------------------------------------------------
(* The cursor and the picture.                                             *)

CursorInv ==
  /\ altBuf \in BOOLEAN
  /\ ttyXPos \in 0..ttyMaxX
  /\ ttyYPos \in 0..(ttyMaxY - 1)

ConsoleInv == CursorInv /\ BackgroundStays

LEMMA RightIsBackground == BackgroundStays <=> RightPicture(framebuf)
BY DEF BackgroundStays, RightPicture, RightPixel, Behind

LEMMA LineStays ==
  ASSUME NEW l \in 0..(ttyMaxY - 1)
  PROVE  LineAfter(l) \in 0..(ttyMaxY - 1)
BY Sizes DEF LineAfter, Breaks

\* Where a character goes, and what the screen is by then.
LEMMA FromRight ==
  ASSUME ConsoleInv
  PROVE  /\ RightPicture(FrameFrom)
         /\ LineFrom \in 0..(ttyMaxY - 1)
         /\ ColumnFrom \in 0..(ttyMaxX - 1)
<1>1. RightPicture(framebuf)
    BY RightIsBackground DEF ConsoleInv
<1> QED
    BY <1>1, BrokenRight, LineStays, Sizes
    DEF ConsoleInv, CursorInv, FrameFrom, LineFrom, ColumnFrom, Full

LEMMA ConsoleInit == Init => ConsoleInv
<1> SUFFICES ASSUME Init PROVE ConsoleInv
    OBVIOUS
<1>1. CursorInv
  <2>1. altBuf = FALSE /\ ttyXPos = 0 /\ ttyYPos = 0
      BY DEF Init
  <2>2. 0 \in 0..ttyMaxX /\ 0 \in 0..(ttyMaxY - 1)
      BY Sizes
  <2> QED
      BY <2>1, <2>2 DEF CursorInv
<1>2. BackgroundStays
    BY DEF Init, BackgroundStays, fbDrawIcon
<1> QED
    BY <1>1, <1>2 DEF ConsoleInv

LEMMA ConsoleStep == ConsoleInv /\ [Next]_vars => ConsoleInv'
<1> SUFFICES ASSUME ConsoleInv, [Next]_vars
             PROVE  ConsoleInv'
    OBVIOUS
<1>1. ASSUME altBuf' = altBuf, RightPicture(framebuf'), ttyXPos' \in 0..ttyMaxX,
             ttyYPos' \in 0..(ttyMaxY - 1)
      PROVE  ConsoleInv'
    BY <1>1 DEF ConsoleInv, CursorInv, BackgroundStays, RightPicture, RightPixel, Behind
<1>2. RightPicture(framebuf) /\ CursorInv
    BY RightIsBackground DEF ConsoleInv
<1>3. /\ RightPicture(FrameFrom)
      /\ LineFrom \in 0..(ttyMaxY - 1) /\ ColumnFrom \in 0..(ttyMaxX - 1)
    BY FromRight
<1>4. CASE fbSetup
  <2>1. /\ altBuf' = TRUE /\ altBuf = FALSE
        /\ framebuf' = fbDrawIcon(Magic(framebuf))
        /\ UNCHANGED <<ttyXPos, ttyYPos>>
      BY <1>2, <1>4 DEF fbSetup, CursorInv
  <2>2. \A i \in Pixels : ~InIcon(i) =>
          \/ Y(i) < ttyMaxY * CellH /\ framebuf[i] = Ink
          \/ framebuf[i] = Black
      BY <1>2, <2>1 DEF RightPicture, RightPixel, Behind
  <2>3. \A i \in Pixels :
          framebuf'[i] = IF InIcon(i) THEN Icon
                         ELSE IF framebuf[i] = Black THEN Alt(i) ELSE framebuf[i]
      BY <2>1 DEF fbDrawIcon, Magic
  <2> QED
      BY <1>2, <2>1, <2>2, <2>3 DEF ConsoleInv, CursorInv, BackgroundStays
<1>5. CASE fbNewln
    BY <1>1, <1>2, <1>5, BrokenRight, LineStays, Sizes DEF fbNewln, CursorInv
<1>6. ASSUME NEW ch \in Chars, Draw(ch)
      PROVE  ConsoleInv'
    BY <1>1, <1>3, <1>6, CharRight, Sizes DEF Draw
<1>7. ASSUME NEW last, Break(last)
      PROVE  ConsoleInv'
    BY <1>1, <1>3, <1>7, BrokenRight, LineStays, Sizes DEF Break
<1>8. CASE LineFeed
    BY <1>1, <1>3, <1>7, <1>8, Sizes DEF LineFeed
<1>9. CASE UNCHANGED vars
    BY <1>1, <1>2, <1>9 DEF vars, CursorInv
<1> QED
    BY <1>4, <1>5, <1>6, <1>7, <1>8, <1>9 DEF Next, fbPutc

\* On a screen of any size, whatever is printed and wherever the background is set
\* up: each pixel is ink of the text, or the icon or the background in its place.
THEOREM PictureStays == Spec => []BackgroundStays
<1>1. ConsoleInv => BackgroundStays
    BY DEF ConsoleInv
<1> QED
    BY <1>1, ConsoleInit, ConsoleStep, PTL DEF Spec

-----------------------------------------------------------------------------
(* The ink, read as characters.                                            *)

ShownIn(f) == [c \in ShownCells |-> CharOf(Inked(f, c))]

\* A pixel of a cell that is shown is not under the icon.
LEMMA ShownCell ==
  ASSUME NEW c \in ShownCells
  PROVE  /\ c \in Screen /\ c = <<c[1], c[2]>>
         /\ c[1] \in 0..(ttyMaxX - 1) /\ c[2] \in 0..(ttyMaxY - 1)
         /\ \A i \in PixelsOf(c) : i \in Pixels /\ ~InIcon(i)
<1>1. c \in Screen /\ c \notin HiddenCells
    BY DEF ShownCells, Screen
<1>2. c = <<c[1], c[2]>> /\ c[1] \in 0..(ttyMaxX - 1) /\ c[2] \in 0..(ttyMaxY - 1)
    BY <1>1 DEF Screen
<1>3. \A i \in PixelsOf(c) : i \in Pixels /\ ~InIcon(i)
    BY <1>1 DEF HiddenCells, PixelsOf, Screen
<1> QED
    BY <1>1, <1>2, <1>3

\* The ink of a cell, as a set of places.
LEMMA InkedIn ==
  ASSUME NEW f, NEW c, NEW o
  PROVE  o \in Inked(f, c)
           <=> \E i \in Pixels : InCell(i, c[1], c[2]) /\ f[i] = Ink /\ OffsetIn(i) = o
BY DEF Inked, PixelsOf, OffsetIn

\* Two lines below a cell that is shown there is one that is shown, or no line.
LEMMA TwoBelow ==
  ASSUME NEW c \in ShownCells, c[2] + 2 < ttyMaxY
  PROVE  <<c[1], c[2] + 2>> \in ShownCells
<1> DEFINE d == <<c[1], c[2] + 2>>
<1>1. c = <<c[1], c[2]>> /\ c[1] \in 0..(ttyMaxX - 1) /\ c[2] \in 0..(ttyMaxY - 1)
    BY ShownCell
<1>2. d \in Screen
    BY <1>1, Sizes DEF Screen
<1>3. d \notin HiddenCells
  <2> SUFFICES ASSUME d \in HiddenCells PROVE FALSE
      OBVIOUS
  <2>1. c[2] \in 0..d[2] /\ d[1] = c[1]
      BY <1>1
  <2> HIDE DEF d
  <2>2. <<d[1], c[2]>> \in HiddenCells
      BY <2>1, HiddenHangs
  <2> QED
      BY <1>1, <2>1, <2>2 DEF ShownCells
<1> QED
    BY <1>2, <1>3 DEF ShownCells, Screen

\* A scroll moves the ink of a pixel that is not under the icon.
LEMMA InkScrolls ==
  ASSUME NEW f, NEW i \in Pixels, ~InIcon(i)
  PROVE  Scrolled(f)[i] = Ink <=> i + ScrollSrc \in Pixels /\ f[i + ScrollSrc] = Ink
<1> DEFINE j == i + ScrollSrc
<1>1. Scrolled(f)[i] = IF j \in Pixels THEN Copied(f, i) ELSE Cleared(i)
    BY DEF Scrolled, fbDrawIcon
<1>2. Cleared(i) # Ink
    BY Kinds DEF Cleared
<1>3. Copied(f, i) = IF altBuf /\ f[j].kind # "ink" THEN Alt(i) ELSE f[j]
    BY DEF Copied
<1> HIDE DEF j
<1>4. Copied(f, i) = Ink <=> f[j] = Ink
    BY <1>3, Kinds
<1> QED
    BY <1>1, <1>2, <1>4 DEF j

\* A scroll moves the ink of a cell two lines up; what it moves to the last two
\* lines has no ink.
LEMMA CellScrolls ==
  ASSUME NEW f, RightPicture(f), NEW c \in ShownCells
  PROVE  Inked(Scrolled(f), c) =
           IF c[2] + 2 < ttyMaxY THEN Inked(f, <<c[1], c[2] + 2>>) ELSE {}
<1> DEFINE d == <<c[1], c[2] + 2>>
<1>1. /\ c \in Screen /\ c = <<c[1], c[2]>>
      /\ c[1] \in 0..(ttyMaxX - 1) /\ c[2] \in 0..(ttyMaxY - 1)
      /\ \A i \in PixelsOf(c) : i \in Pixels /\ ~InIcon(i)
    BY ShownCell
<1>2. d[1] = c[1] /\ d[2] = c[2] + 2
    OBVIOUS
<1>3. ASSUME NEW i \in Pixels, InCell(i, c[1], c[2]), Scrolled(f)[i] = Ink
      PROVE  /\ i + ScrollSrc \in Pixels /\ f[i + ScrollSrc] = Ink
             /\ InCell(i + ScrollSrc, c[1], c[2] + 2)
             /\ OffsetIn(i + ScrollSrc) = OffsetIn(i)
             /\ c[2] + 2 < ttyMaxY
  <2> DEFINE j == i + ScrollSrc
  <2>1. j \in Pixels /\ f[j] = Ink
      BY <1>1, <1>3, InkScrolls DEF PixelsOf
  <2>2. X(j) = X(i) /\ Y(j) = Y(i) + 2 * CellH
      BY ScrollXY
  <2> HIDE DEF j
  <2>3. Y(j) \div CellH = (Y(i) \div CellH) + 2 /\ Y(j) % CellH = Y(i) % CellH
      BY <2>2, ScrollCell
  <2>4. InCell(j, c[1], c[2] + 2) /\ OffsetIn(j) = OffsetIn(i)
      BY <1>3, <2>2, <2>3 DEF InCell, OffsetIn
  <2>5. Y(j) < ttyMaxY * CellH
      BY <2>1, Kinds DEF RightPicture, RightPixel, Behind
  <2>6. c[2] + 2 < ttyMaxY
    <3>1. Y(j) \in Nat /\ Y(j) \div CellH = c[2] + 2
        BY <2>1, <2>4, PixelXY DEF InCell
    <3> QED
        BY <2>5, <3>1, LastLine
  <2> QED
      BY <2>1, <2>4, <2>6 DEF j
<1>4. ASSUME NEW j \in Pixels, InCell(j, c[1], c[2] + 2), f[j] = Ink
      PROVE  \E i \in Pixels : /\ InCell(i, c[1], c[2]) /\ Scrolled(f)[i] = Ink
                               /\ OffsetIn(i) = OffsetIn(j)
  <2>1. OffsetIn(j) \in Offsets /\ OffsetIn(j) = <<X(j) % CellW, Y(j) % CellH>>
      BY CellXY DEF OffsetIn
  <2>2. PICK i \in Pixels : /\ InCell(i, c[1], c[2]) /\ OffsetIn(i) = OffsetIn(j)
                            /\ X(i) = CellW * c[1] + OffsetIn(j)[1]
                            /\ Y(i) = CellH * c[2] + OffsetIn(j)[2]
      BY <1>1, <2>1, CellPixel
  <2>3. /\ X(j) = CellW * c[1] + (X(j) % CellW)
        /\ Y(j) = CellH * (c[2] + 2) + (Y(j) % CellH)
        /\ X(j) % CellW \in Nat /\ Y(j) % CellH \in Nat /\ Y(j) \in 0..(Height - 1)
      BY <1>4, CellXY, PixelXY DEF InCell
  <2>4. CellH * (c[2] + 2) = CellH * c[2] + 2 * CellH /\ CellH * c[2] \in Nat
      BY <1>1, Sizes
  <2>5. X(j) = X(i) /\ Y(j) = Y(i) + 2 * CellH
      BY <2>1, <2>2, <2>3, <2>4, Sizes
  <2>6. i + ScrollSrc = j
    <3> DEFINE k == i + ScrollSrc
    <3>1. k \in Pixels /\ X(k) = X(j) /\ Y(k) = Y(j)
      <4>1. Y(i) + 2 * CellH < Height
          BY <2>3, <2>5, Sizes
      <4> QED
          BY <2>5, <4>1, ScrollXY
    <3> HIDE DEF k
    <3>2. k = Width * Y(k) + X(k) /\ j = Width * Y(j) + X(j)
        BY <3>1, PixelXY
    <3> QED
        BY <3>1, <3>2 DEF k
  <2> QED
      BY <1>1, <1>4, <2>2, <2>6, InkScrolls DEF PixelsOf
<1>5. CASE c[2] + 2 < ttyMaxY
  <2>1. ASSUME NEW o PROVE o \in Inked(Scrolled(f), c) <=> o \in Inked(f, d)
      BY <1>2, <1>3, <1>4, InkedIn
  <2>2. Inked(Scrolled(f), c) = Inked(f, d)
      BY <2>1 DEF Inked
  <2> QED
      BY <1>5, <2>2
<1>6. CASE ~(c[2] + 2 < ttyMaxY)
  <2>1. ASSUME NEW o PROVE o \notin Inked(Scrolled(f), c)
      BY <1>3, <1>6, InkedIn
  <2> QED
      BY <1>6, <2>1
<1> QED
    BY <1>5, <1>6

\* A character is the ink of its cell and of no other.
LEMMA CharInks ==
  ASSUME NEW f, NEW cx, NEW cy, NEW ch \in Chars, NEW c \in Screen
  PROVE  Inked(fbChar(f, cx, cy, ch), c) =
           IF c = <<cx, cy>> THEN Glyph[ch] ELSE Inked(f, c)
<1> DEFINE g == fbChar(f, cx, cy, ch)
<1>1. \A i \in Pixels : g[i] = IF ~InCell(i, cx, cy) THEN f[i]
                               ELSE IF Lit(i, ch) THEN Ink
                               ELSE IF altBuf THEN Alt(i) ELSE Black
    BY DEF fbChar
<1>2. c = <<c[1], c[2]>>
    BY DEF Screen
<1> HIDE DEF g
<1>3. CASE c = <<cx, cy>>
  <2>1. c[1] = cx /\ c[2] = cy
      BY <1>3
  <2>2. \A i \in Pixels : InCell(i, cx, cy) => (g[i] = Ink <=> OffsetIn(i) \in Glyph[ch])
      BY <1>1, Kinds DEF Lit, OffsetIn
  <2>3. ASSUME NEW o PROVE o \in Inked(g, c) <=> o \in Glyph[ch]
    <3>1. o \in Glyph[ch] => o \in Offsets
        BY ConsoleAssumption DEF Offsets
    <3>2. o \in Offsets => \E i \in Pixels : InCell(i, cx, cy) /\ OffsetIn(i) = o
        BY <2>1, CellPixel
    <3> QED
        BY <2>1, <2>2, <3>1, <3>2, InkedIn
  <2>4. Inked(g, c) = Glyph[ch]
    <3>1. \A o : o \in Inked(g, c) <=> o \in Glyph[ch]
        BY <2>3
    <3> QED
        BY <3>1, ConsoleAssumption DEF Inked
  <2> QED
      BY <1>3, <2>4 DEF g
<1>4. CASE c # <<cx, cy>>
  <2>1. \A i \in Pixels : InCell(i, c[1], c[2]) => g[i] = f[i]
      BY <1>1, <1>2, <1>4 DEF InCell
  <2>2. Inked(g, c) = Inked(f, c)
      BY <2>1 DEF Inked, PixelsOf
  <2> QED
      BY <1>4, <2>2 DEF g
<1> QED
    BY <1>3, <1>4

-----------------------------------------------------------------------------
(* The Terminal the pixels are read as.                                    *)

LEMMA ShownText ==
  /\ Text!Cells \ HiddenCells = ShownCells
  /\ \A f : ShownIn(f) = [c \in ShownCells |-> ShownIn(f)[c]]
  /\ Shown = ShownIn(framebuf) /\ Shown' = ShownIn(framebuf')
BY DEF Text!Cells, ShownCells, ShownIn, Shown, Inked

\* A scroll of the pixels is a scroll of the text, and so is a line break.
LEMMA TextBreaks ==
  ASSUME NEW f, RightPicture(f), NEW l \in 0..(ttyMaxY - 1)
  PROVE  /\ ShownIn(Broken(f, l)) = Text!Broken(ShownIn(f), l)
         /\ LineAfter(l) = Text!LineAfter(l)
<1>1. ShownIn(Scrolled(f)) = Text!Scrolled(ShownIn(f))
  <2>1. ASSUME NEW c \in ShownCells
        PROVE  CharOf(Inked(Scrolled(f), c)) =
                 IF c[2] + 2 < ttyMaxY THEN ShownIn(f)[<<c[1], c[2] + 2>>] ELSE CharOf({})
    <3>1. CASE c[2] + 2 < ttyMaxY
        BY <3>1, CellScrolls, TwoBelow DEF ShownIn
    <3>2. CASE ~(c[2] + 2 < ttyMaxY)
        BY <3>2, CellScrolls
    <3> QED
        BY <3>1, <3>2
  <2>2. Text!Scrolled(ShownIn(f)) =
          [c \in ShownCells |->
             IF c[2] + 2 < ttyMaxY THEN ShownIn(f)[<<c[1], c[2] + 2>>] ELSE CharOf({})]
      BY ShownText DEF Text!Scrolled, Text!Lines
  <2>3. ShownIn(Scrolled(f)) = [c \in ShownCells |-> CharOf(Inked(Scrolled(f), c))]
      BY DEF ShownIn
  <2> QED
      BY <2>1, <2>2, <2>3
<1> QED
    BY <1>1 DEF Broken, Text!Broken, Breaks, LineAfter, Text!LineAfter, Text!Lines

\* A character drawn is a character put.
LEMMA TextDraws ==
  ASSUME NEW f, NEW cx, NEW cy, NEW ch \in Chars
  PROVE  ShownIn(fbChar(f, cx, cy, ch)) = Text!Drawn(ShownIn(f), <<cx, cy>>, CharOf(Glyph[ch]))
<1>1. ASSUME NEW c \in ShownCells
      PROVE  CharOf(Inked(fbChar(f, cx, cy, ch), c)) =
               IF c = <<cx, cy>> THEN CharOf(Glyph[ch]) ELSE ShownIn(f)[c]
    BY CharInks, ShownCell DEF ShownIn
<1>2. DOMAIN ShownIn(f) = ShownCells
    BY DEF ShownIn
<1>3. Text!Drawn(ShownIn(f), <<cx, cy>>, CharOf(Glyph[ch])) =
        [c \in ShownCells |-> IF c = <<cx, cy>> THEN CharOf(Glyph[ch]) ELSE ShownIn(f)[c]]
    BY <1>2 DEF Text!Drawn
<1> QED
    BY <1>1, <1>3 DEF ShownIn

\* The background shows no character and takes none.
LEMMA TextSetUp ==
  ASSUME NEW f
  PROVE  ShownIn(fbDrawIcon(Magic(f))) = ShownIn(f)
<1>1. ASSUME NEW c \in ShownCells
      PROVE  Inked(fbDrawIcon(Magic(f)), c) = Inked(f, c)
  <2>1. \A i \in PixelsOf(c) : fbDrawIcon(Magic(f))[i] = Ink <=> f[i] = Ink
    <3> SUFFICES ASSUME NEW i \in PixelsOf(c)
                 PROVE  fbDrawIcon(Magic(f))[i] = Ink <=> f[i] = Ink
        OBVIOUS
    <3>1. i \in Pixels /\ ~InIcon(i)
        BY ShownCell
    <3>2. fbDrawIcon(Magic(f))[i] = IF f[i] = Black THEN Alt(i) ELSE f[i]
        BY <3>1 DEF fbDrawIcon, Magic
    <3> QED
        BY <3>2, Kinds
  <2> QED
      BY <2>1 DEF Inked
<1> QED
    BY <1>1 DEF ShownIn

\* A font's character has a character that looks like it.
LEMMA CharIsOne ==
  /\ \A ch \in Chars : CharOf(Glyph[ch]) \in Chars
  /\ CharOf({}) \in Chars
<1>1. ASSUME NEW ch \in Chars PROVE CharOf(Glyph[ch]) \in Chars
    BY DEF CharOf
<1> QED
    BY <1>1, ConsoleAssumption

\* An empty screen shows an empty text.
LEMMA TextInit == Init => Text!Init
<1> SUFFICES ASSUME Init PROVE Text!Init
    OBVIOUS
<1>1. /\ framebuf = fbDrawIcon([i \in Pixels |-> Black])
      /\ ttyXPos = 0 /\ ttyYPos = 0 /\ ~(ttyLastChar = "cr")
    BY DEF Init
<1>2. ASSUME NEW c \in ShownCells PROVE Inked(framebuf, c) = {}
  <2>1. \A i \in PixelsOf(c) : framebuf[i] # Ink
      BY <1>1, ShownCell, Kinds DEF fbDrawIcon
  <2> QED
      BY <2>1 DEF Inked
<1>3. Shown = [c \in ShownCells |-> CharOf({})]
    BY <1>2 DEF Shown
<1> QED
    BY <1>1, <1>3, ShownText DEF Text!Init

\* Where a character goes on the screen is where it goes in the text.
LEMMA TextFromFrame ==
  ASSUME ConsoleInv
  PROVE  /\ ShownIn(FrameFrom) = Text!TextFrom
         /\ LineFrom = Text!LineFrom /\ ColumnFrom = Text!ColumnFrom
<1>1. RightPicture(framebuf) /\ ttyYPos \in 0..(ttyMaxY - 1)
    BY RightIsBackground DEF ConsoleInv, CursorInv
<1>2. /\ ShownIn(Broken(framebuf, ttyYPos)) = Text!Broken(Shown, ttyYPos)
      /\ LineAfter(ttyYPos) = Text!LineAfter(ttyYPos)
    BY <1>1, TextBreaks, ShownText
<1>3. CASE Full
    BY <1>2, <1>3 DEF FrameFrom, LineFrom, ColumnFrom, Full,
       Text!TextFrom, Text!LineFrom, Text!ColumnFrom, Text!Full
<1>4. CASE ~Full
    BY <1>4, ShownText DEF FrameFrom, LineFrom, ColumnFrom, Full,
       Text!TextFrom, Text!LineFrom, Text!ColumnFrom, Text!Full
<1> QED
    BY <1>3, <1>4

\* Every step of the pixels is a step of the text; setting up the background
\* changes nothing that is read.
LEMMA TextStep == ConsoleInv /\ [Next]_vars => [Text!Next]_(Text!vars)
<1> SUFFICES ASSUME ConsoleInv, [Next]_vars
             PROVE  [Text!Next]_(Text!vars)
    OBVIOUS
<1> USE DEF Text!vars
<1>1. /\ RightPicture(framebuf) /\ ttyYPos \in 0..(ttyMaxY - 1)
      /\ RightPicture(FrameFrom) /\ LineFrom \in 0..(ttyMaxY - 1)
    BY RightIsBackground, FromRight DEF ConsoleInv, CursorInv
<1>2. /\ ShownIn(FrameFrom) = Text!TextFrom
      /\ LineFrom = Text!LineFrom /\ ColumnFrom = Text!ColumnFrom
    BY TextFromFrame
<1>3. CASE fbSetup
  <2>1. Shown' = Shown /\ UNCHANGED <<ttyXPos, ttyYPos, ttyLastChar>>
      BY <1>3, ShownText, TextSetUp DEF fbSetup
  <2> QED
      BY <2>1
<1>4. CASE fbNewln
  <2>1. /\ framebuf' = Broken(framebuf, ttyYPos)
        /\ ttyXPos' = 0 /\ ttyYPos' = LineAfter(ttyYPos) /\ ttyLastChar' = ttyLastChar
      BY <1>4 DEF fbNewln
  <2>2. Shown' = Text!Broken(Shown, ttyYPos) /\ ttyYPos' = Text!LineAfter(ttyYPos)
      BY <1>1, <2>1, TextBreaks, ShownText
  <2>3. Text!NewLine
      BY <2>1, <2>2 DEF Text!NewLine
  <2> QED
      BY <2>3 DEF Text!Next
<1>5. ASSUME NEW ch \in Chars, Draw(ch)
      PROVE  Text!Next
  <2>1. /\ framebuf' = fbChar(FrameFrom, ColumnFrom, LineFrom, ch)
        /\ ttyXPos' = ColumnFrom + 1 /\ ttyYPos' = LineFrom /\ ttyLastChar' = "none"
      BY <1>5 DEF Draw
  <2>2. Shown' = Text!Drawn(Text!TextFrom, <<Text!ColumnFrom, Text!LineFrom>>, CharOf(Glyph[ch]))
      BY <1>2, <2>1, TextDraws, ShownText
  <2>3. Text!Put(CharOf(Glyph[ch]))
      BY <1>2, <2>1, <2>2 DEF Text!Put
  <2> QED
      BY <2>3, CharIsOne DEF Text!Next
<1>6. ASSUME NEW last, Break(last)
      PROVE  Text!Break(last = "cr")
  <2>1. /\ framebuf' = Broken(FrameFrom, LineFrom)
        /\ ttyXPos' = 0 /\ ttyYPos' = LineAfter(LineFrom) /\ ttyLastChar' = last
      BY <1>6 DEF Break
  <2>2. Shown' = Text!Broken(Text!TextFrom, Text!LineFrom) /\ ttyYPos' = Text!LineAfter(Text!LineFrom)
      BY <1>1, <1>2, <2>1, TextBreaks, ShownText
  <2> QED
      BY <2>1, <2>2 DEF Text!Break
<1>7. CASE LineFeed
  <2>1. CASE ttyLastChar # "cr"
    <3>1. Text!Break("none" = "cr")
        BY <1>6, <1>7, <2>1 DEF LineFeed
    <3>2. ("none" = "cr") = FALSE
        OBVIOUS
    <3>3. Text!Break(FALSE)
        BY <3>1, <3>2
    <3> QED
        BY <2>1, <3>3 DEF Text!Next, Text!LineFeed
  <2>2. CASE ttyLastChar = "cr"
    <3>1. /\ framebuf' = FrameFrom
          /\ ttyXPos' = ColumnFrom /\ ttyYPos' = LineFrom /\ ttyLastChar' = "none"
        BY <1>7, <2>2 DEF LineFeed
    <3>2. Shown' = Text!TextFrom
        BY <1>2, <3>1, ShownText
    <3>3. Text!FeedAfterCr
        BY <1>2, <2>2, <3>1, <3>2 DEF Text!FeedAfterCr
    <3> QED
        BY <3>3 DEF Text!Next, Text!LineFeed
  <2> QED
      BY <2>1, <2>2
<1>8. CASE Break("cr")
  <2>1. Text!Break(TRUE)
      BY <1>6, <1>8
  <2> QED
      BY <2>1 DEF Text!Next, Text!Return
<1>9. CASE UNCHANGED vars
    BY <1>9, ShownText DEF vars
<1> QED
    BY <1>3, <1>4, <1>5, <1>7, <1>8, <1>9 DEF Next, fbPutc

\* On a screen of any size and with any font, the ink is at every moment the text a
\* Terminal would show: what is drawn, where a full line breaks, what a scroll
\* moves and what a line feed after a carriage return does.
THEOREM ShowsText == Spec => TerminalSpec
<1>1. ConsoleInv /\ [Next]_vars => [Text!Next]_(Text!vars)
    BY TextStep
<1> QED
    BY <1>1, ConsoleInit, ConsoleStep, TextInit, PTL DEF Spec, TerminalSpec, Text!Spec

-----------------------------------------------------------------------------
(* The Terminal prints over nothing, and so do the pixels.                 *)

LEMMA ScreenIsOne == Text!TerminalAssumption
<1>1. HiddenCells \subseteq Text!Cells
    BY DEF HiddenCells, Text!Cells
<1> QED
    BY <1>1, Sizes, CharIsOne, HiddenHangs DEF Text!TerminalAssumption

\* Nothing is on the screen from a place on.
BlankFrom(t, column, line) ==
  \A c \in Text!Cells \ HiddenCells :
    c[2] > line \/ (c[2] = line /\ c[1] >= column) => t[c] = CharOf({})

\* An empty screen is a screen.
LEMMA TerminalType == Text!TerminalAssumption /\ Text!Init => Text!TypeOK
<1> SUFFICES ASSUME Text!TerminalAssumption, Text!Init
             PROVE  Text!TypeOK
  OBVIOUS
<1>1. Shown \in [Text!Cells \ HiddenCells -> Chars]
  BY DEF Text!TerminalAssumption, Text!Init
<1>2. 0 \in 0..ttyMaxX /\ 0 \in 0..(ttyMaxY - 1)
  BY SMT DEF Text!TerminalAssumption
<1> QED
  BY <1>1, <1>2 DEF Text!Init, Text!TypeOK

\* A line break makes a screen of a screen: a scroll never takes a cell from
\* under the icon, which hangs from the top.
LEMMA BreakType ==
  ASSUME Text!TerminalAssumption,
         NEW t \in [Text!Cells \ HiddenCells -> Chars], NEW l \in 0..(ttyMaxY - 1)
  PROVE  /\ Text!Broken(t, l) \in [Text!Cells \ HiddenCells -> Chars]
         /\ Text!LineAfter(l) \in 0..(ttyMaxY - 1)
<1>1. Text!Scrolled(t) \in [Text!Cells \ HiddenCells -> Chars]
  <2> SUFFICES ASSUME NEW c \in Text!Cells \ HiddenCells, c[2] + Text!Lines < ttyMaxY
               PROVE  <<c[1], c[2] + Text!Lines>> \in Text!Cells \ HiddenCells
    BY SMT DEF Text!Scrolled, Text!TerminalAssumption
  <2>1. /\ c = <<c[1], c[2]>> /\ c[1] \in 0..(ttyMaxX - 1) /\ c[2] \in 0..(ttyMaxY - 1)
        /\ ttyMaxY \in Nat
    BY DEF Text!Cells, Text!TerminalAssumption
  <2>2. <<c[1], c[2] + Text!Lines>> \in Text!Cells
    BY <2>1, SMT DEF Text!Cells, Text!Lines
  <2>3. ASSUME <<c[1], c[2] + Text!Lines>> \in HiddenCells
        PROVE  FALSE
    <3> DEFINE h == <<c[1], c[2] + Text!Lines>>
    <3>1. c[2] \in 0..h[2] /\ h[1] = c[1]
      BY <2>1, SMT DEF Text!Lines
    <3>2. <<h[1], c[2]>> \in HiddenCells
      BY <2>3, <3>1 DEF Text!TerminalAssumption
    <3> QED
      BY <2>1, <3>1, <3>2
  <2> QED
    BY <2>2, <2>3
<1> QED
  BY <1>1, SMT DEF Text!Broken, Text!LineAfter, Text!TerminalAssumption, Text!Lines

\* After a line break, with its scroll or without, the new line is blank.
LEMMA BreakBlank ==
  ASSUME Text!TerminalAssumption, NEW t \in [Text!Cells \ HiddenCells -> Chars],
         NEW l \in 0..(ttyMaxY - 1), NEW k \in Nat, BlankFrom(t, k, l)
  PROVE  BlankFrom(Text!Broken(t, l), 0, Text!LineAfter(l))
<1> SUFFICES ASSUME NEW c \in Text!Cells \ HiddenCells, c[2] >= Text!LineAfter(l)
             PROVE  Text!Broken(t, l)[c] = CharOf({})
  BY SMT DEF BlankFrom, Text!Cells, Text!TerminalAssumption, Text!LineAfter, Text!Lines
<1>1. c[2] \in 0..(ttyMaxY - 1) /\ ttyMaxY \in Nat
  BY DEF Text!Cells, Text!TerminalAssumption
<1>2. CASE l + 1 >= ttyMaxY
  BY <1>1, <1>2, SMT DEF Text!Broken, Text!Scrolled, Text!LineAfter, Text!Lines
<1>3. CASE ~(l + 1 >= ttyMaxY)
  BY <1>1, <1>3, SMT DEF Text!Broken, Text!LineAfter, BlankFrom
<1> QED
  BY <1>2, <1>3

\* A full line has broken before a character is looked at.
LEMMA FromBreak ==
  ASSUME Text!TerminalAssumption, Text!TypeOK, Text!AheadBlank
  PROVE  /\ Text!TextFrom \in [Text!Cells \ HiddenCells -> Chars]
         /\ Text!LineFrom \in 0..(ttyMaxY - 1)
         /\ Text!ColumnFrom \in 0..(ttyMaxX - 1)
         /\ BlankFrom(Text!TextFrom, Text!ColumnFrom, Text!LineFrom)
<1>1. BlankFrom(Shown, ttyXPos, ttyYPos)
  BY DEF BlankFrom, Text!AheadBlank, Text!TypeOK
<1>2. ttyXPos \in 0..ttyMaxX /\ ttyMaxX \in Nat \ {0}
  BY DEF Text!TypeOK, Text!TerminalAssumption
<1>3. ttyXPos \in Nat
  BY <1>2, SMT
<1>4. BlankFrom(Text!Broken(Shown, ttyYPos), 0, Text!LineAfter(ttyYPos))
  BY <1>1, <1>3, BreakBlank DEF Text!TypeOK
<1>5. CASE Text!Full
  BY <1>2, <1>4, <1>5, BreakType, SMT DEF Text!TextFrom, Text!LineFrom, Text!ColumnFrom, Text!TypeOK
<1>6. CASE ~Text!Full
  BY <1>1, <1>2, <1>6, SMT DEF Text!TextFrom, Text!LineFrom, Text!ColumnFrom, Text!TypeOK, Text!Full
<1> QED
  BY <1>5, <1>6

\* The inductive invariant.
TerminalInv == Text!TypeOK /\ Text!AheadBlank

\* Every character, line break and scroll leaves the rest of the screen blank.
LEMMA TerminalStep ==
  Text!TerminalAssumption /\ TerminalInv /\ [Text!Next]_(Text!vars) => TerminalInv'
<1> SUFFICES ASSUME Text!TerminalAssumption, Text!TypeOK, Text!AheadBlank, [Text!Next]_(Text!vars)
             PROVE  Text!TypeOK' /\ Text!AheadBlank'
  BY DEF TerminalInv
<1> DEFINE Good(t, k, l) ==
      /\ t \in [Text!Cells \ HiddenCells -> Chars] /\ k \in 0..ttyMaxX /\ l \in 0..(ttyMaxY - 1)
      /\ BlankFrom(t, k, l)
<1>1. ASSUME Good(Shown', ttyXPos', ttyYPos')
      PROVE  Text!TypeOK' /\ Text!AheadBlank'
  BY <1>1 DEF Text!TypeOK, Text!AheadBlank, BlankFrom
<1>2. ttyMaxX \in Nat \ {0} /\ ttyMaxY \in Nat
  BY DEF Text!TerminalAssumption
<1>3. Good(Text!TextFrom, Text!ColumnFrom, Text!LineFrom) /\ Text!ColumnFrom < ttyMaxX
  BY <1>2, FromBreak, SMT
<1>4. ASSUME NEW ch \in Chars, Text!Put(ch)
      PROVE  Good(Shown', ttyXPos', ttyYPos')
  <2> DEFINE t == Text!Drawn(Text!TextFrom, <<Text!ColumnFrom, Text!LineFrom>>, ch)
  <2>1. Shown' = t /\ ttyXPos' = Text!ColumnFrom + 1 /\ ttyYPos' = Text!LineFrom
    BY <1>4 DEF Text!Put
  <2>2. t \in [Text!Cells \ HiddenCells -> Chars]
    BY <1>3 DEF Text!Drawn
  <2>3. BlankFrom(t, Text!ColumnFrom + 1, Text!LineFrom)
    <3> SUFFICES ASSUME NEW c \in Text!Cells \ HiddenCells,
                        \/ c[2] > Text!LineFrom
                        \/ c[2] = Text!LineFrom /\ c[1] >= Text!ColumnFrom + 1
                 PROVE  t[c] = CharOf({})
      BY DEF BlankFrom
    <3>1. c[1] \in Nat /\ c[2] \in Nat /\ Text!ColumnFrom \in Nat /\ Text!LineFrom \in Nat
      BY <1>2, <1>3, SMT DEF Text!Cells
    <3>2. c # <<Text!ColumnFrom, Text!LineFrom>>
      BY <3>1, SMT
    <3>3. Text!TextFrom[c] = CharOf({})
      BY <1>3, <3>1, SMT DEF BlankFrom
    <3> QED
      BY <1>3, <3>2, <3>3 DEF Text!Drawn
  <2> QED
    BY <1>2, <1>3, <2>1, <2>2, <2>3, SMT
<1>5. Good(Text!Broken(Text!TextFrom, Text!LineFrom), 0, Text!LineAfter(Text!LineFrom))
  <2>1. Text!ColumnFrom \in Nat
    BY <1>2, <1>3, SMT
  <2>2. /\ Text!LineAfter(Text!LineFrom) \in 0..(ttyMaxY - 1)
        /\ Text!Broken(Text!TextFrom, Text!LineFrom) \in [Text!Cells \ HiddenCells -> Chars]
    BY <1>3, BreakType
  <2>3. BlankFrom(Text!Broken(Text!TextFrom, Text!LineFrom), 0, Text!LineAfter(Text!LineFrom))
    BY <1>3, <2>1, BreakBlank
  <2>4. 0 \in 0..ttyMaxX
    BY <1>2, SMT
  <2> QED
    BY <2>2, <2>3, <2>4
<1>6. Good(Text!Broken(Shown, ttyYPos), 0, Text!LineAfter(ttyYPos))
  <2>1. ttyXPos \in Nat /\ BlankFrom(Shown, ttyXPos, ttyYPos)
    BY <1>2, SMT DEF Text!TypeOK, Text!AheadBlank, BlankFrom
  <2> QED
    BY <1>2, <2>1, BreakType, BreakBlank, SMT DEF Text!TypeOK
<1>7. CASE \E ch \in Chars : Text!Put(ch)
  BY <1>1, <1>4, <1>7 DEF Text!Put
<1>8. ASSUME NEW cr \in BOOLEAN, Text!Break(cr)
      PROVE  Text!TypeOK' /\ Text!AheadBlank'
  BY <1>1, <1>5, <1>8 DEF Text!Break
<1>9. CASE Text!FeedAfterCr
  BY <1>1, <1>3, <1>9 DEF Text!FeedAfterCr
<1>10. CASE Text!NewLine
  BY <1>1, <1>6, <1>10 DEF Text!NewLine, Text!TypeOK
<1>11. CASE UNCHANGED Text!vars
  BY <1>11 DEF Text!vars, Text!TypeOK, Text!AheadBlank
<1> QED
  BY <1>7, <1>8, <1>9, <1>10, <1>11 DEF Text!Next, Text!LineFeed, Text!Return

\* On a screen of any size nothing is ever printed over: from the cursor on it
\* is blank, after every character, line break and scroll.
THEOREM NothingPrintedOver == Text!Spec => []Text!AheadBlank
<1>1. Text!Init => TerminalInv
  BY ScreenIsOne, TerminalType DEF TerminalInv, Text!AheadBlank, Text!Init
<1>2. TerminalInv /\ [Text!Next]_(Text!vars) => TerminalInv'
  BY ScreenIsOne, TerminalStep
<1>3. TerminalInv => Text!AheadBlank
  BY DEF TerminalInv
<1> QED
  BY <1>1, <1>2, <1>3, PTL DEF Text!Spec

\* On a screen of any size, no character is drawn over another, also right after
\* a scroll: from the cursor on the screen shows nothing.
THEOREM PrintsOverNothing == Spec => []NothingAhead
BY NothingPrintedOver, ShowsText, PTL DEF TerminalSpec, NothingAhead
=============================================================================
