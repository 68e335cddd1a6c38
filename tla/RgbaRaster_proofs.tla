-------------------------- MODULE RgbaRaster_proofs --------------------------
(***************************************************************************)
(* Theorems about RgbaRaster: for images, windows, tiles and strips of any *)
(* size, what is put never leaves the window, every pixel of the window    *)
(* ends where the orientation asked for has it, and the rest of the raster *)
(* is left alone.                                                          *)
(*                                                                         *)
(* The inductive invariant says where the loops of the four routines stand *)
(* in the terms of the window.  Whatever the routine, a step to the next   *)
(* row of what is put adds w to the cell, or takes w from it when the      *)
(* raster is filled from its last line, and adds tw to the index in the    *)
(* buffer: that is what the skews are for.  So the pixel that is column x  *)
(* and row l of the window is put at CellFor(x, l), and once it is there   *)
(* it stays there until the lines are mirrored.                            *)
(***************************************************************************)
EXTENDS RgbaRaster, FiniteSetTheorems, TLAPS

-----------------------------------------------------------------------------
(***************************************************************************)
(* The inductive invariant.                                                *)
(***************************************************************************)
Columns == 0..(w - 1)
Rows == 0..(h - 1)
PixelOf(x, l) == <<img.col_offset + x, img.row_offset + l>>

\* The line of the window, counted in the raster, that a row of it is put at.
LineOf(l) == IF Vertical THEN h - 1 - l ELSE l
CellFor(x, l) == base + LineOf(l) * w + x

\* What was asked, and the raster it was asked for.
RequestOK ==
  /\ img \in Images /\ Possible(img) /\ Allowed(img)
  /\ w \in 1..(img.width - img.col_offset)
  /\ h \in 1..(img.height - img.row_offset)
  /\ base \in 0..MaxWidth
  /\ img.op = "tile" => <<w, h>> = TileWindow(img) /\ base = 0
RasterOK ==
  /\ raster = [cell \in DOMAIN raster |-> raster[cell]]
  /\ \E n \in Nat : /\ DOMAIN raster = 0..(n - 1)
                    /\ base + w * h <= n
                    /\ img.op = "tile" => tw * th <= n
  /\ ~stray

\* Where the loop over the rows stands.
RowsOK ==
  /\ pc \in Steps /\ ret \in {0, 1} /\ i_row \in 0..th
  /\ row \in 0..h /\ nrow \in 0..h /\ tocol \in 0..w /\ this_tw \in 0..tw
  /\ pc = "begin" => row = 0 /\ y = 0
  /\ pc # "begin" => y = LineOf(row)
  /\ pc \in {"begin", "row", "read", "put", "next"} => row < h
  /\ pc \in {"read", "put", "next"} => nrow = Min2(RowsToRead, h - row)
  /\ pc = "next" /\ ret = 1 => tocol = w
  /\ pc = "mirror" /\ ret = 1 => row = h
  /\ pc = "fix" => img.op = "tile" /\ ~Whole /\ i_row < th
  /\ pc \notin {"fix", "done"} \/ Whole => i_row = 0
  /\ pc = "done" /\ img.op = "tile" /\ ~Whole => i_row = th

\* Where the loop over the columns stands, and the skews it goes on with.
ColumnsOK ==
  pc \in {"read", "put"} =>
    /\ tocol < w
    /\ IF img.tiled
       THEN /\ col = img.col_offset + tocol
            /\ fromskew = col % tw
            /\ img.separate => fromskew = 0
            /\ this_tw = tw - fromskew
            /\ this_toskew = toskew + fromskew
       ELSE /\ col = 0 /\ tocol = 0
            /\ fromskew = tw - w
            /\ this_tw = w
            /\ this_toskew = IF Vertical THEN -(w + w) ELSE 0

\* What the buffer holds, and whether the caller is told of what failed.
BufOK ==
  /\ pc = "put" => \/ Current \in failed
                   \/ buf = [col |-> Current.col, row |-> Current.row, rows |-> Wanted]
  /\ img.stoponerr /\ failed # {} => ret = 0
  /\ ret = 0 => img.stoponerr

\* The pixels that have been put so far, before the lines are mirrored.
Reached(x, l) == \/ l < row
                 \/ pc \in {"read", "put"} /\ l < row + nrow /\ x < tocol
                 \/ pc = "next" /\ l < row + nrow
PutOK ==
  pc \notin {"fix", "done"} /\ ret = 1 =>
    \A x \in Columns, l \in Rows :
      Reached(x, l) /\ Unscathed(x, l) => raster[CellFor(x, l)] = PixelOf(x, l)
PlacedOK ==
  pc = "done" /\ Whole /\ ret = 1 =>
    \A x \in Columns, l \in Rows :
      Unscathed(x, l) => raster[Place(x, l)] = PixelOf(x, l)

\* TIFFReadRGBATile: the lines that have been moved, and those that have not.
\* A line of the tile is written after the lines of the window it may cover.
TilePixel(x, l) == IF x < w /\ l < h THEN PixelOf(x, l) ELSE Zero
EdgeTileAsked == img.op = "tile" /\ Corner(img.orientation) = TOPLEFT /\ failed = {}
FixOK ==
  EdgeTileAsked /\ pc \in {"fix", "done"} =>
    /\ \A x \in Columns, l \in Rows :
         i_row <= l => raster[(h - 1 - l) * w + x] = PixelOf(x, l)
    /\ \A x \in 0..(tw - 1), l \in 0..(th - 1) :
         l < i_row => raster[(th - 1 - l) * tw + x] = TilePixel(x, l)

IInv == /\ RequestOK /\ RasterOK /\ RowsOK /\ ColumnsOK /\ BufOK
        /\ PutOK /\ PlacedOK /\ FixOK /\ RestUntouched

-----------------------------------------------------------------------------
(***************************************************************************)
(* Arithmetic of cells: a raster of lines of W cells.                      *)
(***************************************************************************)
\* Multiplication keeps the order.
LEMMA TimesMonotone ==
  ASSUME NEW m \in Nat, NEW n \in Nat, NEW d \in Nat, m <= n
  PROVE  m * d \in Nat /\ m * d <= n * d
<1>1. PICK k \in Nat : n = m + k
  BY n - m \in Nat
<1>2. n * d = m * d + k * d
  BY <1>1
<1>3. m * d \in Nat /\ k * d \in Nat
  BY SMT
<1> QED
  BY <1>2, <1>3

\* The quotient and what is left.
LEMMA DivRange ==
  ASSUME NEW n \in Nat, NEW d \in Nat \ {0}
  PROVE  /\ n \div d \in Nat
         /\ n % d \in 0..(d - 1)
         /\ n = (n \div d) * d + (n % d)
OBVIOUS

\* The cells of a line come before those of the lines after it.
LEMMA LineOrder ==
  ASSUME NEW W \in Nat, NEW l \in Nat, NEW m \in Nat, l < m, NEW x \in 0..(W - 1)
  PROVE  l * W \in Nat /\ l * W + x < m * W /\ l * W + W <= m * W
<1>1. (l + 1) * W <= m * W /\ l * W \in Nat
  BY TimesMonotone
<1>2. (l + 1) * W = l * W + W
  BY SMT
<1> QED
  BY <1>1, <1>2

\* A line and a column make a cell of the raster.
LEMMA CellRange ==
  ASSUME NEW W \in Nat, NEW n \in Nat, NEW l \in 0..(n - 1), NEW x \in 0..(W - 1)
  PROVE  l * W \in Nat /\ l * W + x \in 0..(W * n - 1)
<1>1. l * W \in Nat /\ l * W + x < n * W
  BY LineOrder
<1>2. n * W = W * n
  BY SMT
<1> QED
  BY <1>1, <1>2

\* No two of them make the same cell.
LEMMA CellUnique ==
  ASSUME NEW W \in Nat, NEW l \in Nat, NEW m \in Nat,
         NEW x \in 0..(W - 1), NEW z \in 0..(W - 1),
         l * W + x = m * W + z
  PROVE  l = m /\ x = z
<1>1. ~(l < m)
  <2> SUFFICES ASSUME l < m PROVE FALSE
    OBVIOUS
  <2>1. l * W + x < m * W /\ m * W \in Nat
    BY LineOrder, TimesMonotone
  <2> QED
    BY <2>1
<1>2. ~(m < l)
  <2> SUFFICES ASSUME m < l PROVE FALSE
    OBVIOUS
  <2>1. m * W + z < l * W /\ l * W \in Nat
    BY LineOrder, TimesMonotone
  <2> QED
    BY <2>1
<1>3. l = m
  BY <1>1, <1>2
<1>4. l * W \in Nat
  BY TimesMonotone
<1> QED
  BY <1>3, <1>4

\* The line and the column are found again by division.
LEMMA CellDivided ==
  ASSUME NEW W \in Nat \ {0}, NEW l \in Nat, NEW x \in 0..(W - 1)
  PROVE  (l * W + x) \div W = l /\ (l * W + x) % W = x
<1> DEFINE c == l * W + x
           q == c \div W
           r == c % W
<1>1. c \in Nat
  BY TimesMonotone
<1>2. q \in Nat /\ r \in 0..(W - 1) /\ c = q * W + r
  <2> HIDE DEF c
  <2> QED
    BY <1>1, DivRange
<1>3. q * W + r = l * W + x
  BY <1>2
<1> HIDE DEF q, r
<1>4. q = l /\ r = x
  BY <1>2, <1>3, CellUnique
<1> QED
  BY <1>4 DEF q, r

\* Every cell of a raster of n lines is of one of them.
LEMMA CellFound ==
  ASSUME NEW W \in Nat \ {0}, NEW n \in Nat, NEW c \in 0..(W * n - 1)
  PROVE  c \div W \in 0..(n - 1) /\ c % W \in 0..(W - 1) /\ c = (c \div W) * W + (c % W)
<1>1. W * n \in Int /\ c \in Nat
  BY SMT
<1>2. c \div W \in Nat /\ c % W \in 0..(W - 1) /\ c = (c \div W) * W + (c % W)
  BY <1>1, DivRange
<1>3. ~(n <= c \div W)
  <2> SUFFICES ASSUME n <= c \div W PROVE FALSE
    OBVIOUS
  <2>1. n * W <= (c \div W) * W /\ n * W \in Nat
    BY <1>2, TimesMonotone
  <2>2. n * W = W * n
    BY SMT
  <2>3. (c \div W) * W \in Int /\ (c \div W) * W <= c
    BY <1>2
  <2> QED
    BY <2>1, <2>2, <2>3
<1> QED
  BY <1>2, <1>3

-----------------------------------------------------------------------------
(***************************************************************************)
(* The request, which no step changes.                                     *)
(***************************************************************************)
LEMMA RequestFacts ==
  ASSUME RequestOK
  PROVE  /\ img.tw \in Nat \ {0} /\ img.th \in Nat \ {0}
         /\ img.width \in Nat /\ img.height \in Nat
         /\ img.col_offset \in Nat /\ img.row_offset \in Nat
         /\ w \in Nat \ {0} /\ h \in Nat \ {0} /\ base \in Nat
         /\ img.col_offset + w <= img.width /\ img.row_offset + h <= img.height
         /\ img.tiled \in BOOLEAN /\ img.separate \in BOOLEAN /\ img.stoponerr \in BOOLEAN
         /\ ~img.tiled => img.tw = img.width
         /\ img.separate => img.col_offset % img.tw = 0
         /\ img.separate /\ ~img.tiled => img.col_offset = 0
         /\ img.op = "tile" => w <= img.tw /\ h <= img.th /\ img.tiled
         /\ img.orientation \in 1..8 /\ img.req_orientation \in 1..4
<1> USE RasterAssumption DEF RasterAssumption
<1>1. /\ img.width \in 1..MaxWidth /\ img.height \in 1..MaxHeight
      /\ img.tw \in TileWidths \cup (1..MaxWidth) /\ img.th \in TileLengths \cup StripRows
      /\ img.tiled \in BOOLEAN /\ img.separate \in BOOLEAN /\ img.stoponerr \in BOOLEAN
      /\ img.orientation \in Orientations /\ img.req_orientation \in 1..4
      /\ img.op \in {"image", "window", "strip", "tile"}
      /\ img.col_offset \in 0..(MaxWidth - 1) /\ img.row_offset \in 0..(MaxHeight - 1)
  BY DEF RequestOK, Images
<1>2. /\ img.tw \in Nat \ {0} /\ img.th \in Nat \ {0}
      /\ img.width \in Nat /\ img.height \in Nat
      /\ img.col_offset \in Nat /\ img.row_offset \in Nat
      /\ img.orientation \in 1..8
      /\ ~img.tiled => img.tw = img.width
  <2>1. img.th \in Nat \ {0} /\ img.tw \in Nat \ {0}
    <3>1. TileLengths \cup StripRows \subseteq Nat \ {0} /\ 1..MaxWidth \subseteq Nat \ {0}
      OBVIOUS
    <3>2. TileWidths \cup (1..MaxWidth) \subseteq Nat \ {0}
      BY <3>1
    <3> QED
      BY <1>1, <3>1, <3>2
  <2>2. ~img.tiled => img.tw = img.width
    BY DEF RequestOK, Possible
  <2>3. /\ img.width \in Nat /\ img.height \in Nat
        /\ img.col_offset \in Nat /\ img.row_offset \in Nat
    BY <1>1
  <2>4. img.orientation \in 1..8
    BY <1>1
  <2> QED
    BY <2>1, <2>2, <2>3, <2>4
<1>3. /\ w \in Nat \ {0} /\ h \in Nat \ {0} /\ base \in Nat
      /\ img.col_offset + w <= img.width /\ img.row_offset + h <= img.height
  BY <1>1, <1>2 DEF RequestOK
<1>4. 0 % img.tw = 0
  BY <1>2
<1>5. /\ img.separate => img.col_offset % img.tw = 0
      /\ img.separate /\ ~img.tiled => img.col_offset = 0
  BY <1>1, <1>4 DEF RequestOK, Allowed
<1>6. img.op = "tile" => w <= img.tw /\ h <= img.th /\ img.tiled
  <2> SUFFICES ASSUME img.op = "tile" PROVE w <= img.tw /\ h <= img.th /\ img.tiled
    OBVIOUS
  <2>1. /\ w = Min2(img.tw, img.width - img.col_offset)
        /\ h = Min2(img.th, img.height - img.row_offset)
    BY DEF RequestOK, TileWindow
  <2>2. img.tiled
    BY <1>1 DEF RequestOK, Allowed
  <2> QED
    BY <1>2, <2>1, <2>2 DEF Min2
<1> QED
  BY <1>1, <1>2, <1>3, <1>5, <1>6

LEMMA CornerRange ==
  ASSUME RequestOK
  PROVE  Corner(img.orientation) \in {1, 2, 3, 4} /\ img.req_orientation \in {1, 2, 3, 4}
BY RequestFacts DEF Corner

\* The flips that setorientation asks for are those that bring the corner of the
\* first pixel to where the request wants it.
LEMMA FlipsAreRight ==
  ASSUME RequestOK
  PROVE  /\ Vertical <=> ((Corner(img.orientation) \in Tops) # (img.req_orientation \in Tops))
         /\ (H \in setorientation) <=>
              ((Corner(img.orientation) \in Lefts) # (img.req_orientation \in Lefts))
<1> DEFINE o == Corner(img.orientation)
           q == img.req_orientation
<1>1. o \in {1, 2, 3, 4} /\ q \in {1, 2, 3, 4}
  BY CornerRange
<1>2. setorientation = Flips[o][q]
  BY <1>1 DEF setorientation, Corner
<1> HIDE DEF o, q
<1>3. /\ Flips[1][1] = {} /\ Flips[1][2] = {H} /\ Flips[1][3] = {H, V} /\ Flips[1][4] = {V}
      /\ Flips[2][1] = {H} /\ Flips[2][2] = {} /\ Flips[2][3] = {V} /\ Flips[2][4] = {H, V}
      /\ Flips[3][1] = {H, V} /\ Flips[3][2] = {V} /\ Flips[3][3] = {} /\ Flips[3][4] = {H}
      /\ Flips[4][1] = {V} /\ Flips[4][2] = {H, V} /\ Flips[4][3] = {H} /\ Flips[4][4] = {}
  BY DEF Flips
<1>4. H # V
  BY DEF H, V
<1>5. /\ (V \in Flips[o][q]) <=> ((o \in Tops) # (q \in Tops))
      /\ (H \in Flips[o][q]) <=> ((o \in Lefts) # (q \in Lefts))
  <2>1. CASE o = 1
    BY <1>1, <1>3, <1>4, <2>1 DEF Tops, Lefts, TOPLEFT, TOPRIGHT, BOTLEFT
  <2>2. CASE o = 2
    BY <1>1, <1>3, <1>4, <2>2 DEF Tops, Lefts, TOPLEFT, TOPRIGHT, BOTLEFT
  <2>3. CASE o = 3
    BY <1>1, <1>3, <1>4, <2>3 DEF Tops, Lefts, TOPLEFT, TOPRIGHT, BOTLEFT
  <2>4. CASE o = 4
    BY <1>1, <1>3, <1>4, <2>4 DEF Tops, Lefts, TOPLEFT, TOPRIGHT, BOTLEFT
  <2> QED
    BY <1>1, <2>1, <2>2, <2>3, <2>4
<1> QED
  BY <1>2, <1>5 DEF Vertical, o, q

\* The lines and the cells of the window.
LEMMA LineRange ==
  ASSUME RequestOK, NEW l \in Rows
  PROVE  LineOf(l) \in 0..(h - 1) /\ LineOf(LineOf(l)) = l
BY RequestFacts DEF Rows, LineOf

LEMMA CellForRange ==
  ASSUME RequestOK, NEW x \in Columns, NEW l \in Rows
  PROVE  CellFor(x, l) \in base..(base + w * h - 1)
<1>1. w \in Nat /\ h \in Nat /\ base \in Nat /\ LineOf(l) \in 0..(h - 1) /\ x \in 0..(w - 1)
  BY RequestFacts, LineRange DEF Columns
<1> DEFINE c == LineOf(l) * w + x
<1>2. c \in 0..(w * h - 1)
  BY <1>1, CellRange
<1>3. CellFor(x, l) = base + c
  BY <1>1, <1>2, CellRange DEF CellFor
<1>4. w * h \in Int
  BY <1>1
<1> HIDE DEF c
<1> QED
  BY <1>1, <1>2, <1>3, <1>4

LEMMA CellForUnique ==
  ASSUME RequestOK, NEW x \in Columns, NEW l \in Rows, NEW z \in Columns, NEW m \in Rows,
         CellFor(x, l) = CellFor(z, m)
  PROVE  x = z /\ l = m
<1> DEFINE a == LineOf(l)
           b == LineOf(m)
<1>1. /\ w \in Nat /\ base \in Nat /\ a \in Nat /\ b \in Nat
      /\ x \in 0..(w - 1) /\ z \in 0..(w - 1)
  BY RequestFacts, LineRange DEF Columns
<1>2. base + a * w + x = base + b * w + z
  BY DEF CellFor
<1> HIDE DEF a, b
<1>3. a * w \in Int /\ b * w \in Int
  BY <1>1
<1>4. a * w + x = b * w + z
  BY <1>1, <1>2, <1>3
<1>5. a = b /\ x = z
  BY <1>1, <1>4, CellUnique
<1> QED
  BY <1>5, LineRange DEF a, b

-----------------------------------------------------------------------------
(***************************************************************************)
(* What is put by one call of a put routine: PutWidth columns of nrow rows *)
(* of the window, from column tocol and row row on.                        *)
(***************************************************************************)
LEMMA RowsPut ==
  ASSUME RequestOK, RowsOK, pc \in {"read", "put", "next"}
  PROVE  /\ row \in Nat /\ nrow \in 1..(h - row)
         /\ row + img.row_offset \in Nat
         /\ SkippedRows \in 0..(th - 1) /\ SkippedRows + nrow <= th
<1>1. /\ img.th \in Nat \ {0} /\ img.row_offset \in Nat /\ h \in Nat /\ row \in Nat /\ row < h
      /\ nrow = Min2(RowsToRead, h - row)
  BY RequestFacts DEF RowsOK
<1>2. (row + img.row_offset) % img.th \in 0..(img.th - 1)
  <2>1. row + img.row_offset \in Nat
    BY <1>1
  <2> QED
    BY <1>1, <2>1, DivRange
<1> QED
  BY <1>1, <1>2 DEF RowsToRead, SkippedRows, Min2, th

\* The column of the buffer that is put first.
Origin == IF img.tiled THEN fromskew ELSE img.col_offset

\* The width of what is put, and what the skews come to.
LEMMA PutShape ==
  ASSUME RequestOK, RowsOK, ColumnsOK, pc = "put"
  PROVE  /\ PutWidth \in 1..(w - tocol)
         /\ PutWidth + Skew.to = IF Vertical THEN -w ELSE w
         /\ PutWidth + Skew.from = tw
         /\ Origin \in 0..(tw - 1) /\ Origin + PutWidth <= tw
         /\ pos = SkippedRows * tw + Origin
         /\ img.tiled /\ tocol + PutWidth < w => PutWidth = tw - fromskew
         /\ ~img.tiled => PutWidth = w
<1>1. /\ img.tw \in Nat \ {0} /\ img.col_offset \in Nat /\ w \in Nat \ {0} /\ tocol \in Nat
      /\ img.col_offset + w <= img.width /\ tocol < w
      /\ ~img.tiled => img.tw = img.width
      /\ img.tiled \in BOOLEAN /\ img.separate \in BOOLEAN
      /\ img.separate /\ ~img.tiled => img.col_offset = 0
  BY RequestFacts DEF RowsOK, ColumnsOK
<1>2. /\ RasterAssumption /\ Samples \in Nat
      /\ SkippedRows \in Nat
  BY RasterAssumption, RowsPut DEF RasterAssumption
<1>3. SkippedRows * img.tw \in Nat
  BY <1>1, <1>2, TimesMonotone
<1>4. Vertical \in BOOLEAN
  BY DEF Vertical
<1>5. Origin * Step = Origin
  <2>1. img.separate => Origin = 0
    BY <1>1 DEF ColumnsOK, Origin
  <2>2. Origin \in Int
    <3>1. img.col_offset + tocol \in Nat
      BY <1>1
    <3>2. (img.col_offset + tocol) % img.tw \in 0..(img.tw - 1)
      BY <1>1, <3>1, DivRange
    <3>3. img.tiled => fromskew = (img.col_offset + tocol) % img.tw
      BY DEF ColumnsOK, tw
    <3> QED
      BY <1>1, <3>2, <3>3 DEF Origin
  <2>3. 0 * Samples = 0 /\ Origin * 1 = Origin
    BY <1>2, <2>2
  <2> QED
    BY <2>1, <2>2, <2>3, <1>1 DEF Step
<1>6. pos = SkippedRows * tw + Origin
  BY <1>5 DEF pos, Origin
<1>7. CASE img.tiled
  <2>1. col \in Nat /\ fromskew = col % img.tw
    BY <1>1, <1>7 DEF ColumnsOK, tw
  <2>2. /\ fromskew \in 0..(img.tw - 1)
        /\ this_tw = img.tw - fromskew
        /\ this_toskew = (IF Vertical THEN -(img.tw + w) ELSE -(img.tw - w)) + fromskew
    BY <1>7, <2>1, <1>1, DivRange DEF ColumnsOK, tw, toskew
  <2>3. CASE Clipped
    <3>1. PutWidth = w - tocol
      BY <2>3 DEF PutWidth
    <3>2. Skew.from = img.tw - (w - tocol) /\ Skew.to = toskew + (img.tw - (w - tocol))
      BY <2>3 DEF Skew, ClippedSkew, tw
    <3>3. tocol + this_tw > w
      BY <2>3 DEF Clipped
    <3> QED
      BY <1>1, <1>4, <1>6, <1>7, <2>2, <3>1, <3>2, <3>3 DEF toskew, tw, Origin
  <2>4. CASE ~Clipped
    <3>1. PutWidth = this_tw
      BY <2>4 DEF PutWidth
    <3>2. Skew.from = fromskew /\ Skew.to = this_toskew
      BY <2>4 DEF Skew
    <3>3. ~(tocol + this_tw > w)
      BY <1>7, <2>4 DEF Clipped
    <3> QED
      BY <1>1, <1>4, <1>6, <1>7, <2>2, <3>1, <3>2, <3>3 DEF tw, Origin
  <2> QED
    BY <2>3, <2>4
<1>8. CASE ~img.tiled
  <2>1. /\ tocol = 0 /\ fromskew = img.tw - w /\ this_tw = w
        /\ this_toskew = IF Vertical THEN -(w + w) ELSE 0
    BY <1>8 DEF ColumnsOK, tw
  <2>2. ~Clipped
    BY <1>8 DEF Clipped
  <2>3. PutWidth = w /\ Skew.from = img.tw - w /\ Skew.to = this_toskew
    BY <2>1, <2>2 DEF PutWidth, Skew
  <2> QED
    BY <1>1, <1>4, <1>6, <1>8, <2>1, <2>3 DEF tw, Origin
<1> QED
  BY <1>7, <1>8

\* A cell that is put is the one its column and row of the window have.
LEMMA PutCell ==
  ASSUME RequestOK, RowsOK, ColumnsOK, pc = "put",
         NEW i \in 0..(PutWidth - 1), NEW j \in 0..(nrow - 1)
  PROVE  /\ tocol + i \in Columns /\ row + j \in Rows
         /\ CellOf(i, j) = CellFor(tocol + i, row + j)
<1> DEFINE step == PutWidth + Skew.to
<1>1. /\ w \in Nat /\ h \in Nat /\ base \in Nat /\ row \in Nat /\ tocol \in Nat
      /\ PutWidth \in 1..(w - tocol) /\ nrow \in 1..(h - row)
      /\ step = IF Vertical THEN -w ELSE w
      /\ y = LineOf(row)
  BY RequestFacts, RowsPut, PutShape DEF RowsOK
<1>2. tocol + i \in Columns /\ row + j \in Rows /\ i \in Nat /\ j \in Nat
  BY <1>1 DEF Columns, Rows
<1>3. CellOf(i, j) = base + y * w + tocol + j * step + i
  BY DEF CellOf
<1> HIDE DEF step
<1>4. y * w + j * step = LineOf(row + j) * w
  <2>1. CASE Vertical
    <3>1. y = h - 1 - row /\ step = -w /\ LineOf(row + j) = (h - 1 - row) - j
      BY <1>1, <1>2, <2>1 DEF LineOf
    <3>2. (h - 1 - row) * w + j * (-w) = ((h - 1 - row) - j) * w
      BY <1>1, <1>2
    <3> QED
      BY <3>1, <3>2
  <2>2. CASE ~Vertical
    <3>1. y = row /\ step = w /\ LineOf(row + j) = row + j
      BY <1>1, <2>2 DEF LineOf
    <3>2. row * w + j * w = (row + j) * w
      BY <1>1, <1>2
    <3> QED
      BY <3>1, <3>2
  <2> QED
    BY <2>1, <2>2
<1>5. y * w \in Int /\ j * step \in Int
  <2>1. y \in Int /\ step \in Int
    BY <1>1 DEF LineOf
  <2> QED
    BY <1>1, <1>2, <2>1
<1> DEFINE a == y * w
           b == j * step
           c == LineOf(row + j) * w
<1>6. CellFor(tocol + i, row + j) = base + c + (tocol + i)
  BY DEF CellFor
<1>7. CellOf(i, j) = base + a + tocol + b + i
  BY <1>3
<1>8. a \in Int /\ b \in Int /\ a + b = c
  BY <1>4, <1>5
<1> HIDE DEF a, b, c
<1>9. CellOf(i, j) = CellFor(tocol + i, row + j)
  BY <1>1, <1>2, <1>6, <1>7, <1>8
<1> QED
  BY <1>2, <1>9

\* Conversely, the columns and rows from tocol and row on that are put.
LEMMA PutPlace ==
  ASSUME RequestOK, RowsOK, ColumnsOK, pc = "put",
         NEW x \in tocol..(tocol + PutWidth - 1), NEW l \in row..(row + nrow - 1)
  PROVE  /\ x \in Columns /\ l \in Rows
         /\ x - tocol \in 0..(PutWidth - 1) /\ l - row \in 0..(nrow - 1)
         /\ CellOf(x - tocol, l - row) = CellFor(x, l)
<1>1. /\ w \in Nat /\ row \in Nat /\ tocol \in Nat
      /\ PutWidth \in 1..(w - tocol) /\ nrow \in 1..(h - row)
  BY RequestFacts, RowsPut, PutShape DEF RowsOK
<1>2. x - tocol \in 0..(PutWidth - 1) /\ l - row \in 0..(nrow - 1)
  BY <1>1
<1>3. tocol + (x - tocol) = x /\ row + (l - row) = l
  BY <1>1
<1> QED
  BY <1>2, <1>3, PutCell

\* The chunk that is put, and where in it the first column is.
LEMMA CurrentPlace ==
  ASSUME RequestOK, RowsOK, ColumnsOK, pc \in {"read", "put"}
  PROVE  /\ col \div tw \in Nat /\ Origin \in 0..(tw - 1)
         /\ Current.col = (col \div tw) * tw
         /\ img.col_offset + tocol = (col \div tw) * tw + Origin
         /\ (row + img.row_offset) \div th \in Nat
         /\ Current.row = ((row + img.row_offset) \div th) * th
         /\ row + img.row_offset = ((row + img.row_offset) \div th) * th + SkippedRows
<1>1. /\ img.tw \in Nat \ {0} /\ img.th \in Nat \ {0} /\ img.col_offset \in Nat
      /\ img.row_offset \in Nat /\ w \in Nat \ {0} /\ tocol \in Nat
      /\ img.col_offset + w <= img.width
      /\ ~img.tiled => img.tw = img.width
  BY RequestFacts DEF RowsOK
<1> DEFINE r == row + img.row_offset
<1>2. Current.col = (col \div img.tw) * img.tw /\ Current.row = (r \div img.th) * img.th
  BY DEF Current, ChunkAt, tw, th
<1>3. r \in Nat
  BY RowsPut
<1>4. SkippedRows = r % img.th
  BY DEF SkippedRows, th
<1>5. col \in Nat
  BY <1>1 DEF ColumnsOK
<1> HIDE DEF r
<1>6. r \div img.th \in Nat /\ r = (r \div img.th) * img.th + SkippedRows
  BY <1>1, <1>3, <1>4, DivRange
<1>7. /\ col \div img.tw \in Nat /\ col % img.tw \in 0..(img.tw - 1)
      /\ col = (col \div img.tw) * img.tw + (col % img.tw)
  BY <1>1, <1>5, DivRange
<1>8. CASE img.tiled
  <2>1. col = img.col_offset + tocol /\ Origin = col % img.tw
    BY <1>8 DEF ColumnsOK, Origin, tw
  <2> QED
    BY <1>2, <1>6, <1>7, <2>1 DEF tw, th, r
<1>9. CASE ~img.tiled
  <2>1. col = 0 /\ tocol = 0 /\ Origin = img.col_offset
    BY <1>9 DEF ColumnsOK, Origin
  <2>2. 0 \div img.tw = 0 /\ 0 * img.tw = 0
    BY <1>1
  <2>3. img.col_offset \in 0..(img.tw - 1)
    BY <1>1, <1>9
  <2>4. /\ col \div img.tw = 0 /\ (col \div img.tw) * img.tw = 0
        /\ img.col_offset + tocol = 0 + Origin /\ Origin \in 0..(img.tw - 1)
    BY <1>1, <2>1, <2>2, <2>3
  <2> QED
    BY <1>2, <1>6, <2>4 DEF tw, th, r
<1> QED
  BY <1>8, <1>9

LEMMA SumMoved ==
  ASSUME NEW a \in Nat, NEW b \in Nat, NEW c \in Nat, NEW d \in Nat, NEW i \in Nat,
         a + b = c + d
  PROVE  a + (b + i) = c + (d + i)
OBVIOUS

\* What is put is of the current chunk, and when that was read it is the pixel
\* of that column and row of the window.
LEMMA PutPixel ==
  ASSUME RequestOK, RowsOK, ColumnsOK, pc = "put",
         NEW i \in 0..(PutWidth - 1), NEW j \in 0..(nrow - 1)
  PROVE  /\ ChunkAt(img.col_offset + (tocol + i), img.row_offset + (row + j)) = Current
         /\ buf = [col |-> Current.col, row |-> Current.row, rows |-> Wanted]
              => Pixel(SourceOf(i, j)) = PixelOf(tocol + i, row + j)
<1> DEFINE q == col \div tw
           s == (row + img.row_offset) \div th
           x == img.col_offset + (tocol + i)
           r == img.row_offset + (row + j)
           line == SkippedRows + j
           column == Origin + i
<1>1. /\ tw \in Nat \ {0} /\ th \in Nat \ {0} /\ img.col_offset \in Nat
      /\ img.row_offset \in Nat /\ w \in Nat /\ tocol \in Nat /\ row \in Nat
      /\ img.width \in Nat /\ img.height \in Nat /\ h \in Nat
      /\ img.col_offset + w <= img.width /\ img.row_offset + h <= img.height
      /\ img.tiled \in BOOLEAN
  BY RequestFacts DEF RowsOK, tw, th
<1>2. /\ PutWidth \in 1..(w - tocol) /\ nrow \in 1..(h - row)
      /\ Origin \in 0..(tw - 1) /\ Origin + PutWidth <= tw
      /\ SkippedRows \in 0..(th - 1) /\ SkippedRows + nrow <= th
  BY PutShape, RowsPut
<1>3. /\ q \in Nat /\ s \in Nat /\ Current = [col |-> q * tw, row |-> s * th]
      /\ img.col_offset + tocol = q * tw + Origin
      /\ row + img.row_offset = s * th + SkippedRows
  BY CurrentPlace DEF Current, ChunkAt
<1>4. /\ column \in 0..(tw - 1) /\ line \in 0..(th - 1)
      /\ i \in Nat /\ j \in Nat
  BY <1>1, <1>2
<1>5. q * tw \in Nat /\ s * th \in Nat
  BY <1>1, <1>3, TimesMonotone
<1> HIDE DEF q, s
<1>6. x = q * tw + column /\ r = s * th + line
  <2> DEFINE a == q * tw
             b == s * th
  <2>1. /\ a \in Nat /\ b \in Nat
        /\ img.col_offset + tocol = a + Origin
        /\ row + img.row_offset = b + SkippedRows
    BY <1>3, <1>5
  <2> HIDE DEF a, b
  <2>2. /\ img.col_offset \in Nat /\ img.row_offset \in Nat /\ tocol \in Nat /\ row \in Nat
        /\ Origin \in Nat /\ SkippedRows \in Nat /\ i \in Nat /\ j \in Nat
    BY <1>1, <1>2, <1>4
  <2>3. x = a + column
    <3>1. img.col_offset + tocol = a + Origin /\ a \in Nat
      BY <2>1
    <3> QED
      BY <2>2, <3>1, SumMoved
  <2>4. r = b + line
    <3>1. img.row_offset + row = b + SkippedRows
      BY <2>1, <2>2
    <3> QED
      BY <2>1, <2>2, <3>1, SumMoved
  <2> QED
    BY <2>3, <2>4 DEF a, b
<1>7. x < img.width /\ r < img.height
  BY <1>1, <1>2, <1>4
<1> HIDE DEF x, r, column, line
<1>8. x \div tw = q /\ r \div th = s
  BY <1>1, <1>3, <1>4, <1>6, CellDivided
<1>9. ChunkAt(x, r) = Current
  BY <1>3, <1>8 DEF ChunkAt
<1>10. ASSUME buf = [col |-> Current.col, row |-> Current.row, rows |-> Wanted]
       PROVE  Pixel(SourceOf(i, j)) = <<x, r>>
  <2> DEFINE index == line * tw + column
  <2>1. SourceOf(i, j) = index
    <3>1. SourceOf(i, j) = SkippedRows * tw + Origin + j * tw + i
      BY PutShape DEF SourceOf
    <3>2. (SkippedRows + j) * tw = SkippedRows * tw + j * tw
      BY <1>1, <1>2, <1>4
    <3>3. SkippedRows * tw \in Int /\ j * tw \in Int
      BY <1>1, <1>2, <1>4
    <3> QED
      BY <1>2, <1>4, <3>1, <3>2, <3>3 DEF line, column
  <2>2. index \div tw = line /\ index % tw = column
    <3>1. line \in Nat
      BY <1>1, <1>4
    <3> QED
      BY <1>1, <1>4, <3>1, CellDivided
  <2>3. buf.col = q * tw /\ buf.row = s * th /\ buf.rows = Wanted
    BY <1>3, <1>10
  <2>4. Wanted \in Nat /\ line < Wanted
    BY <1>1, <1>2, <1>4 DEF Wanted, SkippedRows, line
  <2>5. index \in 0..(tw * Wanted - 1)
    BY <1>1, <1>4, <2>4, CellRange
  <2> HIDE DEF index
  <2>6. Pixel(index) = <<buf.col + column, buf.row + line>>
    BY <1>6, <1>7, <2>2, <2>3, <2>5 DEF Pixel
  <2> QED
    BY <1>6, <2>1, <2>3, <2>6
<1> QED
  BY <1>9, <1>10 DEF x, r, PixelOf

-----------------------------------------------------------------------------
(***************************************************************************)
(* The initial states.                                                     *)
(***************************************************************************)
LEMMA InitRequest == Init => RequestOK /\ w * h \in Nat
<1> SUFFICES ASSUME Init PROVE RequestOK /\ w * h \in Nat
  OBVIOUS
<1> USE RasterAssumption DEF RasterAssumption
<1>1. /\ img \in Images /\ Possible(img) /\ Allowed(img)
      /\ \E win \in Window(img) : w = win[1] /\ h = win[2]
      /\ \E extra \in (IF img.op = "image" THEN 0..1 ELSE {0}) : base = extra * w
  BY DEF Init
<1>2. /\ img.width \in 1..MaxWidth /\ img.height \in 1..MaxHeight
      /\ img.tw \in TileWidths \cup (1..MaxWidth) /\ img.th \in TileLengths \cup StripRows
      /\ img.op \in {"image", "window", "strip", "tile"}
      /\ img.col_offset \in 0..(MaxWidth - 1) /\ img.row_offset \in 0..(MaxHeight - 1)
  BY <1>1 DEF Images
<1>3. /\ img.width \in Nat /\ img.height \in Nat /\ img.col_offset \in Nat
      /\ img.row_offset \in Nat
  BY <1>2
<1>4. img.tw \in Nat \ {0} /\ img.th \in Nat \ {0}
  <2>1. TileWidths \cup (1..MaxWidth) \subseteq Nat \ {0}
    <3>1. 1..MaxWidth \subseteq Nat \ {0}
      OBVIOUS
    <3> QED
      BY <3>1
  <2>2. TileLengths \cup StripRows \subseteq Nat \ {0}
    OBVIOUS
  <2> QED
    BY <1>2, <2>1, <2>2
<1>5. img.col_offset < img.width /\ img.row_offset < img.height
  BY <1>1 DEF Possible
<1>6. /\ w \in 1..(img.width - img.col_offset) /\ h \in 1..(img.height - img.row_offset)
      /\ img.op = "tile" => <<w, h>> = TileWindow(img)
  <2> PICK win \in Window(img) : w = win[1] /\ h = win[2]
    BY <1>1
  <2>1. CASE img.op = "image"
    <3>1. win = <<img.width, img.height>>
      BY <2>1 DEF Window
    <3>2. img.col_offset = 0 /\ img.row_offset = 0
      BY <1>1, <2>1 DEF Allowed
    <3> QED
      BY <1>3, <1>5, <2>1, <3>1, <3>2
  <2>2. CASE img.op = "window"
    <3>1. win \in (1..(img.width - img.col_offset)) \X (1..(img.height - img.row_offset))
      BY <2>2 DEF Window
    <3> QED
      BY <2>2, <3>1
  <2>3. CASE img.op = "strip"
    <3>1. win = <<img.width, StripHeight(img)>>
      BY <2>3 DEF Window
    <3>2. img.col_offset = 0
      BY <1>1, <2>3 DEF Allowed
    <3> QED
      BY <1>3, <1>4, <1>5, <2>3, <3>1, <3>2 DEF StripHeight, Min2
  <2>4. CASE img.op = "tile"
    <3>1. win = TileWindow(img)
      BY <2>4 DEF Window
    <3>2. win = <<Min2(img.tw, img.width - img.col_offset), Min2(img.th, img.height - img.row_offset)>>
      BY <3>1 DEF TileWindow
    <3> QED
      BY <1>3, <1>4, <1>5, <2>4, <3>1, <3>2 DEF Min2
  <2> QED
    BY <1>2, <2>1, <2>2, <2>3, <2>4
<1>7. base \in 0..MaxWidth /\ (img.op = "tile" => base = 0)
  <2> PICK extra \in (IF img.op = "image" THEN 0..1 ELSE {0}) : base = extra * w
    BY <1>1
  <2>1. w \in 1..MaxWidth
    BY <1>2, <1>3, <1>6
  <2>2. 0 * w = 0 /\ 1 * w = w
    BY <2>1
  <2>3. extra = 0 \/ (extra = 1 /\ img.op = "image")
    OBVIOUS
  <2> QED
    BY <2>1, <2>2, <2>3
<1>8. w * h \in Nat
  BY <1>3, <1>6
<1> QED
  BY <1>1, <1>6, <1>7, <1>8 DEF RequestOK

LEMMA InitInv == Init => IInv
<1> SUFFICES ASSUME Init PROVE IInv
  OBVIOUS
<1>1. RequestOK /\ w * h \in Nat
  BY InitRequest
<1>2. /\ img.tw \in Nat \ {0} /\ img.th \in Nat \ {0} /\ w \in Nat \ {0} /\ h \in Nat \ {0}
      /\ base \in Nat
      /\ img.op = "tile" => w <= img.tw /\ h <= img.th /\ base = 0
  BY <1>1, RequestFacts DEF RequestOK
<1>3. PICK extra \in (IF img.op = "image" THEN 0..1 ELSE {0}) :
        /\ raster = [cell \in 0..(Room(img, extra) - 1) |-> Untouched]
        /\ base = extra * w
  BY DEF Init
<1>4. DOMAIN raster = 0..(Room(img, extra) - 1) /\ \A cell \in DOMAIN raster : raster[cell] = Untouched
  BY <1>3
<1>5. RasterOK
  <2>1. Room(img, extra) \in Nat /\ base + w * h <= Room(img, extra)
    <3>1. CASE img.op = "tile"
      <4>1. w * h <= img.tw * h /\ h * img.tw <= img.th * img.tw
        BY <1>2, <3>1, TimesMonotone
      <4>2. img.tw * h = h * img.tw /\ img.th * img.tw = img.tw * img.th /\ img.tw * img.th \in Nat
        BY <1>2
      <4>3. Room(img, extra) = img.tw * img.th
        BY <3>1 DEF Room
      <4>4. w * h \in Int /\ img.tw * h \in Int /\ base = 0
        BY <1>2, <3>1
      <4> QED
        BY <4>1, <4>2, <4>3, <4>4
    <3>2. CASE img.op # "tile"
      <4>1. Room(img, extra) = w * (h + extra)
        BY <3>2 DEF Room
      <4>2. extra \in Nat
        OBVIOUS
      <4>3. w * (h + extra) = extra * w + w * h
        BY <1>2, <4>2
      <4>4. w * h \in Nat
        BY <1>1
      <4> QED
        BY <1>2, <1>3, <4>1, <4>3, <4>4
    <3> QED
      BY <3>1, <3>2
  <2>2. img.op = "tile" => img.tw * img.th <= Room(img, extra)
    <3>1. img.tw * img.th \in Int
      BY <1>2
    <3> QED
      BY <3>1 DEF Room
  <2>3. raster = [cell \in DOMAIN raster |-> raster[cell]]
    BY <1>3
  <2>4. ~stray
    BY DEF Init
  <2> QED
    BY <1>4, <2>1, <2>2, <2>3, <2>4 DEF RasterOK, tw, th
<1>6. RowsOK
  BY <1>2 DEF Init, RowsOK, Steps, tw, th
<1>7. ColumnsOK /\ BufOK /\ PlacedOK /\ FixOK
  BY DEF Init, ColumnsOK, BufOK, PlacedOK, FixOK
<1>8. PutOK
  <2>1. \A x \in Columns, l \in Rows : ~Reached(x, l)
    BY <1>2 DEF Init, Reached, Rows
  <2> QED
    BY <2>1 DEF PutOK
<1>9. RestUntouched
  BY <1>4 DEF RestUntouched
<1> QED
  BY <1>1, <1>5, <1>6, <1>7, <1>8, <1>9 DEF IInv

-----------------------------------------------------------------------------
(***************************************************************************)
(* The steps.                                                              *)
(***************************************************************************)
\* No step changes the request, nor what follows from it.
LEMMA RequestKept ==
  ASSUME UNCHANGED <<img, w, h, base>>
  PROVE  /\ RequestOK' <=> RequestOK
         /\ tw' = tw /\ th' = th /\ toskew' = toskew
         /\ Columns' = Columns /\ Rows' = Rows
         /\ (Vertical' <=> Vertical) /\ (Whole' <=> Whole)
         /\ setorientation' = setorientation
         /\ \A l : LineOf(l)' = LineOf(l)
         /\ \A x, l : CellFor(x, l)' = CellFor(x, l)
         /\ \A x, l : PixelOf(x, l)' = PixelOf(x, l)
         /\ \A x, l : Place(x, l)' = Place(x, l)
         /\ \A x, l : TilePixel(x, l)' = TilePixel(x, l)
<1>1. tw' = tw /\ th' = th /\ Columns' = Columns /\ Rows' = Rows
  BY DEF tw, th, Columns, Rows
<1>2. setorientation' = setorientation
  BY DEF setorientation, Corner
<1>3. (Vertical' <=> Vertical) /\ (Whole' <=> Whole)
  BY <1>1, <1>2 DEF Vertical, Whole
<1>4. toskew' = toskew
  BY <1>1, <1>3 DEF toskew
<1>5. \A l : LineOf(l)' = LineOf(l)
  BY <1>3 DEF LineOf
<1>6. \A x, l : CellFor(x, l)' = CellFor(x, l)
  BY <1>3 DEF CellFor, LineOf
<1>7. \A x, l : PixelOf(x, l)' = PixelOf(x, l)
  BY DEF PixelOf
<1>8. \A x, l : Place(x, l)' = Place(x, l)
  BY DEF Place, Corner
<1>9. \A x, l : TilePixel(x, l)' = TilePixel(x, l)
  BY DEF TilePixel, PixelOf
<1>10. RequestOK' <=> RequestOK
  BY DEF RequestOK, Possible, Allowed, TileWindow
<1> QED
  BY <1>1, <1>2, <1>3, <1>4, <1>5, <1>6, <1>7, <1>8, <1>9, <1>10

\* A step that leaves the raster alone.
LEMMA RasterKept ==
  ASSUME UNCHANGED <<img, w, h, base, raster, stray>>, RasterOK, RestUntouched
  PROVE  RasterOK' /\ RestUntouched'
BY DEF RasterOK, RestUntouched, tw, th

LEMMA PutKept ==
  ASSUME UNCHANGED <<img, w, h, base, raster>>, PutOK,
         pc \notin {"fix", "done"}, ret' = 1 => ret = 1, failed \subseteq failed',
         \A x \in Columns, l \in Rows : Reached(x, l)' => Reached(x, l) \/ ret' # 1
  PROVE  PutOK'
<1> SUFFICES ASSUME ret' = 1, NEW x \in Columns, NEW l \in Rows,
                    Reached(x, l)', Unscathed(x, l)'
             PROVE  (raster[CellFor(x, l)] = PixelOf(x, l))'
  BY RequestKept DEF PutOK
<1>1. Reached(x, l) /\ ret = 1
  OBVIOUS
<1>2. Unscathed(x, l)
  BY DEF Unscathed, ChunkAt, tw, th
<1>3. raster[CellFor(x, l)] = PixelOf(x, l)
  BY <1>1, <1>2 DEF PutOK
<1>4. CellFor(x, l)' = CellFor(x, l) /\ PixelOf(x, l)' = PixelOf(x, l)
  BY RequestKept
<1> QED
  BY <1>3, <1>4

LEMMA BeginKeeps ==
  ASSUME IInv, Begin
  PROVE  IInv'
<1> USE DEF IInv
<1>1. /\ pc = "begin" /\ pc' = "row" /\ row = 0 /\ row' = 0 /\ y' = Top
      /\ UNCHANGED <<img, w, h, raster, base, nrow, colVars, buf, i_row, ret, failed, stray>>
  BY DEF Begin, RowsOK
<1>2. w \in Nat \ {0} /\ h \in Nat \ {0}
  BY RequestFacts
<1>3. RequestOK' /\ RasterOK' /\ RestUntouched'
  BY <1>1, RequestKept, RasterKept
<1>4. RowsOK'
  <2>1. y' = LineOf(row)'
    BY <1>1, <1>2, RequestKept DEF Top, LineOf
  <2>2. (Whole' <=> Whole) /\ th' = th /\ tw' = tw
    BY <1>1, RequestKept
  <2> QED
    BY <1>1, <1>2, <2>1, <2>2 DEF RowsOK, Steps, colVars
<1>5. ColumnsOK' /\ BufOK' /\ PlacedOK' /\ FixOK'
  BY <1>1 DEF ColumnsOK, BufOK, PlacedOK, FixOK
<1>6. PutOK'
  <2>1. \A x \in Columns, l \in Rows : ~Reached(x, l)'
    BY <1>1, <1>2 DEF Reached, Rows
  <2> QED
    BY <1>1, <2>1, PutKept
<1> QED
  BY <1>3, <1>4, <1>5, <1>6

\* A row of chunks begins: the skews of a window that begins within a tile.
LEMMA BeginRowKeeps ==
  ASSUME IInv, BeginRow
  PROVE  IInv'
<1> USE DEF IInv
<1>1. /\ pc = "row" /\ pc' = "read" /\ row < h /\ tocol' = 0
      /\ nrow' = Min2(RowsToRead, h - row)
      /\ UNCHANGED <<img, w, h, raster, base, row, y, buf, i_row, ret, failed, stray>>
  BY DEF BeginRow
<1>2. /\ w \in Nat \ {0} /\ h \in Nat \ {0} /\ tw \in Nat \ {0} /\ th \in Nat \ {0}
      /\ img.col_offset \in Nat /\ img.row_offset \in Nat
      /\ img.tiled \in BOOLEAN /\ row \in Nat
      /\ ~img.tiled => img.col_offset + w <= tw
      /\ img.separate => img.col_offset % tw = 0
  BY RequestFacts DEF RowsOK, tw, th
<1>3. RequestOK' /\ RasterOK' /\ RestUntouched'
  BY <1>1, RequestKept, RasterKept
<1>4. ColumnsOK' /\ this_tw' \in 0..tw
  <2>1. tw' = tw /\ toskew' = toskew /\ (Vertical' <=> Vertical)
    BY <1>1, RequestKept
  <2>2. CASE img.tiled
    <3>1. /\ col' = img.col_offset /\ fromskew' = img.col_offset % tw
          /\ this_tw' = tw - (img.col_offset % tw)
          /\ this_toskew' = toskew + (img.col_offset % tw)
      BY <2>2 DEF BeginRow
    <3>2. img.col_offset % tw \in 0..(tw - 1)
      BY <1>2, DivRange
    <3>3. col' = img.col_offset + tocol'
      BY <1>1, <1>2, <3>1
    <3> QED
      BY <1>1, <1>2, <2>1, <2>2, <3>1, <3>2, <3>3 DEF ColumnsOK
  <2>3. CASE ~img.tiled
    <3>1. /\ col' = 0 /\ fromskew' = tw - w /\ this_tw' = w
          /\ this_toskew' = IF Vertical THEN -(w + w) ELSE 0
      BY <2>3 DEF BeginRow
    <3> QED
      BY <1>1, <1>2, <2>1, <2>3, <3>1 DEF ColumnsOK
  <2> QED
    BY <2>2, <2>3
<1>5. RowsOK'
  <2>1. y' = LineOf(row)'
    BY <1>1, RequestKept DEF RowsOK, LineOf
  <2>2. (Whole' <=> Whole) /\ th' = th /\ tw' = tw /\ RowsToRead' = RowsToRead
    BY <1>1, RequestKept DEF RowsToRead
  <2>3. nrow' \in 0..h
    <3>1. row + img.row_offset \in Nat
      BY <1>2
    <3>2. (row + img.row_offset) % th \in 0..(th - 1)
      BY <1>2, <3>1, DivRange
    <3> QED
      BY <1>1, <1>2, <3>2 DEF RowsToRead, Min2
  <2> QED
    BY <1>1, <1>2, <1>4, <2>1, <2>2, <2>3 DEF RowsOK, Steps, Min2
<1>6. BufOK' /\ PlacedOK' /\ FixOK'
  BY <1>1 DEF BufOK, PlacedOK, FixOK
<1>7. PutOK'
  <2>1. \A x \in Columns, l \in Rows : Reached(x, l)' => Reached(x, l)
    BY <1>1, <1>2 DEF Reached, Columns
  <2> QED
    BY <1>1, <2>1, PutKept
<1> QED
  BY <1>3, <1>4, <1>5, <1>6, <1>7

\* A chunk is read, or fails to be: then it is among those that failed, and a
\* caller that asked to be stopped is told.
LEMMA ReadChunkKeeps ==
  ASSUME IInv, ReadChunk
  PROVE  IInv'
<1> USE DEF IInv
<1>1. /\ pc = "read"
      /\ UNCHANGED <<img, w, h, raster, base, row, y, nrow, col, tocol, fromskew, this_tw,
                     this_toskew, i_row, stray>>
  BY DEF ReadChunk, rowVars, colVars
<1>2. /\ pc' \in {"put", "next", "mirror"} /\ failed \subseteq failed'
      /\ pc' = "put" => ret' = ret
      /\ pc' # "put" => ret' = 0 /\ img.stoponerr
      /\ failed' # failed => (img.stoponerr => ret' = 0)
      /\ ret' = 0 => ret = 0 \/ img.stoponerr
      /\ pc' = "put" => \/ Current \in failed'
                        \/ buf' = [col |-> Current.col, row |-> Current.row, rows |-> Wanted]
  BY DEF ReadChunk, Stops
<1>3. Current' = Current /\ Wanted' = Wanted /\ RowsToRead' = RowsToRead
  BY <1>1 DEF Current, ChunkAt, Wanted, RowsToRead, tw, th
<1>4. RequestOK' /\ RasterOK' /\ RestUntouched'
  BY <1>1, RequestKept, RasterKept
<1>5. /\ tw' = tw /\ th' = th /\ toskew' = toskew /\ (Vertical' <=> Vertical)
      /\ (Whole' <=> Whole)
  BY <1>1, RequestKept
<1>6. RowsOK'
  <2>1. y' = LineOf(row)'
    BY <1>1, <1>5 DEF RowsOK, LineOf
  <2>2. ret' \in {0, 1}
    BY <1>2 DEF RowsOK
  <2> QED
    BY <1>1, <1>2, <1>3, <1>5, <2>1, <2>2 DEF RowsOK, Steps
<1>7. ColumnsOK'
  BY <1>1, <1>2, <1>5 DEF ColumnsOK
<1>8. BufOK'
  BY <1>1, <1>2, <1>3 DEF BufOK
<1>9. PutOK'
  <2>1. ret' = 1 => ret = 1
    BY <1>2 DEF RowsOK
  <2>2. \A x \in Columns, l \in Rows : Reached(x, l)' => Reached(x, l) \/ ret' # 1
    BY <1>1, <1>2 DEF Reached
  <2> QED
    BY <1>1, <1>2, <2>1, <2>2, PutKept
<1>10. PlacedOK' /\ FixOK'
  BY <1>2 DEF PlacedOK, FixOK
<1> QED
  BY <1>4, <1>6, <1>7, <1>8, <1>9, <1>10

LEMMA NextRowKeeps ==
  ASSUME IInv, NextRow
  PROVE  IInv'
<1> USE DEF IInv
<1>1. /\ pc = "next" /\ row' = row + nrow
      /\ y' = IF Vertical THEN y - nrow ELSE y + nrow
      /\ pc' = IF row' < h THEN "row" ELSE "mirror"
      /\ UNCHANGED <<img, w, h, raster, base, nrow, colVars, buf, i_row, ret, failed, stray>>
  BY DEF NextRow
<1>2. /\ h \in Nat \ {0} /\ row \in Nat /\ nrow \in 1..(h - row)
  BY <1>1, RequestFacts, RowsPut
<1>3. RequestOK' /\ RasterOK' /\ RestUntouched'
  BY <1>1, RequestKept, RasterKept
<1>4. RowsOK'
  <2>1. (Vertical' <=> Vertical) /\ (Whole' <=> Whole) /\ th' = th /\ tw' = tw
    BY <1>1, RequestKept
  <2>2. y' = LineOf(row)'
    BY <1>1, <1>2, <2>1 DEF RowsOK, LineOf
  <2>3. row' \in 0..h
    BY <1>1, <1>2
  <2> QED
    BY <1>1, <1>2, <2>1, <2>2, <2>3 DEF RowsOK, Steps, colVars
<1>5. ColumnsOK' /\ BufOK' /\ PlacedOK' /\ FixOK'
  BY <1>1 DEF ColumnsOK, BufOK, PlacedOK, FixOK
<1>6. PutOK'
  <2>1. \A x \in Columns, l \in Rows : Reached(x, l)' => Reached(x, l)
    BY <1>1 DEF Reached
  <2> QED
    BY <1>1, <2>1, PutKept
<1> QED
  BY <1>3, <1>4, <1>5, <1>6

\* The cells that are put are of the window, and what each of them holds then.
Places == (0..(PutWidth - 1)) \X (0..(nrow - 1))
Written == {CellOf(p[1], p[2]) : p \in Places}
PlaceOf(cell) == CHOOSE p \in Places : CellOf(p[1], p[2]) = cell

LEMMA WrittenInWindow ==
  ASSUME RequestOK, RowsOK, ColumnsOK, pc = "put"
  PROVE  Written \subseteq base..(base + w * h - 1)
<1> SUFFICES ASSUME NEW p \in Places
             PROVE  CellOf(p[1], p[2]) \in base..(base + w * h - 1)
  BY DEF Written
<1>1. p[1] \in 0..(PutWidth - 1) /\ p[2] \in 0..(nrow - 1)
  BY DEF Places
<1>2. /\ tocol + p[1] \in Columns /\ row + p[2] \in Rows
      /\ CellOf(p[1], p[2]) = CellFor(tocol + p[1], row + p[2])
  BY <1>1, PutCell
<1> QED
  BY <1>2, CellForRange

LEMMA WrittenPlace ==
  ASSUME RequestOK, RowsOK, ColumnsOK, pc = "put",
         NEW x \in Columns, NEW l \in Rows, CellFor(x, l) \in Written
  PROVE  /\ PlaceOf(CellFor(x, l)) \in Places
         /\ x = tocol + PlaceOf(CellFor(x, l))[1]
         /\ l = row + PlaceOf(CellFor(x, l))[2]
<1> DEFINE p == PlaceOf(CellFor(x, l))
<1>1. p \in Places /\ CellOf(p[1], p[2]) = CellFor(x, l)
  BY DEF Written, PlaceOf
<1> HIDE DEF p
<1>2. p[1] \in 0..(PutWidth - 1) /\ p[2] \in 0..(nrow - 1)
  BY <1>1 DEF Places
<1> DEFINE z == tocol + p[1]
           m == row + p[2]
<1>3. z \in Columns /\ m \in Rows /\ CellOf(p[1], p[2]) = CellFor(z, m)
  BY <1>2, PutCell
<1> HIDE DEF z, m
<1>4. CellFor(x, l) = CellFor(z, m)
  BY <1>1, <1>3
<1>5. x = z /\ l = m
  BY <1>3, <1>4, CellForUnique
<1> QED
  BY <1>1, <1>5 DEF p, z, m

LEMMA PutRaster ==
  ASSUME IInv, Put
  PROVE  /\ DOMAIN raster' = DOMAIN raster
         /\ raster' = [cell \in DOMAIN raster' |-> raster'[cell]]
         /\ Written \subseteq base..(base + w * h - 1)
         /\ base..(base + w * h - 1) \subseteq DOMAIN raster
         /\ \A cell \in DOMAIN raster \ Written : raster'[cell] = raster[cell]
         /\ \A cell \in Written :
              raster'[cell] = Pixel(SourceOf(PlaceOf(cell)[1], PlaceOf(cell)[2]))
         /\ ~stray'
<1> USE DEF IInv
<1>1. pc = "put"
  BY DEF Put
<1>2. Written \subseteq base..(base + w * h - 1)
  BY <1>1, WrittenInWindow
<1>3. base..(base + w * h - 1) \subseteq DOMAIN raster
  <2> PICK n \in Nat : DOMAIN raster = 0..(n - 1) /\ base + w * h <= n
    BY DEF RasterOK
  <2>1. w \in Nat /\ h \in Nat /\ base \in Nat
    BY RequestFacts
  <2>2. w * h \in Int
    BY <2>1
  <2> QED
    BY <2>1, <2>2
<1>4. raster' = [cell \in DOMAIN raster |->
                   IF cell \in Written
                   THEN Pixel(SourceOf(PlaceOf(cell)[1], PlaceOf(cell)[2])) ELSE raster[cell]]
  BY DEF Put, Written, Places, PlaceOf
<1>5. stray' = (stray \/ ~(Written \subseteq DOMAIN raster))
  BY DEF Put, Written, Places
<1>6. ~stray'
  <2>1. ~stray /\ Written \subseteq DOMAIN raster
    BY <1>2, <1>3 DEF RasterOK
  <2> QED
    BY <1>5, <2>1
<1> HIDE DEF IInv
<1> QED
  BY <1>2, <1>3, <1>4, <1>6

\* What has been put stays, and what is put is right, unless its chunk failed.
LEMMA PutFills ==
  ASSUME IInv, Put, ret = 1, NEW x \in Columns, NEW l \in Rows,
         l < row \/ (l < row + nrow /\ x < tocol + PutWidth),
         Unscathed(x, l)
  PROVE  raster'[CellFor(x, l)] = PixelOf(x, l)
<1> USE DEF IInv
<1>1. pc = "put"
  BY DEF Put
<1>2. /\ row \in Nat /\ nrow \in Nat /\ tocol \in Nat /\ PutWidth \in Nat /\ l \in Nat
      /\ x \in Nat
  BY <1>1, RequestFacts, RowsPut, PutShape DEF RowsOK, Columns, Rows
<1>3. CASE l >= row /\ x >= tocol
  <2>1. x \in tocol..(tocol + PutWidth - 1) /\ l \in row..(row + nrow - 1)
    BY <1>2, <1>3
  <2> DEFINE i == x - tocol
             j == l - row
  <2>2. i \in 0..(PutWidth - 1) /\ j \in 0..(nrow - 1) /\ CellOf(i, j) = CellFor(x, l)
    BY <1>1, <2>1, PutPlace
  <2>3. CellFor(x, l) \in Written
    <3>1. <<i, j>> \in Places
      BY <2>2 DEF Places
    <3> QED
      BY <2>2, <3>1 DEF Written
  <2>4. /\ PlaceOf(CellFor(x, l)) \in Places
        /\ x = tocol + PlaceOf(CellFor(x, l))[1] /\ l = row + PlaceOf(CellFor(x, l))[2]
    BY <1>1, <2>3, WrittenPlace
  <2> DEFINE p == PlaceOf(CellFor(x, l))
  <2>5. raster'[CellFor(x, l)] = Pixel(SourceOf(p[1], p[2]))
    BY <2>3, PutRaster
  <2> HIDE DEF p
  <2>6. p[1] \in 0..(PutWidth - 1) /\ p[2] \in 0..(nrow - 1)
    BY <2>4 DEF Places, p
  <2>7. /\ ChunkAt(img.col_offset + x, img.row_offset + l) = Current
        /\ buf = [col |-> Current.col, row |-> Current.row, rows |-> Wanted]
             => Pixel(SourceOf(p[1], p[2])) = PixelOf(x, l)
    <3>1. x = tocol + p[1] /\ l = row + p[2]
      BY <2>4 DEF p
    <3> QED
      BY <1>1, <2>6, <3>1, PutPixel
  <2>8. Current \notin failed
    BY <2>7 DEF Unscathed
  <2>9. buf = [col |-> Current.col, row |-> Current.row, rows |-> Wanted]
    BY <1>1, <2>8 DEF BufOK
  <2> QED
    BY <2>5, <2>7, <2>9
<1>4. CASE ~(l >= row /\ x >= tocol)
  <2>1. Reached(x, l)
    BY <1>1, <1>2, <1>4 DEF Reached
  <2>2. raster[CellFor(x, l)] = PixelOf(x, l)
    BY <1>1, <2>1 DEF PutOK
  <2>3. CellFor(x, l) \notin Written
    <3> SUFFICES ASSUME CellFor(x, l) \in Written PROVE FALSE
      OBVIOUS
    <3> DEFINE p == PlaceOf(CellFor(x, l))
    <3>1. p \in Places /\ x = tocol + p[1] /\ l = row + p[2]
      BY <1>1, WrittenPlace
    <3> HIDE DEF p
    <3>2. p[1] \in Nat /\ p[2] \in Nat
      BY <3>1 DEF Places
    <3> QED
      BY <1>2, <1>4, <3>1, <3>2
  <2>4. CellFor(x, l) \in DOMAIN raster
    BY CellForRange, PutRaster
  <2> QED
    BY <2>2, <2>3, <2>4, PutRaster
<1> QED
  BY <1>3, <1>4

\* The next chunk of the row begins where the one before it ended.
LEMMA NextColumn ==
  ASSUME RequestOK, RowsOK, ColumnsOK, pc = "put", img.tiled, tocol + PutWidth < w
  PROVE  (col + PutWidth) % tw = 0
<1>1. /\ tw \in Nat \ {0} /\ col \in Nat /\ PutWidth = tw - (col % tw)
  BY RequestFacts, PutShape DEF tw, ColumnsOK, RowsOK
<1> DEFINE q == col \div tw
           r == col % tw
<1>2. q \in Nat /\ r \in 0..(tw - 1) /\ col = q * tw + r
  BY <1>1, DivRange
<1>3. PutWidth = tw - r
  BY <1>1
<1> HIDE DEF q, r
<1>4. col + PutWidth = q * tw + tw /\ q * tw + tw = (q + 1) * tw + 0
  <2>1. q * tw \in Nat /\ tw \in Nat
    BY <1>1, <1>2
  <2> DEFINE a == q * tw
  <2>2. col = a + r /\ a \in Nat
    BY <1>2, <2>1
  <2>3. q * tw + tw = (q + 1) * tw + 0
    BY <1>1, <1>2
  <2> HIDE DEF a
  <2>4. col + PutWidth = a + tw
    BY <1>1, <1>2, <1>3, <2>2
  <2> QED
    BY <2>3, <2>4 DEF a
<1>5. q + 1 \in Nat /\ 0 \in 0..(tw - 1)
  BY <1>1, <1>2
<1>6. ((q + 1) * tw + 0) % tw = 0
  BY <1>1, <1>5, CellDivided
<1> QED
  BY <1>4, <1>6

LEMMA PutKeeps ==
  ASSUME IInv, Put
  PROVE  IInv'
<1> USE DEF IInv
<1>1. /\ pc = "put" /\ tocol' = tocol + PutWidth /\ col' = col + PutWidth
      /\ fromskew' = 0 /\ this_tw' = tw /\ this_toskew' = toskew
      /\ pc' = IF img.tiled /\ tocol' < w THEN "read" ELSE "next"
      /\ UNCHANGED <<img, w, h, base, row, y, nrow, buf, i_row, ret, failed>>
  BY DEF Put, rowVars
<1>2. /\ w \in Nat \ {0} /\ tw \in Nat \ {0} /\ th \in Nat \ {0} /\ tocol \in Nat
      /\ PutWidth \in 1..(w - tocol) /\ img.col_offset \in Nat
      /\ row \in Nat /\ nrow \in Nat
      /\ img.tiled \in BOOLEAN
      /\ ~img.tiled => PutWidth = w /\ tocol = 0
  BY <1>1, RequestFacts, PutShape, RowsPut DEF tw, th, RowsOK, ColumnsOK
<1>3. tocol' \in 0..w /\ (pc' = "next" => tocol' = w)
  BY <1>1, <1>2
<1>4. /\ tw' = tw /\ th' = th /\ toskew' = toskew /\ (Vertical' <=> Vertical)
      /\ (Whole' <=> Whole) /\ RequestOK'
  BY <1>1, RequestKept
<1>5. RasterOK'
  <2> PICK n \in Nat : /\ DOMAIN raster = 0..(n - 1) /\ base + w * h <= n
                       /\ img.op = "tile" => tw * th <= n
    BY DEF RasterOK
  <2>1. (base + w * h)' = base + w * h /\ (img.op = "tile")' = (img.op = "tile")
    BY <1>1
  <2>2. /\ DOMAIN raster' = 0..(n - 1) /\ (base + w * h)' <= n
        /\ (img.op = "tile" => tw * th <= n)'
    BY <1>4, <2>1, PutRaster
  <2>3. \E k \in Nat : /\ DOMAIN raster' = 0..(k - 1) /\ (base + w * h)' <= k
                       /\ (img.op = "tile" => tw * th <= k)'
    BY <2>2
  <2> QED
    BY <2>3, PutRaster DEF RasterOK
<1>6. RestUntouched'
  <2> SUFFICES ASSUME img.op # "tile", NEW cell \in DOMAIN raster' \ (base..(base + w * h - 1))
               PROVE  raster'[cell] = Untouched
    BY <1>1 DEF RestUntouched
  <2>1. cell \in DOMAIN raster \ Written /\ raster[cell] = Untouched
    BY PutRaster DEF RestUntouched
  <2> QED
    BY <2>1, PutRaster
<1>7. RowsOK'
  <2>1. y' = LineOf(row)' /\ RowsToRead' = RowsToRead
    BY <1>1, <1>4 DEF RowsOK, LineOf, RowsToRead
  <2>2. /\ row' \in 0..h' /\ nrow' \in 0..h' /\ i_row' \in 0..th' /\ ret' \in {0, 1}
        /\ row' < h' /\ nrow' = Min2(RowsToRead', h' - row') /\ i_row' = 0
    BY <1>1, <1>4, <2>1 DEF RowsOK
  <2>3. pc' \in {"read", "next"} /\ tocol' \in 0..w' /\ this_tw' \in 0..tw'
    BY <1>1, <1>2, <1>3, <1>4
  <2> QED
    BY <1>1, <1>3, <2>1, <2>2, <2>3 DEF RowsOK, Steps
<1>8. ColumnsOK'
  <2> SUFFICES ASSUME pc' = "read" PROVE ColumnsOK'
    BY <1>1 DEF ColumnsOK
  <2>1. img.tiled /\ tocol + PutWidth < w
    BY <1>1
  <2>2. col' % tw = 0
    BY <1>1, <2>1, NextColumn
  <2>3. col' = img.col_offset + tocol'
    BY <1>1, <1>2, <2>1 DEF ColumnsOK
  <2>4. toskew \in Int
    BY <1>2 DEF toskew
  <2> QED
    BY <1>1, <1>2, <1>4, <2>1, <2>2, <2>3, <2>4 DEF ColumnsOK
<1>9. BufOK'
  BY <1>1 DEF BufOK
<1>10. PutOK'
  <2> SUFFICES ASSUME ret' = 1, NEW x \in Columns, NEW l \in Rows,
                      Reached(x, l)', Unscathed(x, l)'
               PROVE  (raster[CellFor(x, l)] = PixelOf(x, l))'
    BY <1>1, RequestKept DEF PutOK
  <2>1. CellFor(x, l)' = CellFor(x, l) /\ PixelOf(x, l)' = PixelOf(x, l)
    BY <1>1, RequestKept
  <2>2. Unscathed(x, l) /\ ret = 1
    BY <1>1 DEF Unscathed, ChunkAt, tw, th
  <2>3. l < row \/ (l < row + nrow /\ x < tocol + PutWidth)
    BY <1>1, <1>3 DEF Reached, Columns
  <2>4. raster'[CellFor(x, l)] = PixelOf(x, l)
    BY <2>2, <2>3, PutFills
  <2> QED
    BY <2>1, <2>4
<1>11. PlacedOK' /\ FixOK'
  BY <1>1 DEF PlacedOK, FixOK
<1> QED
  BY <1>4, <1>5, <1>6, <1>7, <1>8, <1>9, <1>10, <1>11

\* Where a pixel goes when the lines are mirrored, if they are.
LEMMA PlaceForms ==
  ASSUME RequestOK, NEW x \in Columns, NEW l \in Rows
  PROVE  /\ w - 1 - x \in Columns
         /\ H \in setorientation => Place(x, l) = CellFor(w - 1 - x, l)
         /\ H \notin setorientation => Place(x, l) = CellFor(x, l)
<1>1. w \in Nat \ {0} /\ h \in Nat \ {0} /\ base \in Nat /\ x \in Nat /\ l \in Nat
  BY RequestFacts DEF Columns, Rows
<1>2. w - 1 - x \in Columns
  BY <1>1 DEF Columns
<1> DEFINE a == LineOf(l)
           z == IF H \in setorientation THEN w - 1 - x ELSE x
<1>3. Place(x, l) = base + w * a + z
  BY FlipsAreRight DEF Place, LineOf
<1>4. a \in Int /\ w * a = a * w
  BY <1>1 DEF LineOf
<1> QED
  BY <1>2, <1>3, <1>4 DEF CellFor

\* What mirroring does: each pixel that is in the window goes to its place, and
\* the rest of the raster is left alone.
LEMMA MirrorRaster ==
  ASSUME IInv, Mirror
  PROVE  /\ DOMAIN raster' = DOMAIN raster
         /\ raster' = [cell \in DOMAIN raster' |-> raster'[cell]]
         /\ \A cell \in DOMAIN raster \ (base..(base + w * h - 1)) : raster'[cell] = raster[cell]
         /\ \A x \in Columns, l \in Rows : raster'[Place(x, l)] = raster[CellFor(x, l)]
<1> USE DEF IInv
<1> DEFINE line(cell) == (cell - base) \div w
           mirrored(cell) == base + line(cell) * w + (w - 1 - ((cell - base) % w))
<1>1. raster' = IF H \in setorientation
                THEN [cell \in DOMAIN raster |->
                        IF cell \in base..(base + w * h - 1) THEN raster[mirrored(cell)]
                                                             ELSE raster[cell]]
                ELSE raster
  BY DEF Mirror
<1>2. /\ DOMAIN raster' = DOMAIN raster
      /\ raster' = [cell \in DOMAIN raster' |-> raster'[cell]]
      /\ \A cell \in DOMAIN raster \ (base..(base + w * h - 1)) : raster'[cell] = raster[cell]
  <2> HIDE DEF mirrored
  <2>1. CASE H \in setorientation
    BY <1>1, <2>1
  <2>2. CASE H \notin setorientation
    BY <1>1, <2>2 DEF RasterOK
  <2> QED
    BY <2>1, <2>2
<1>3. base..(base + w * h - 1) \subseteq DOMAIN raster
  <2> PICK n \in Nat : DOMAIN raster = 0..(n - 1) /\ base + w * h <= n
    BY DEF RasterOK
  <2>1. w \in Nat /\ h \in Nat /\ base \in Nat
    BY RequestFacts
  <2>2. w * h \in Int
    BY <2>1
  <2> QED
    BY <2>1, <2>2
<1>4. ASSUME NEW x \in Columns, NEW l \in Rows
      PROVE  raster'[Place(x, l)] = raster[CellFor(x, l)]
  <2>1. CASE H \notin setorientation
    BY <1>1, <2>1, PlaceForms
  <2>2. CASE H \in setorientation
    <3> DEFINE z == w - 1 - x
               cell == CellFor(z, l)
               a == LineOf(l)
    <3>1. z \in Columns /\ Place(x, l) = cell
      BY <2>2, PlaceForms
    <3>2. /\ w \in Nat \ {0} /\ base \in Nat /\ a \in Nat /\ x \in 0..(w - 1)
          /\ z \in 0..(w - 1) /\ w - 1 - z = x
      BY RequestFacts, LineRange DEF Columns
    <3>3. cell \in base..(base + w * h - 1)
      BY <3>1, CellForRange
    <3>4. raster'[cell] = raster[mirrored(cell)]
      <4> HIDE DEF mirrored, cell
      <4> QED
        BY <1>1, <1>3, <2>2, <3>3
    <3>5. cell = base + a * w + z /\ CellFor(x, l) = base + a * w + x
      BY DEF CellFor
    <3> HIDE DEF a, z, cell
    <3>6. a * w \in Nat
      BY <3>2, TimesMonotone
    <3>7. cell - base = a * w + z
      BY <3>2, <3>5, <3>6
    <3>8. line(cell) = a /\ (cell - base) % w = z
      BY <3>2, <3>7, CellDivided
    <3>9. mirrored(cell) = base + a * w + (w - 1 - z)
      BY <3>8
    <3> HIDE DEF mirrored
    <3> QED
      BY <3>1, <3>2, <3>4, <3>5, <3>9
  <2> QED
    BY <2>1, <2>2
<1> QED
  BY <1>2, <1>4

LEMMA MirrorKeeps ==
  ASSUME IInv, Mirror
  PROVE  IInv'
<1> USE DEF IInv
<1>1. /\ pc = "mirror" /\ pc' \in {"fix", "done"}
      /\ pc' = "fix" => img.op = "tile" /\ ~Whole
      /\ pc' = "done" /\ img.op = "tile" => Whole
      /\ UNCHANGED <<img, w, h, base, row, y, nrow, tocol, this_tw, i_row, ret, failed, stray>>
  BY DEF Mirror, rowVars, colVars, Whole
<1>2. /\ (Vertical' <=> Vertical) /\ (Whole' <=> Whole) /\ tw' = tw /\ th' = th
      /\ RequestOK'
  BY <1>1, RequestKept
<1>3. th \in Nat \ {0} /\ i_row = 0
  BY <1>1, RequestFacts DEF th, RowsOK
<1>4. RasterOK'
  <2> PICK n \in Nat : /\ DOMAIN raster = 0..(n - 1) /\ base + w * h <= n
                       /\ img.op = "tile" => tw * th <= n
    BY DEF RasterOK
  <2>1. (base + w * h)' = base + w * h /\ (img.op = "tile")' = (img.op = "tile")
    BY <1>1
  <2>2. /\ DOMAIN raster' = 0..(n - 1) /\ (base + w * h)' <= n
        /\ (img.op = "tile" => tw * th <= n)'
    BY <1>2, <2>1, MirrorRaster
  <2>3. \E k \in Nat : /\ DOMAIN raster' = 0..(k - 1) /\ (base + w * h)' <= k
                       /\ (img.op = "tile" => tw * th <= k)'
    BY <2>2
  <2>4. ~stray'
    BY <1>1 DEF RasterOK
  <2> QED
    BY <2>3, <2>4, MirrorRaster DEF RasterOK
<1>5. RestUntouched'
  <2> SUFFICES ASSUME img.op # "tile", NEW cell \in DOMAIN raster' \ (base..(base + w * h - 1))
               PROVE  raster'[cell] = Untouched
    BY <1>1 DEF RestUntouched
  <2>1. raster[cell] = Untouched
    BY MirrorRaster DEF RestUntouched
  <2> QED
    BY <2>1, MirrorRaster
<1>6. RowsOK'
  <2>1. y' = LineOf(row)'
    BY <1>1, <1>2 DEF RowsOK, LineOf
  <2> QED
    BY <1>1, <1>2, <1>3, <2>1 DEF RowsOK, Steps
<1>7. ColumnsOK' /\ BufOK' /\ PutOK'
  BY <1>1 DEF ColumnsOK, BufOK, PutOK
<1>8. ASSUME ret = 1, NEW x \in Columns, NEW l \in Rows, Unscathed(x, l)
      PROVE  raster'[Place(x, l)] = PixelOf(x, l)
  <2>1. Reached(x, l)
    BY <1>1, <1>8 DEF RowsOK, Reached, Rows
  <2> QED
    BY <1>1, <1>8, <2>1, MirrorRaster DEF PutOK
<1>9. PlacedOK'
  <2> SUFFICES ASSUME ret' = 1, NEW x \in Columns, NEW l \in Rows, Unscathed(x, l)'
               PROVE  (raster[Place(x, l)] = PixelOf(x, l))'
    BY <1>1, RequestKept DEF PlacedOK
  <2>1. Place(x, l)' = Place(x, l) /\ PixelOf(x, l)' = PixelOf(x, l)
    BY <1>1, RequestKept
  <2>2. Unscathed(x, l) /\ ret = 1
    BY <1>1 DEF Unscathed, ChunkAt, tw, th
  <2> QED
    BY <1>8, <2>1, <2>2
<1>10. FixOK'
  <2> SUFFICES ASSUME EdgeTileAsked
               PROVE  \A x \in Columns, l \in Rows :
                        raster'[(h - 1 - l) * w + x] = PixelOf(x, l)
    <3>1. EdgeTileAsked' = EdgeTileAsked /\ Columns' = Columns /\ Rows' = Rows
      BY <1>1, RequestKept DEF EdgeTileAsked, Corner
    <3>2. \A x, l : PixelOf(x, l)' = PixelOf(x, l)
      BY <1>1, RequestKept
    <3>3. \A l \in 0..(th' - 1) : ~(l < i_row')
      BY <1>1, <1>2, <1>3
    <3> QED
      BY <1>1, <3>1, <3>2, <3>3 DEF FixOK
  <2>1. ret = 1
    BY DEF EdgeTileAsked, BufOK, RequestOK, Possible, RowsOK
  <2>2. img.req_orientation = BOTLEFT /\ Corner(img.orientation) = TOPLEFT /\ base = 0
    BY DEF EdgeTileAsked, RequestOK, Possible
  <2>3. Vertical /\ H \notin setorientation
    BY <2>2, FlipsAreRight DEF Tops, Lefts, TOPLEFT, TOPRIGHT, BOTLEFT
  <2> SUFFICES ASSUME NEW x \in Columns, NEW l \in Rows
               PROVE  raster'[(h - 1 - l) * w + x] = PixelOf(x, l)
    OBVIOUS
  <2>4. Place(x, l) = 0 + (h - 1 - l) * w + x
    BY <2>2, <2>3, PlaceForms DEF CellFor, LineOf
  <2>5. (h - 1 - l) * w \in Int
    BY RequestFacts DEF Rows
  <2>6. Place(x, l) = (h - 1 - l) * w + x
    BY <2>4, <2>5
  <2>7. Unscathed(x, l)
    BY DEF EdgeTileAsked, Unscathed
  <2> QED
    BY <1>8, <2>1, <2>6, <2>7
<1> QED
  BY <1>2, <1>4, <1>5, <1>6, <1>7, <1>9, <1>10

\* What one turn of the loop of TIFFReadRGBATile does: the line of the tile that
\* it makes, and the cells it leaves alone, before that line and after it.
LEMMA FixLineRaster ==
  ASSUME IInv, FixLine
  PROVE  /\ DOMAIN raster' = DOMAIN raster
         /\ raster' = [cell \in DOMAIN raster' |-> raster'[cell]]
         /\ (th - 1 - i_row) * tw \in Nat
         /\ \A x \in 0..(tw - 1) :
              raster'[(th - 1 - i_row) * tw + x] =
                IF x < w /\ i_row < h THEN raster[(h - 1 - i_row) * w + x] ELSE Zero
         /\ \A cell \in DOMAIN raster :
              (cell < (th - 1 - i_row) * tw \/ cell >= (th - 1 - i_row) * tw + tw)
                => raster'[cell] = raster[cell]
<1> USE DEF IInv
<1>1. pc = "fix" /\ img.op = "tile" /\ i_row \in Nat /\ i_row < th
  BY RequestFacts DEF FixLine, RowsOK
<1>2. /\ w \in Nat \ {0} /\ h \in Nat \ {0} /\ tw \in Nat \ {0} /\ th \in Nat \ {0}
      /\ w <= tw /\ h <= th
  BY <1>1, RequestFacts DEF tw, th
<1> DEFINE to == (th - 1 - i_row) * tw
           from == (h - 1 - i_row) * w
<1>3. /\ to \in Nat
      /\ \A x \in 0..(tw - 1) : to + x \in DOMAIN raster
  <2>1. th - 1 - i_row \in 0..(th - 1)
    BY <1>1, <1>2
  <2>2. PICK n \in Nat : DOMAIN raster = 0..(n - 1) /\ tw * th <= n
    BY <1>1 DEF RasterOK
  <2>3. \A x \in 0..(tw - 1) : to \in Nat /\ to + x \in 0..(tw * th - 1)
    BY <1>2, <2>1, CellRange
  <2>4. tw * th \in Int /\ 0 \in 0..(tw - 1)
    BY <1>2
  <2> HIDE DEF to
  <2> QED
    BY <2>2, <2>3, <2>4
<1>4. raster' = IF i_row < h
                THEN [cell \in DOMAIN raster |->
                        IF cell \in to..(to + w - 1) THEN raster[from + (cell - to)]
                        ELSE IF cell \in (to + w)..(to + tw - 1) THEN Zero
                        ELSE raster[cell]]
                ELSE [cell \in DOMAIN raster |->
                        IF cell \in to..(to + tw - 1) THEN Zero ELSE raster[cell]]
  <2>1. (th - h + LineMoved(i_row)) * tw = to /\ LineMoved(i_row) * w = from
    <3>1. th - h + LineMoved(i_row) = th - 1 - i_row /\ LineMoved(i_row) = h - 1 - i_row
      BY <1>1, <1>2 DEF LineMoved
    <3> QED
      BY <3>1
  <2>2. (th - i_row - 1) * tw = to
    <3>1. th - i_row - 1 = th - 1 - i_row
      BY <1>1, <1>2
    <3> QED
      BY <3>1
  <2> HIDE DEF to, from
  <2> QED
    BY <2>1, <2>2 DEF FixLine
<1>5. from \in Int
  BY <1>1, <1>2
<1> HIDE DEF to, from
<1>6. \A cell \in DOMAIN raster : cell \in Int
  BY DEF RasterOK
<1>7. ASSUME NEW x \in 0..(tw - 1)
      PROVE  raster'[to + x] = IF x < w /\ i_row < h THEN raster[from + x] ELSE Zero
  <2>1. to + x \in DOMAIN raster /\ x \in Nat
    BY <1>2, <1>3
  <2>2. CASE i_row < h /\ x < w
    <3>1. to + x \in to..(to + w - 1) /\ from + ((to + x) - to) = from + x
      BY <1>2, <1>3, <1>5, <2>1, <2>2
    <3> QED
      BY <1>4, <2>1, <2>2, <3>1
  <2>3. CASE i_row < h /\ ~(x < w)
    <3>1. to + x \notin to..(to + w - 1) /\ to + x \in (to + w)..(to + tw - 1)
      BY <1>2, <1>3, <2>1, <2>3
    <3> QED
      BY <1>4, <2>1, <2>3, <3>1
  <2>4. CASE ~(i_row < h)
    <3>1. to + x \in to..(to + tw - 1)
      BY <1>2, <1>3, <2>1
    <3> QED
      BY <1>4, <2>1, <2>4, <3>1
  <2> QED
    BY <2>2, <2>3, <2>4
<1>8. ASSUME NEW cell \in DOMAIN raster, cell < to \/ cell >= to + tw
      PROVE  raster'[cell] = raster[cell]
  <2>1. /\ cell \notin to..(to + w - 1) /\ cell \notin (to + w)..(to + tw - 1)
        /\ cell \notin to..(to + tw - 1)
    BY <1>2, <1>3, <1>6, <1>8
  <2> QED
    BY <1>4, <2>1
<1>9. DOMAIN raster' = DOMAIN raster /\ raster' = [cell \in DOMAIN raster' |-> raster'[cell]]
  BY <1>4
<1> QED
  BY <1>3, <1>7, <1>8, <1>9 DEF to, from

\* A line of the window that is still to be moved is before the line that is
\* made, and a line of the tile that is made already is after it.
LEMMA LineStillThere ==
  ASSUME IInv, FixLine, NEW x \in Columns, NEW l \in Rows, i_row < l
  PROVE  raster'[(h - 1 - l) * w + x] = raster[(h - 1 - l) * w + x]
<1> USE DEF IInv
<1>1. pc = "fix" /\ img.op = "tile" /\ i_row \in Nat /\ i_row < th
  BY RequestFacts DEF FixLine, RowsOK
<1>2. /\ w \in Nat \ {0} /\ h \in Nat \ {0} /\ tw \in Nat \ {0} /\ th \in Nat \ {0}
      /\ w <= tw /\ h <= th /\ x \in 0..(w - 1) /\ l \in 0..(h - 1)
  BY <1>1, RequestFacts DEF tw, th, Columns, Rows
<1> DEFINE m == h - 1 - l
           k == h - 1 - i_row
           t == th - 1 - i_row
<1>3. m \in Nat /\ k \in Nat /\ t \in Nat /\ m < k /\ k <= t /\ m \in 0..(h - 1)
  BY <1>1, <1>2
<1> HIDE DEF m, k, t
<1>4. m * w + x < k * w /\ m * w + x \in 0..(w * h - 1)
  BY <1>2, <1>3, LineOrder, CellRange
<1>5. k * w <= t * w /\ w * t <= tw * t
  BY <1>2, <1>3, TimesMonotone
<1>6. w * t = t * w /\ tw * t = t * tw /\ k * w \in Int /\ t * w \in Int /\ t * tw \in Int
      /\ m * w + x \in Int
  BY <1>2, <1>3
<1>7. m * w + x < t * tw
  BY <1>4, <1>5, <1>6
<1>8. m * w + x \in DOMAIN raster
  <2>1. PICK n \in Nat : DOMAIN raster = 0..(n - 1) /\ base + w * h <= n
    BY <1>1 DEF RasterOK
  <2>2. base = 0 /\ w * h \in Int
    BY <1>1, <1>2 DEF RequestOK
  <2>3. w * h <= n
    BY <2>1, <2>2
  <2> QED
    BY <1>4, <2>1, <2>2, <2>3
<1> QED
  BY <1>7, <1>8, FixLineRaster DEF m, t

LEMMA LineAlreadyMade ==
  ASSUME IInv, FixLine, NEW x \in 0..(tw - 1), NEW l \in 0..(th - 1), l < i_row
  PROVE  raster'[(th - 1 - l) * tw + x] = raster[(th - 1 - l) * tw + x]
<1> USE DEF IInv
<1>1. pc = "fix" /\ img.op = "tile" /\ i_row \in Nat /\ i_row < th
  BY RequestFacts DEF FixLine, RowsOK
<1>2. tw \in Nat \ {0} /\ th \in Nat \ {0}
  BY RequestFacts DEF tw, th
<1> DEFINE m == th - 1 - l
           t == th - 1 - i_row
<1>3. m \in Nat /\ t \in Nat /\ t < m /\ m \in 0..(th - 1) /\ 0 \in 0..(tw - 1)
  BY <1>1, <1>2
<1> HIDE DEF m, t
<1>4. t * tw + tw <= m * tw /\ m * tw + x \in 0..(tw * th - 1)
  BY <1>2, <1>3, LineOrder, CellRange
<1>5. t * tw \in Int /\ m * tw \in Int /\ tw * th \in Int
  BY <1>2, <1>3
<1>6. m * tw + x >= t * tw + tw
  BY <1>2, <1>4, <1>5
<1>7. m * tw + x \in DOMAIN raster
  <2>1. PICK n \in Nat : DOMAIN raster = 0..(n - 1) /\ tw * th <= n
    BY <1>1 DEF RasterOK
  <2> QED
    BY <1>4, <1>5, <2>1
<1> QED
  BY <1>6, <1>7, FixLineRaster DEF m, t

LEMMA FixLineKeeps ==
  ASSUME IInv, FixLine
  PROVE  IInv'
<1> USE DEF IInv
<1>1. /\ pc = "fix" /\ img.op = "tile" /\ ~Whole /\ i_row \in Nat /\ i_row < th
      /\ i_row' = i_row + 1
      /\ pc' = IF i_row' < th THEN "fix" ELSE "done"
      /\ UNCHANGED <<img, w, h, base, row, y, nrow, tocol, this_tw, ret, failed, stray>>
  BY RequestFacts DEF FixLine, RowsOK, rowVars, colVars
<1>2. /\ (Vertical' <=> Vertical) /\ (Whole' <=> Whole) /\ tw' = tw /\ th' = th
      /\ RequestOK'
  BY <1>1, RequestKept
<1>3. th \in Nat \ {0}
  BY <1>1, RequestFacts DEF th
<1>4. RasterOK'
  <2> PICK n \in Nat : /\ DOMAIN raster = 0..(n - 1) /\ base + w * h <= n
                       /\ img.op = "tile" => tw * th <= n
    BY DEF RasterOK
  <2>1. (base + w * h)' = base + w * h /\ (img.op = "tile")' = (img.op = "tile")
    BY <1>1
  <2>2. /\ DOMAIN raster' = 0..(n - 1) /\ (base + w * h)' <= n
        /\ (img.op = "tile" => tw * th <= n)'
    BY <1>2, <2>1, FixLineRaster
  <2>3. \E k \in Nat : /\ DOMAIN raster' = 0..(k - 1) /\ (base + w * h)' <= k
                       /\ (img.op = "tile" => tw * th <= k)'
    BY <2>2
  <2>4. ~stray'
    BY <1>1 DEF RasterOK
  <2> QED
    BY <2>3, <2>4, FixLineRaster DEF RasterOK
<1>5. RowsOK'
  <2>1. y' = LineOf(row)'
    BY <1>1, <1>2 DEF RowsOK, LineOf
  <2> QED
    BY <1>1, <1>2, <1>3, <2>1 DEF RowsOK, Steps
<1>6. ColumnsOK' /\ BufOK' /\ PutOK' /\ PlacedOK' /\ RestUntouched'
  BY <1>1, <1>2 DEF ColumnsOK, BufOK, PutOK, PlacedOK, RestUntouched
<1>7. FixOK'
  <2> SUFFICES ASSUME EdgeTileAsked
               PROVE  /\ \A x \in Columns, l \in Rows :
                           i_row' <= l => raster'[(h - 1 - l) * w + x] = PixelOf(x, l)
                      /\ \A x \in 0..(tw - 1), l \in 0..(th - 1) :
                           l < i_row' => raster'[(th - 1 - l) * tw + x] = TilePixel(x, l)
    <3>1. EdgeTileAsked' = EdgeTileAsked /\ Columns' = Columns /\ Rows' = Rows
      BY <1>1, RequestKept DEF EdgeTileAsked, Corner
    <3>2. \A x, l : PixelOf(x, l)' = PixelOf(x, l) /\ TilePixel(x, l)' = TilePixel(x, l)
      BY <1>1, RequestKept
    <3> QED
      BY <1>1, <1>2, <3>1, <3>2 DEF FixOK
  <2>1. ASSUME NEW x \in Columns, NEW l \in Rows, i_row' <= l
        PROVE  raster'[(h - 1 - l) * w + x] = PixelOf(x, l)
    <3>1. i_row < l /\ i_row <= l
      BY <1>1, <2>1, RequestFacts DEF Rows
    <3> QED
      BY <1>1, <2>1, <3>1, LineStillThere DEF FixOK
  <2>2. ASSUME NEW x \in 0..(tw - 1), NEW l \in 0..(th - 1), l < i_row'
        PROVE  raster'[(th - 1 - l) * tw + x] = TilePixel(x, l)
    <3>1. CASE l < i_row
      BY <1>1, <2>2, <3>1, LineAlreadyMade DEF FixOK
    <3>2. CASE ~(l < i_row)
      <4>1. l = i_row
        BY <1>1, <1>3, <2>2, <3>2
      <4>2. raster'[(th - 1 - i_row) * tw + x] =
              IF x < w /\ i_row < h THEN raster[(h - 1 - i_row) * w + x] ELSE Zero
        BY <2>2, FixLineRaster
      <4>3. ASSUME x < w, i_row < h
            PROVE  raster[(h - 1 - i_row) * w + x] = PixelOf(x, i_row)
        <5>1. x \in Columns /\ i_row \in Rows /\ i_row <= i_row
          BY <1>1, <2>2, <4>3, RequestFacts DEF Columns, Rows, tw
        <5> QED
          BY <1>1, <5>1 DEF FixOK
      <4> QED
        BY <4>1, <4>2, <4>3 DEF TilePixel
    <3> QED
      BY <3>1, <3>2
  <2> QED
    BY <2>1, <2>2
<1> QED
  BY <1>2, <1>4, <1>5, <1>6, <1>7

-----------------------------------------------------------------------------
(***************************************************************************)
(* The theorems.                                                           *)
(***************************************************************************)
LEMMA StutterKeeps ==
  ASSUME IInv, UNCHANGED vars
  PROVE  IInv'
<1> USE DEF vars
<1>1. /\ (Vertical' <=> Vertical) /\ (Whole' <=> Whole) /\ tw' = tw /\ th' = th
      /\ toskew' = toskew /\ Columns' = Columns /\ Rows' = Rows
      /\ \A x, l : CellFor(x, l)' = CellFor(x, l) /\ PixelOf(x, l)' = PixelOf(x, l)
      /\ \A x, l : TilePixel(x, l)' = TilePixel(x, l) /\ Place(x, l)' = Place(x, l)
      /\ RequestOK' <=> RequestOK
  BY RequestKept
<1>2. RequestOK' /\ PlacedOK' /\ RestUntouched'
  BY <1>1 DEF IInv, PlacedOK, Unscathed, ChunkAt, RestUntouched
<1>3. RasterOK' /\ RowsOK' /\ ColumnsOK'
  BY <1>1 DEF IInv, RasterOK, RowsOK, ColumnsOK, LineOf, RowsToRead
<1>4. BufOK'
  BY <1>1 DEF IInv, BufOK, Current, ChunkAt, Wanted
<1>5. PutOK' /\ FixOK'
  BY <1>1 DEF IInv, PutOK, FixOK, Reached, Unscathed, ChunkAt, EdgeTileAsked, Corner
<1> QED
  BY <1>2, <1>3, <1>4, <1>5 DEF IInv

THEOREM Invariance == Spec => []IInv
<1>1. IInv /\ [Next]_vars => IInv'
  <2> SUFFICES ASSUME IInv, [Next]_vars PROVE IInv'
    OBVIOUS
  <2>1. CASE Begin
    BY <2>1, BeginKeeps
  <2>2. CASE BeginRow
    BY <2>2, BeginRowKeeps
  <2>3. CASE ReadChunk
    BY <2>3, ReadChunkKeeps
  <2>4. CASE Put
    BY <2>4, PutKeeps
  <2>5. CASE NextRow
    BY <2>5, NextRowKeeps
  <2>6. CASE Mirror
    BY <2>6, MirrorKeeps
  <2>7. CASE FixLine
    BY <2>7, FixLineKeeps
  <2>8. CASE UNCHANGED vars
    BY <2>8, StutterKeeps
  <2> QED
    BY <2>1, <2>2, <2>3, <2>4, <2>5, <2>6, <2>7, <2>8 DEF Next
<1> QED
  BY InitInv, <1>1, PTL DEF Spec

\* The window never leaves the image, and what is put never leaves the raster,
\* for images, tiles and strips of any size (tif_getimage.c:604-1095).
THEOREM TypeCorrect == Spec => []TypeOK
<1>1. IInv => TypeOK
  <2> SUFFICES ASSUME IInv PROVE TypeOK
    OBVIOUS
  <2> USE DEF IInv
  <2>1. DOMAIN raster = 0..(Cardinality(DOMAIN raster) - 1)
    <3> PICK n \in Nat : DOMAIN raster = 0..(n - 1)
      BY DEF RasterOK
    <3>1. Cardinality(0..(n - 1)) = n
      BY FS_Interval
    <3> QED
      BY <3>1
  <2>2. h \in Nat \ {0}
    BY RequestFacts
  <2>3. y \in -1..h
    BY <2>2 DEF RowsOK, LineOf
  <2> QED
    BY <2>1, <2>3 DEF TypeOK, RequestOK, RowsOK, RasterOK
<1> QED
  BY Invariance, <1>1, PTL

\* Every pixel of the window ends where the orientation asked for has it, of any
\* image and for any window, and a tile or strip that cannot be decoded spoils
\* no other (tif_getimage.c:503-596, 604-1095).
THEOREM PixelsInPlace == Spec => []InPlace
<1>1. IInv => InPlace
  BY DEF IInv, PlacedOK, InPlace, Columns, Rows, PixelOf
<1> QED
  BY Invariance, <1>1, PTL

\* The rest of a raster that is higher than the image is left alone
\* (tif_getimage.c:514-516).
THEOREM RestIsUntouched == Spec => []RestUntouched
<1>1. IInv => RestUntouched
  BY DEF IInv
<1> QED
  BY Invariance, <1>1, PTL

\* An edge tile is spread over the whole tile in place without losing a line,
\* and is zero where it falls off the image (tif_getimage.c:2824-2915).
THEOREM EdgeTilesAreWhole == Spec => []EdgeTiles
<1>1. IInv => EdgeTiles
  <2> SUFFICES ASSUME IInv, pc = "done", EdgeTileAsked,
                      NEW x \in 0..(tw - 1), NEW line \in 0..(th - 1)
               PROVE  raster[(th - 1 - line) * tw + x] =
                        IF x < w /\ line < h THEN PixelOf(x, line)
                        ELSE IF Whole THEN Untouched ELSE Zero
    BY DEF EdgeTiles, EdgeTileAsked, PixelOf
  <2> USE DEF IInv
  <2>1. /\ w \in Nat \ {0} /\ h \in Nat \ {0} /\ tw \in Nat \ {0} /\ th \in Nat \ {0}
        /\ img.op = "tile"
    BY RequestFacts DEF tw, th, EdgeTileAsked
  <2>2. CASE Whole
    <3>1. w = tw /\ h = th
      BY <2>1, <2>2 DEF Whole
    <3>2. i_row <= line
      BY <2>1, <2>2 DEF RowsOK
    <3>3. x \in Columns /\ line \in Rows
      BY <3>1 DEF Columns, Rows
    <3>4. raster[(h - 1 - line) * w + x] = PixelOf(x, line)
      BY <3>2, <3>3 DEF FixOK
    <3>5. x < w /\ line < h
      BY <2>1, <3>1
    <3> QED
      BY <3>1, <3>4, <3>5
  <2>3. CASE ~Whole
    <3>1. i_row = th
      BY <2>1, <2>3 DEF RowsOK
    <3>2. line < i_row
      BY <2>1, <3>1
    <3>3. raster[(th - 1 - line) * tw + x] = TilePixel(x, line)
      BY <3>2 DEF FixOK
    <3> QED
      BY <2>3, <3>3 DEF TilePixel
  <2> QED
    BY <2>2, <2>3
<1> QED
  BY Invariance, <1>1, PTL

\* Every cell of the window is the place of one of its pixels.
LEMMA PlaceFound ==
  ASSUME RequestOK, NEW cell \in base..(base + w * h - 1)
  PROVE  \E x \in Columns, l \in Rows : Place(x, l) = cell
<1>1. w \in Nat \ {0} /\ h \in Nat \ {0} /\ base \in Nat /\ w * h \in Nat
  BY RequestFacts
<1> DEFINE c == cell - base
           q == c \div w
           r == c % w
<1>2. c \in 0..(w * h - 1)
  BY <1>1
<1>3. q \in 0..(h - 1) /\ r \in 0..(w - 1) /\ c = q * w + r
  <2> HIDE DEF c
  <2> QED
    BY <1>1, <1>2, CellFound
<1>4. cell = base + c
  BY <1>1
<1> HIDE DEF c, q, r
<1>5. q * w \in Int
  BY <1>1, <1>3
<1> DEFINE l == LineOf(q)
           x == IF H \in setorientation THEN w - 1 - r ELSE r
<1>6. l \in Rows /\ LineOf(l) = q
  BY <1>3, LineRange DEF Rows
<1>7. x \in Columns /\ (IF H \in setorientation THEN w - 1 - x ELSE x) = r
  BY <1>1, <1>3 DEF Columns
<1> HIDE DEF l, x
<1>8. Place(x, l) = CellFor(r, l)
  BY <1>6, <1>7, PlaceForms
<1>9. CellFor(r, l) = base + q * w + r
  BY <1>6 DEF CellFor
<1>10. Place(x, l) = cell
  BY <1>1, <1>3, <1>4, <1>5, <1>8, <1>9
<1> QED
  BY <1>6, <1>7, <1>10

\* A caller that asked to be stopped by the first failure has, when it is told
\* of none, a raster with every pixel of the window in its place
\* (tif_getimage.c:651-656, 777-809, 928-936, 1033-1070).
THEOREM CallerToldOfFailures == Spec => []ToldOfFailures
<1>1. IInv => ToldOfFailures
  <2> SUFFICES ASSUME IInv, pc = "done", Whole, ret = 1, img.stoponerr
               PROVE  {raster[cell] : cell \in base..(base + w * h - 1)} =
                        (img.col_offset..(img.col_offset + w - 1))
                          \X (img.row_offset..(img.row_offset + h - 1))
    BY DEF ToldOfFailures
  <2> USE DEF IInv
  <2>1. /\ w \in Nat \ {0} /\ h \in Nat \ {0}
        /\ img.col_offset \in Nat /\ img.row_offset \in Nat
    BY RequestFacts
  <2>2. failed = {}
    BY DEF BufOK
  <2>3. \A x \in Columns, l \in Rows : raster[Place(x, l)] = PixelOf(x, l)
    BY <2>2 DEF PlacedOK, Unscathed
  <2>4. ASSUME NEW x \in Columns, NEW l \in Rows
        PROVE  /\ Place(x, l) \in base..(base + w * h - 1)
               /\ PixelOf(x, l) \in (img.col_offset..(img.col_offset + w - 1))
                                      \X (img.row_offset..(img.row_offset + h - 1))
    <3>1. Place(x, l) \in base..(base + w * h - 1)
      BY PlaceForms, CellForRange
    <3>2. /\ img.col_offset + x \in img.col_offset..(img.col_offset + w - 1)
          /\ img.row_offset + l \in img.row_offset..(img.row_offset + h - 1)
      BY <2>1 DEF Columns, Rows
    <3> QED
      BY <3>1, <3>2 DEF PixelOf
  <2>5. ASSUME NEW cell \in base..(base + w * h - 1)
        PROVE  raster[cell] \in (img.col_offset..(img.col_offset + w - 1))
                                  \X (img.row_offset..(img.row_offset + h - 1))
    BY <2>3, <2>4, PlaceFound
  <2>6. ASSUME NEW a \in img.col_offset..(img.col_offset + w - 1),
               NEW b \in img.row_offset..(img.row_offset + h - 1)
        PROVE  \E cell \in base..(base + w * h - 1) : raster[cell] = <<a, b>>
    <3> DEFINE x == a - img.col_offset
               l == b - img.row_offset
    <3>1. x \in Columns /\ l \in Rows /\ <<a, b>> = PixelOf(x, l)
      BY <2>1 DEF Columns, Rows, PixelOf
    <3> HIDE DEF x, l
    <3> QED
      BY <2>3, <2>4, <3>1
  <2> HIDE DEF IInv
  <2> QED
    BY <2>5, <2>6
<1> QED
  BY Invariance, <1>1, PTL
=============================================================================
