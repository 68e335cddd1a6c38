----------------------------- MODULE RgbaRaster -----------------------------
(***************************************************************************)
(* How libtiff lays an image out in a raster of pixels (tif_getimage.c):   *)
(* the four routines gtTileContig, gtTileSeparate, gtStripContig and       *)
(* gtStripSeparate, the orientation asked for, and the calls that use      *)
(* them: TIFFReadRGBAImageOriented, which TiffImage::decode calls,         *)
(* TIFFReadRGBAStrip and TIFFReadRGBATile.  Samples are of 8 bits; what a  *)
(* pixel holds is which pixel of the image it comes from.                  *)
(***************************************************************************)
EXTENDS Integers, FiniteSets

CONSTANTS MaxWidth, MaxHeight,     \* bound: largest image
          TileWidths, TileLengths, \* sizes of a tile
          StripRows,               \* values of RowsPerStrip
          Orientations,            \* of the image, of 1..8
          Samples,                 \* samples of a pixel
          MaxFailures              \* bound: tiles or strips that cannot be decoded

ASSUME RasterAssumption ==
  /\ MaxWidth \in Nat \ {0} /\ MaxHeight \in Nat \ {0}
  /\ TileWidths \subseteq Nat \ {0} /\ TileLengths \subseteq Nat \ {0}
  /\ StripRows \subseteq Nat \ {0}
  /\ Orientations \subseteq 1..8
  /\ Samples \in Nat \ {0}
  /\ MaxFailures \in Nat

VARIABLES
  img,                 \* the image and the request: it does not change in a call
  w, h,                \* the window to be read, row_offset and col_offset in img
  raster,              \* what each of its cells holds
  base,                \* the cell the window begins at
  pc,
  row, y, nrow,        \* the local variables of the routine
  col, tocol, fromskew, this_tw, this_toskew,
  buf,                 \* what the tile or strip buffer holds
  i_row,               \* the local variable of TIFFReadRGBATile
  ret,
  failed,              \* history: the tiles or strips that were not decoded
  stray                \* history: a cell beyond the raster or the buffer was used

rowVars == <<row, y, nrow>>
colVars == <<col, tocol, fromskew, this_tw, this_toskew>>
vars == <<img, w, h, raster, base, pc, row, y, nrow, col, tocol, fromskew, this_tw,
          this_toskew, buf, i_row, ret, failed, stray>>

Untouched == <<-1, -1>>    \* a cell nobody has written
Zero == <<-2, -2>>         \* filled with zeroes
Junk == <<-3, -3>>         \* computed from bytes that are no pixel of the image
NoBuf == [col |-> 0, row |-> 0, rows |-> 0]

Min2(a, b) == IF a < b THEN a ELSE b

(***************************************************************************)
(* setorientation: which ways the raster is flipped.  Orientations 5 to 8, *)
(* which also exchange rows and columns, are taken for 1 to 4.             *)
(***************************************************************************)
TOPLEFT == 1
TOPRIGHT == 2
BOTRIGHT == 3
BOTLEFT == 4
Corner(orientation) == IF orientation > 4 THEN orientation - 4 ELSE orientation
H == "FLIP_HORIZONTALLY"
V == "FLIP_VERTICALLY"
\* mutant: the last two flips of the second row are exchanged
FlipsSwapped == <<<<{}, {H}, {H, V}, {V}>>,
                  <<{H}, {}, {H, V}, {V}>>,
                  <<{H, V}, {V}, {}, {H}>>,
                  <<{V}, {H, V}, {H}, {}>>>>
Flips == <<<<{}, {H}, {H, V}, {V}>>,
           <<{H}, {}, {V}, {H, V}>>,
           <<{H, V}, {V}, {}, {H}>>,
           <<{V}, {H, V}, {H}, {}>>>>
setorientation == Flips[Corner(img.orientation)][Corner(img.req_orientation)]

(***************************************************************************)
(* The chunks of the file, tiles or strips, and the buffer for one.        *)
(***************************************************************************)
tw == img.tw             \* of a strip: the width of the image
th == img.th             \* of a strip: rowsperstrip
ChunkAt(c, r) == [col |-> (c \div tw) * tw, row |-> (r \div th) * th]

\* Which pixel the sample at an index of the buffer belongs to.
Pixel(index) ==
  LET c == buf.col + (index % tw)
      r == buf.row + (index \div tw)
  IN  IF index \in 0..(tw * buf.rows - 1) /\ c < img.width /\ r < img.height
      THEN <<c, r>> ELSE Junk

(***************************************************************************)
(* The calls.                                                              *)
(***************************************************************************)
Images ==
  [width : 1..MaxWidth, height : 1..MaxHeight, tiled : BOOLEAN, separate : BOOLEAN,
   tw : TileWidths \cup (1..MaxWidth), th : TileLengths \cup StripRows,
   orientation : Orientations, op : {"image", "window", "strip", "tile"},
   req_orientation : 1..4, stoponerr : BOOLEAN,
   col_offset : 0..(MaxWidth - 1), row_offset : 0..(MaxHeight - 1)]

Possible(i) ==
  /\ IF i.tiled THEN i.tw \in TileWidths /\ i.th \in TileLengths
                ELSE i.tw = i.width /\ i.th \in StripRows
  /\ i.col_offset < i.width /\ i.row_offset < i.height
  /\ i.op \in {"strip", "tile"} => i.req_orientation = BOTLEFT /\ ~i.stoponerr

\* What the caller of each function has to observe.  TIFFReadRGBAImageOriented
\* is given a raster of the width of the image, and at least as high.
Allowed(i) ==
  \/ i.op = "image" /\ i.col_offset = 0 /\ i.row_offset = 0
  \/ /\ i.op = "window"       \* TIFFRGBAImageGet with a window of one's own
     /\ i.separate => i.col_offset = 0
  \/ /\ i.op = "strip" /\ ~i.tiled
     /\ i.row_offset % i.th = 0 /\ i.col_offset = 0
  \/ /\ i.op = "tile" /\ i.tiled
     /\ i.col_offset % i.tw = 0 /\ i.row_offset % i.th = 0

StripHeight(i) == Min2(i.th, i.height - i.row_offset)
\* mutant: a tile at the lower edge is read as if it were whole
TileWindowFull(i) == <<Min2(i.tw, i.width - i.col_offset), i.th>>
TileWindow(i) == <<Min2(i.tw, i.width - i.col_offset), Min2(i.th, i.height - i.row_offset)>>

Window(i) ==
  CASE i.op = "image" -> {<<i.width, i.height>>}
    [] i.op = "window" -> (1..(i.width - i.col_offset)) \X (1..(i.height - i.row_offset))
    [] i.op = "strip" -> {<<i.width, StripHeight(i)>>}
    [] i.op = "tile" -> {TileWindow(i)}

\* How many cells the caller provides, and the first one that is used.
Room(i, extra) == IF i.op = "tile" THEN i.tw * i.th ELSE w * (h + extra)

Init == /\ img \in {i \in Images : Possible(i) /\ Allowed(i)}
        /\ \E win \in Window(img) : w = win[1] /\ h = win[2]
        /\ \E extra \in (IF img.op = "image" THEN 0..1 ELSE {0}) :
             /\ raster = [cell \in 0..(Room(img, extra) - 1) |-> Untouched]
             /\ base = extra * w
        /\ pc = "begin"
        /\ row = 0 /\ y = 0 /\ nrow = 0
        /\ col = 0 /\ tocol = 0 /\ fromskew = 0 /\ this_tw = 0 /\ this_toskew = 0
        /\ buf = NoBuf
        /\ i_row = 0
        /\ ret = 1
        /\ failed = {}
        /\ stray = FALSE

(***************************************************************************)
(* The routines.  The strip routines are the tile routines with one strip  *)
(* in a row, but for the skews and for what they do when a read fails.     *)
(***************************************************************************)
Vertical == V \in setorientation
toskew == IF Vertical THEN -(tw + w) ELSE -(tw - w)

TopAlways == 0     \* mutant: a raster turned upside down is filled from its first line
Top == IF Vertical THEN h - 1 ELSE 0

Begin == /\ pc = "begin"
         /\ y' = Top
         /\ row' = 0
         /\ pc' = "row"
         /\ UNCHANGED <<img, w, h, raster, base, nrow, colVars, buf, i_row, ret, failed, stray>>

\* mutants: a strip or tile that the window begins within is taken as whole;
\* one row too few of it is read
RowsFromTop == th
RowsButOne == th - 1 - ((row + img.row_offset) % th)
RowsToRead == th - ((row + img.row_offset) % th)

BeginRow ==
  LET leftmost == img.col_offset % tw
  IN  /\ pc = "row"
      /\ row < h
      /\ nrow' = Min2(RowsToRead, h - row)
      /\ tocol' = 0
      /\ IF img.tiled
         THEN /\ col' = img.col_offset
              /\ fromskew' = leftmost
              /\ this_tw' = tw - leftmost
              /\ this_toskew' = toskew + leftmost
         ELSE /\ col' = 0
              /\ fromskew' = tw - w
              /\ this_tw' = w
              /\ this_toskew' = IF Vertical THEN -(w + w) ELSE 0
      /\ pc' = "read"
      /\ UNCHANGED <<img, w, h, raster, base, row, y, buf, i_row, ret, failed, stray>>

\* TIFFReadTile decodes the tile; TIFFReadEncodedStrip no more rows of the strip
\* than are wanted.  When one of the planes cannot be decoded the buffer holds
\* anything; the routine goes on with it unless it is to stop.
Wanted == IF img.tiled THEN th ELSE ((row + img.row_offset) % th) + nrow
Current == ChunkAt(col, row + img.row_offset)

\* mutant: the tile routines look at one plane only before they stop
StopsOnOne == img.stoponerr /\ ~(img.tiled /\ img.separate)
Stops == img.stoponerr

ReadChunk ==
  /\ pc = "read"
  /\ \/ /\ buf' = [col |-> Current.col, row |-> Current.row, rows |-> Wanted]
        /\ pc' = "put"
        /\ UNCHANGED <<ret, failed>>
     \/ /\ Cardinality(failed) < MaxFailures
        /\ failed' = failed \cup {Current}
        /\ buf' = NoBuf
        /\ IF Stops THEN ret' = 0 /\ pc' = (IF img.tiled THEN "next" ELSE "mirror")
                    ELSE pc' = "put" /\ UNCHANGED ret
  /\ UNCHANGED <<img, w, h, raster, base, rowVars, colVars, i_row, stray>>

\* What is put: rows of n pixels, from the index pos of the buffer on.  The
\* separate routines step over Samples samples where each plane has one.
Step == IF img.separate THEN Samples ELSE 1
SkippedRows == (row + img.row_offset) % th
pos == SkippedRows * tw + (IF img.tiled THEN fromskew ELSE img.col_offset) * Step

Clipped == img.tiled /\ tocol + this_tw > w
\* mutant: the skew of the raster is not adjusted to the clipped tile
ClippedSkewKept == [from |-> tw - (w - tocol), to |-> this_toskew]
ClippedSkew == [from |-> tw - (w - tocol), to |-> toskew + (tw - (w - tocol))]
Skew == IF Clipped THEN ClippedSkew ELSE [from |-> fromskew, to |-> this_toskew]
PutWidth == IF Clipped THEN w - tocol ELSE this_tw

CellOf(i, j) == base + y * w + tocol + j * (PutWidth + Skew.to) + i
SourceOf(i, j) == pos + j * (PutWidth + Skew.from) + i

Put ==
  LET places == (0..(PutWidth - 1)) \X (0..(nrow - 1))
      written == {CellOf(p[1], p[2]) : p \in places}
      at(cell) == CHOOSE p \in places : CellOf(p[1], p[2]) = cell
  IN  /\ pc = "put"
      /\ raster' = [cell \in DOMAIN raster |->
                      IF cell \in written THEN Pixel(SourceOf(at(cell)[1], at(cell)[2]))
                                          ELSE raster[cell]]
      /\ stray' = (stray \/ ~(written \subseteq DOMAIN raster))
      /\ tocol' = tocol + PutWidth
      /\ col' = col + PutWidth
      /\ fromskew' = 0
      /\ this_tw' = tw
      /\ this_toskew' = toskew
      /\ pc' = IF img.tiled /\ tocol' < w THEN "read" ELSE "next"
      /\ UNCHANGED <<img, w, h, base, rowVars, buf, i_row, ret, failed>>

NextRow == /\ pc = "next"
           /\ y' = IF Vertical THEN y - nrow ELSE y + nrow
           /\ row' = row + nrow
           /\ pc' = IF row' < h THEN "row" ELSE "mirror"
           /\ UNCHANGED <<img, w, h, raster, base, nrow, colVars, buf, i_row, ret, failed, stray>>

\* The lines of the window are exchanged end for end.
Mirror ==
  LET line(cell) == (cell - base) \div w
      mirrored(cell) == base + line(cell) * w + (w - 1 - ((cell - base) % w))
  IN  /\ pc = "mirror"
      /\ raster' = IF H \in setorientation
                   THEN [cell \in DOMAIN raster |->
                           IF cell \in base..(base + w * h - 1) THEN raster[mirrored(cell)]
                                                                ELSE raster[cell]]
                   ELSE raster
      /\ pc' = IF img.op = "tile" /\ (w # tw \/ h # th) THEN "fix" ELSE "done"
      /\ UNCHANGED <<img, w, h, base, rowVars, colVars, buf, i_row, ret, failed, stray>>

(***************************************************************************)
(* TIFFReadRGBATile spreads the part of an edge tile over the whole tile,  *)
(* in place, beginning with the last line.                                 *)
(***************************************************************************)
LineMovedUp(i) == i              \* mutant: beginning with the first line
LineMoved(i) == h - i - 1
FixLine ==
  LET to == (th - h + LineMoved(i_row)) * tw
      from == LineMoved(i_row) * w
      blank == (th - i_row - 1) * tw
  IN  /\ pc = "fix"
      /\ raster' = IF i_row < h
                   THEN [cell \in DOMAIN raster |->
                           IF cell \in to..(to + w - 1) THEN raster[from + (cell - to)]
                           ELSE IF cell \in (to + w)..(to + tw - 1) THEN Zero
                           ELSE raster[cell]]
                   ELSE [cell \in DOMAIN raster |->
                           IF cell \in blank..(blank + tw - 1) THEN Zero ELSE raster[cell]]
      /\ i_row' = i_row + 1
      /\ pc' = IF i_row' < th THEN "fix" ELSE "done"
      /\ UNCHANGED <<img, w, h, base, rowVars, colVars, buf, ret, failed, stray>>

Next == \/ Begin \/ BeginRow \/ ReadChunk \/ Put \/ NextRow \/ Mirror \/ FixLine

Spec == Init /\ [][Next]_vars /\ WF_vars(Next)

-----------------------------------------------------------------------------
Steps == {"begin", "row", "read", "put", "next", "mirror", "fix", "done"}

\* The values the variables take: the window never leaves the image, and what is
\* put never leaves the raster (tif_getimage.c:604-1095).
TypeOK ==
  /\ Possible(img) /\ Allowed(img)
  /\ w \in 1..(img.width - img.col_offset)
  /\ h \in 1..(img.height - img.row_offset)
  /\ DOMAIN raster = 0..(Cardinality(DOMAIN raster) - 1)
  /\ base \in 0..MaxWidth
  /\ pc \in Steps
  /\ row \in 0..h
  /\ nrow \in 0..h
  /\ y \in -1..h
  /\ tocol \in 0..w
  /\ this_tw \in 0..tw
  /\ i_row \in 0..th
  /\ ret \in {0, 1}
  /\ ~stray

\* Where the request wants the pixel at a column and row of the window: an
\* orientation says at which corner the first pixel is.
Tops == {TOPLEFT, TOPRIGHT}
Lefts == {TOPLEFT, BOTLEFT}
Place(x, line) ==
  LET o == Corner(img.orientation)
      q == img.req_orientation
  IN  base + w * (IF (o \in Tops) = (q \in Tops) THEN line ELSE h - 1 - line)
           + (IF (o \in Lefts) = (q \in Lefts) THEN x ELSE w - 1 - x)

Unscathed(x, line) == ChunkAt(img.col_offset + x, img.row_offset + line) \notin failed
Whole == img.op # "tile" \/ (w = tw /\ h = th)

\* Every pixel of the window ends where the orientation asked for has it, for any
\* size and any window, and a tile or strip that cannot be decoded spoils no other.
\* An image stored by columns is placed as the one stored by rows from the same
\* corner: setorientation makes no difference (tif_getimage.c:503-596, 604-1095).
InPlace ==
  pc = "done" /\ Whole /\ ret = 1 =>
    \A x \in 0..(w - 1), line \in 0..(h - 1) :
      Unscathed(x, line) =>
        raster[Place(x, line)] = <<img.col_offset + x, img.row_offset + line>>

\* The rest of a raster that is higher than the image is left alone
\* (tif_getimage.c:514-516).
RestUntouched ==
  img.op # "tile" =>
    \A cell \in DOMAIN raster \ (base..(base + w * h - 1)) : raster[cell] = Untouched

\* An edge tile of an image stored from its top left corner is a whole tile,
\* bottom line first, and zero where it falls off the image
\* (tif_getimage.c:2824-2915).
EdgeTiles ==
  pc = "done" /\ img.op = "tile" /\ Corner(img.orientation) = TOPLEFT /\ failed = {} =>
    \A x \in 0..(tw - 1), line \in 0..(th - 1) :
      raster[(th - 1 - line) * tw + x] =
        IF x < w /\ line < h THEN <<img.col_offset + x, img.row_offset + line>>
        ELSE IF Whole THEN Untouched ELSE Zero

\* A caller that asked to be stopped by the first failure has, when it is told
\* of none, a raster with every pixel of the window in its place
\* (tif_getimage.c:651-656, 777-809, 928-936, 1033-1070).
ToldOfFailures ==
  pc = "done" /\ Whole /\ ret = 1 /\ img.stoponerr =>
    {raster[cell] : cell \in base..(base + w * h - 1)} =
      (img.col_offset..(img.col_offset + w - 1)) \X (img.row_offset..(img.row_offset + h - 1))

\* The loops over rows and columns come to an end (tif_getimage.c:645-685).
Finishes == <>(pc = "done")
=============================================================================
