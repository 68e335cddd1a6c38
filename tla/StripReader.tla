---------------------------- MODULE StripReader ----------------------------
(***************************************************************************)
(* How libtiff brings the data of one strip or tile into its raw buffer    *)
(* and decodes it (tif_read.c): TIFFReadScanline, TIFFReadEncodedStrip,    *)
(* TIFFReadEncodedTile and the raw variants, on a handle that remembers    *)
(* which strip the buffer holds (tif_curstrip) and which row comes next    *)
(* (tif_row).  One client uses the handle; a call is a sequence of steps.  *)
(* The decoder itself is reduced to the row it stands at.                  *)
(***************************************************************************)
EXTENDS Integers

CONSTANTS Length,        \* rows of the image
          RowsPerStrip,
          Planes,        \* 1, or the samples when they are kept in separate planes
          Counts,        \* the byte counts a strip may have, 0 if empty or not read yet
          Unit,          \* 1024: buffers are rounded up to multiples of it
          MayRunOut,     \* memory allocation may fail
          ShortReads,    \* a read may fail after it has overwritten some bytes
          MayBeCorrupt   \* the decoder may refuse the data

ASSUME StripAssumption ==
  /\ Length \in Nat \ {0}
  /\ RowsPerStrip \in Nat \ {0}
  /\ Planes \in Nat \ {0}
  /\ Counts \subseteq Nat /\ 0 \in Counts
  /\ Unit \in Nat \ {0}
  /\ MayRunOut \in BOOLEAN
  /\ ShortReads \in BOOLEAN
  /\ MayBeCorrupt \in BOOLEAN

VARIABLES
  tiled, bytecount, beyond, \* the directory: organisation, sizes, chunks cut off
  seeks, flips,             \* its codec can skip rows; its bits must be reversed
  mapped,                   \* the file is mapped into memory
  tif_rawdata,              \* "none", "own" (allocated) or "map" (in the mapped file)
  tif_rawdatasize,
  content,                  \* the chunk whose bytes are in the buffer
  mybuffer, buffermmap,     \* TIFF_MYBUFFER, TIFF_BUFFERMMAP
  codersetup,               \* TIFF_CODERSETUP
  tif_curstrip, tif_row,
  at,                       \* the row the decoder really stands at
  pc,
  op, chunk, row, rows,     \* the call of the client and its arguments
  ret, got,                 \* its result: which rows of which chunk were handed over
  doubt                     \* history: why tif_row may not be the decoder's row

dirVars == <<tiled, bytecount, beyond, seeks, flips>>
bufferVars == <<tif_rawdata, tif_rawdatasize, content, mybuffer, buffermmap>>
placeVars == <<tif_curstrip, tif_row, at, doubt>>
callVars == <<op, chunk, row, rows>>
vars == <<tiled, bytecount, beyond, seeks, flips, mapped, tif_rawdata, tif_rawdatasize,
          content, mybuffer, buffermmap, codersetup, tif_curstrip, tif_row, at, pc,
          op, chunk, row, rows, ret, got, doubt>>

StripsPerImage == (Length + RowsPerStrip - 1) \div RowsPerStrip
Chunks == 0..(StripsPerImage * Planes - 1)
None == -1           \* NOSTRIP, (uint32) -1, the bytes of no chunk, no known row
Nothing == [chunk |-> None, row |-> None, rows |-> 0]

\* mutant: every row is taken for a strip
StripOfRow(r, sample) == sample * StripsPerImage + r
StripOf(r, sample) == sample * StripsPerImage + r \div RowsPerStrip
FirstRow(c) == (c % StripsPerImage) * RowsPerStrip
RowsIn(c) == IF Length - FirstRow(c) < RowsPerStrip THEN Length - FirstRow(c)
             ELSE RowsPerStrip

Init == /\ tiled \in BOOLEAN
        /\ bytecount \in [Chunks -> Counts]
        /\ beyond \in SUBSET Chunks
        /\ seeks \in BOOLEAN
        /\ flips \in BOOLEAN
        /\ mapped \in BOOLEAN
        /\ tif_rawdata = "none"
        /\ tif_rawdatasize = 0
        /\ content = None
        /\ mybuffer = TRUE
        /\ buffermmap = FALSE
        /\ codersetup = FALSE
        /\ tif_curstrip = None
        /\ tif_row = None
        /\ at = None
        /\ pc = "idle"
        /\ op = "none"
        /\ chunk = None
        /\ row = None
        /\ rows = 0
        /\ ret = 0
        /\ got = Nothing
        /\ doubt = {}

Return(r, g) == /\ pc' = "idle"
                /\ ret' = r
                /\ got' = g
Fail == Return(-1, Nothing)

(***************************************************************************)
(* The calls.  Row, sample and chunk numbers are also tried one too large. *)
(***************************************************************************)
Ask(name, c, r, k) == /\ pc = "idle"
                      /\ op' = name
                      /\ chunk' = c
                      /\ row' = r
                      /\ rows' = k
                      /\ UNCHANGED <<dirVars, mapped, bufferVars, codersetup, placeVars>>

Continue(step) == pc' = step /\ UNCHANGED <<ret, got>>

\* TIFFReadScanline as far as TIFFSeek finds the strip.
ReadScanline ==
  \E r \in 0..Length, sample \in 0..Planes :
    LET c == StripOf(r, IF Planes = 1 THEN 0 ELSE sample)
    IN  \/ /\ tiled \/ r >= Length \/ (Planes > 1 /\ sample >= Planes)
           /\ Ask("scanline", None, r, 0)
           /\ Fail
        \/ /\ ~tiled /\ r < Length /\ (Planes = 1 \/ sample < Planes)
           /\ Ask("scanline", c, r, 1)
           /\ Continue(IF c # tif_curstrip THEN "fill" ELSE "seek")

\* TIFFReadEncodedStrip: the whole strip, or the rows that fit in the buffer.
\* mutant: the strip is not read again when it is the current one
EncodedStripStart(c) == IF c # tif_curstrip THEN "fill" ELSE "decode"
EncodedStripStep(c) == "fill"
ReadEncodedStrip ==
  \E c \in Chunks \cup {StripsPerImage * Planes} :
    \/ /\ tiled \/ c \notin Chunks
       /\ Ask("strip", None, None, 0)
       /\ Fail
    \/ /\ ~tiled /\ c \in Chunks
       /\ \E k \in 1..RowsIn(c) : Ask("strip", c, FirstRow(c), k)
       /\ Continue(EncodedStripStep(c))

\* TIFFReadEncodedTile, also what TIFFReadTile calls.
ReadEncodedTile ==
  \E c \in Chunks \cup {StripsPerImage * Planes} :
    \/ /\ ~tiled \/ c \notin Chunks
       /\ Ask("tile", None, None, 0)
       /\ Fail
    \/ /\ tiled /\ c \in Chunks
       /\ Ask("tile", c, None, 1)
       /\ Continue("fill")

\* TIFFReadRawStrip and TIFFReadRawTile: the bytes go to the client's buffer.
\* Only the first looks at the byte count.
ReadRaw ==
  \E c \in Chunks \cup {StripsPerImage * Planes}, name \in {"rawstrip", "rawtile"} :
    /\ Ask(name, c, None, 0)
    /\ LET reads == /\ tiled = (name = "rawtile")
                    /\ c \in Chunks
                    /\ name = "rawstrip" => bytecount[c] > 0
       IN  \/ reads /\ c \notin beyond
              /\ Return(1, [chunk |-> c, row |-> None, rows |-> 0])
           \/ ~(reads /\ mapped /\ c \notin beyond) /\ Fail

(***************************************************************************)
(* TIFFFillStrip and TIFFFillTile.  The second keeps tif_curtile instead   *)
(* of tif_curstrip, which is None while tiles are read; nothing is ever    *)
(* compared with tif_curtile, so it is not modelled.                       *)
(***************************************************************************)
NoBytes == /\ bytecount[chunk] <= 0
           /\ Fail
           /\ UNCHANGED <<bufferVars, placeVars>>

\* The buffer points into the mapped file; a buffer of the library is freed.
KeepsMine(flag) == flag          \* mutant: the buffer stays the library's to free
Disowned(flag) == FALSE
MapChunk ==
  LET freed == mybuffer /\ tif_rawdata # "none"
  IN  /\ bytecount[chunk] > 0
      /\ mapped /\ ~flips
      /\ mybuffer' = Disowned(mybuffer)
      /\ \/ /\ chunk \in beyond
            /\ tif_rawdata' = IF freed THEN "none" ELSE tif_rawdata
            /\ tif_rawdatasize' = IF freed THEN 0 ELSE tif_rawdatasize
            /\ content' = IF freed THEN None ELSE content
            /\ tif_curstrip' = None
            /\ Fail
            /\ UNCHANGED <<buffermmap, doubt>>
         \/ /\ chunk \notin beyond
            /\ tif_rawdata' = "map"
            /\ tif_rawdatasize' = bytecount[chunk]
            /\ content' = chunk
            /\ buffermmap' = TRUE
            /\ doubt' = doubt \ {"torn"}
            /\ Continue("start")
            /\ UNCHANGED tif_curstrip
      /\ UNCHANGED <<tif_row, at>>

RoundUp(n) == ((n + Unit - 1) \div Unit) * Unit
TooSmall == bytecount[chunk] > tif_rawdatasize

KeepStrip(strip) == strip      \* mutant: the current strip is kept in mind
Forget(strip) == None

\* TIFFReadBufferSetup(tif, 0, size): the old buffer goes before the new one is
\* asked for.
BufferSetup ==
  /\ buffermmap' = FALSE
  /\ mybuffer' = TRUE
  /\ content' = None
  /\ tif_curstrip' = Forget(tif_curstrip)
  /\ \/ /\ tif_rawdata' = "own"
        /\ tif_rawdatasize' = RoundUp(bytecount[chunk])
        /\ Continue("read")
     \/ /\ MayRunOut
        /\ tif_rawdata' = "none"
        /\ tif_rawdatasize' = 0
        /\ Fail
  /\ UNCHANGED <<tif_row, at, doubt>>

NotMine == /\ tif_curstrip' = None
           /\ Fail
           /\ UNCHANGED <<bufferVars, tif_row, at, doubt>>

OwnBuffer == /\ bytecount[chunk] > 0
             /\ ~(mapped /\ ~flips)
             /\ \/ TooSmall /\ ~mybuffer /\ NotMine
                \/ TooSmall /\ mybuffer /\ BufferSetup
                \/ ~TooSmall /\ buffermmap /\ BufferSetup
                \/ /\ ~TooSmall /\ ~buffermmap
                   /\ Continue("read")
                   /\ UNCHANGED <<bufferVars, placeVars>>

Fill == /\ pc = "fill"
        /\ NoBytes \/ MapChunk \/ OwnBuffer
        /\ UNCHANGED <<dirVars, mapped, codersetup, callVars>>

(***************************************************************************)
(* TIFFReadRawStrip1 and TIFFReadRawTile1 into the buffer of the library.  *)
(* A copy from the mapped file is all or nothing; a read of the file may   *)
(* stop anywhere, and the buffer then begins with what was read.           *)
(***************************************************************************)
ReadAll == /\ chunk \notin beyond
           /\ content' = chunk
           /\ doubt' = doubt \ {"torn"}
           /\ Continue("start")
ReadNothing == /\ chunk \in beyond \/ ~mapped
               /\ Fail
               /\ UNCHANGED <<content, doubt>>
ReadPart == /\ ShortReads /\ ~mapped
            /\ content' = None
            /\ doubt' = doubt \cup {"torn"}
            /\ Fail

ReadRawData == /\ pc = "read"
               /\ ReadAll \/ ReadNothing \/ ReadPart
               /\ UNCHANGED <<dirVars, mapped, tif_rawdata, tif_rawdatasize, mybuffer,
                              buffermmap, codersetup, tif_curstrip, tif_row, at, callVars>>

(***************************************************************************)
(* TIFFStartStrip and TIFFStartTile.                                       *)
(***************************************************************************)
SetupFails == /\ ~codersetup /\ MayRunOut
              /\ Fail
              /\ UNCHANGED <<codersetup, placeVars>>

\* tif_row of a tile is only used in messages; its strip stays forgotten.
Started == /\ codersetup' = TRUE
           /\ tif_curstrip' = IF tiled THEN tif_curstrip ELSE chunk
           /\ tif_row' = IF tiled THEN tif_row ELSE FirstRow(chunk)

Prepared == /\ Started
            /\ at' = IF tiled THEN None ELSE FirstRow(chunk)
            /\ doubt' = doubt \cap {"torn"}
            /\ Continue(IF op = "scanline" THEN "seek" ELSE "decode")

PredecodeFails == /\ MayRunOut \/ MayBeCorrupt
                  /\ Started
                  /\ at' = None
                  /\ doubt' = doubt \cup {"unprepared"}
                  /\ Fail

Start == /\ pc = "start"
         /\ SetupFails \/ Prepared \/ PredecodeFails
         /\ UNCHANGED <<dirVars, mapped, bufferVars, callVars>>

(***************************************************************************)
(* The rest of TIFFSeek: back to the start of the strip, then forward.     *)
(***************************************************************************)
MustRewind(r) == r < tif_row

Forward == \/ /\ row = tif_row
              /\ Continue("decode")
              /\ UNCHANGED placeVars
           \/ /\ row # tif_row /\ seeks
              /\ tif_row' = row
              /\ at' = IF at = None THEN None ELSE at + (row - tif_row)
              /\ Continue("decode")
              /\ UNCHANGED <<tif_curstrip, doubt>>
           \/ /\ row # tif_row /\ ~seeks
              /\ Fail
              /\ UNCHANGED placeVars

Seek == /\ pc = "seek"
        /\ \/ MustRewind(row) /\ Continue("start") /\ UNCHANGED placeVars
           \/ ~MustRewind(row) /\ Forward
        /\ UNCHANGED <<dirVars, mapped, bufferVars, codersetup, callVars>>

(***************************************************************************)
(* The decoder, from the row it stands at.  After a failure nobody knows   *)
(* where it stands; TIFFReadScanline counts the row all the same.          *)
(***************************************************************************)
InStrip == at # None /\ content # None /\ at + rows <= FirstRow(content) + RowsIn(content)
NextRowKept == tif_row        \* mutant: the row is not counted
NextRow == IF op = "scanline" THEN row + 1 ELSE tif_row

Decoded == /\ \/ InStrip \/ tiled
              \/ at = None \/ content = None      \* any bytes may pass for data
           /\ Return(1, [chunk |-> content, row |-> at, rows |-> rows])
           /\ at' = IF at = None THEN None ELSE at + rows
           /\ doubt' = IF op = "strip" THEN doubt \cup {"moved"} ELSE doubt

DecodeFails == /\ ~(InStrip \/ tiled) \/ MayBeCorrupt
               /\ Fail
               /\ at' = None
               /\ doubt' = doubt \cup {"failed"}

Decode == /\ pc = "decode"
          /\ Decoded \/ DecodeFails
          /\ tif_row' = NextRow
          /\ UNCHANGED <<dirVars, mapped, bufferVars, codersetup, tif_curstrip, callVars>>

(***************************************************************************)
(* TIFFReadDirectory for another directory of the file, when it succeeds:  *)
(* the old fields are dropped, the new ones read, the position is reset.   *)
(* The codec is set up again unless the new data is not compressed at all. *)
(***************************************************************************)
FreeDirectory == /\ pc = "idle"
                 /\ op' = "directory"
                 /\ chunk' = None
                 /\ row' = None
                 /\ rows' = 0
                 /\ tiled' = FALSE
                 /\ bytecount' = [c \in Chunks |-> 0]
                 /\ beyond' = {}
                 /\ seeks' = FALSE
                 /\ flips' = FALSE
                 /\ codersetup' \in {FALSE, codersetup}
                 /\ Continue("directory")
                 /\ UNCHANGED <<mapped, bufferVars, placeVars>>

ReadDirectory == /\ pc = "directory"
                 /\ tiled' \in BOOLEAN
                 /\ bytecount' \in [Chunks -> Counts]
                 /\ beyond' \in SUBSET Chunks
                 /\ seeks' \in BOOLEAN
                 /\ flips' \in BOOLEAN
                 /\ tif_curstrip' = None
                 /\ tif_row' = None
                 /\ at' = None
                 /\ doubt' = {}
                 /\ Return(1, Nothing)
                 /\ UNCHANGED <<mapped, bufferVars, codersetup, callVars>>

Client == \/ ReadScanline \/ ReadEncodedStrip \/ ReadEncodedTile \/ ReadRaw
          \/ FreeDirectory
Step == Fill \/ ReadRawData \/ Start \/ Seek \/ Decode \/ ReadDirectory
Next == Client \/ Step

Spec == Init /\ [][Next]_vars

-----------------------------------------------------------------------------
Numbers == Chunks \cup {None, StripsPerImage * Planes}

\* The values the variables take: tif_row and the decoder stay within the image
\* (tif_read.c:165-274), except after a seek or a decoder that lost its way.
TypeOK ==
  /\ tiled \in BOOLEAN
  /\ bytecount \in [Chunks -> Counts]
  /\ beyond \subseteq Chunks
  /\ {seeks, flips, mapped, mybuffer, buffermmap, codersetup} \subseteq BOOLEAN
  /\ tif_rawdata \in {"none", "own", "map"}
  /\ tif_rawdatasize \in Nat
  /\ content \in Chunks \cup {None}
  /\ tif_curstrip \in Chunks \cup {None}
  /\ tif_row \in None..Length
  /\ pc \in {"idle", "fill", "read", "start", "seek", "decode", "directory"}
  /\ op \in {"none", "scanline", "strip", "tile", "rawstrip", "rawtile", "directory"}
  /\ chunk \in Numbers
  /\ pc \notin {"idle", "directory"} => chunk \in Chunks
  /\ row \in None..Length
  /\ rows \in 0..RowsPerStrip
  /\ ret \in {-1, 0, 1}
  /\ doubt \subseteq {"torn", "moved", "unprepared", "failed"}

\* A scanline handed over is the row asked for, from the strip of the sample
\* asked for (tif_read.c:165-308), unless since the strip was loaded a read has
\* torn the buffer, another call has moved the decoder, or it has failed.
RowAsAsked ==
  pc = "idle" /\ op = "scanline" /\ ret = 1 /\ doubt = {}
    => got = [chunk |-> chunk, row |-> row, rows |-> 1]

\* The same without exception, as TIFFReadScanline.3tiff:36-37 has it.
RowAlwaysAsAsked ==
  pc = "idle" /\ op = "scanline" /\ ret = 1
    => got = [chunk |-> chunk, row |-> row, rows |-> 1]

\* An encoded strip or tile handed over is the one asked for, from its first
\* row, whatever failed before (tif_read.c:316-364, 653-680).
StripAsAsked ==
  pc = "idle" /\ op \in {"strip", "tile"} /\ ret = 1
    => got = [chunk |-> chunk, row |-> row, rows |-> rows]

\* What the flags say of the raw buffer is true: only memory of the library is
\* freed, none of it is lost, and a buffer that is read into is not the map
\* (tif_read.c:519-606, 909-934).
BufferKept ==
  /\ mybuffer => tif_rawdata # "map"
  /\ tif_rawdata = "own" => mybuffer
  /\ buffermmap <=> tif_rawdata = "map"
  /\ pc = "read" => tif_rawdata = "own"

\* The bytes the decoder is told to use lie in the buffer, for the current strip
\* too when it is taken up again without being read (tif_read.c:988-989).
DecodesInBuffer ==
  /\ pc \in {"idle", "seek"} /\ tif_curstrip # None =>
       tif_rawdata # "none" /\ bytecount[tif_curstrip] <= tif_rawdatasize
  /\ pc \in {"start", "decode"} =>
       tif_rawdata # "none" /\ bytecount[chunk] <= tif_rawdatasize
=============================================================================
