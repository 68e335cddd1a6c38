------------------------- MODULE StripReader_proofs -------------------------
(***************************************************************************)
(* Proofs about reading strips and tiles, for every image, every number of *)
(* rows in a strip, every byte count and every failure the constants allow.*)
(* The invariant says, for every step of a call, what is known of its      *)
(* arguments, of the raw buffer and of the decoder.                        *)
(***************************************************************************)
EXTENDS StripReader, TLAPS

\* TypeOK in the parts the steps change.
FlagsOK == /\ tiled \in BOOLEAN
           /\ {seeks, flips, mapped, mybuffer, buffermmap, codersetup} \subseteq BOOLEAN
DirOK == /\ bytecount \in [Chunks -> Counts]
         /\ beyond \subseteq Chunks
BufferOK == /\ tif_rawdata \in {"none", "own", "map"}
            /\ tif_rawdatasize \in Nat
            /\ content \in Chunks \cup {None}
PlaceOK == /\ tif_curstrip \in Chunks \cup {None}
           /\ tif_row \in None..Length
           /\ doubt \subseteq {"torn", "moved", "unprepared", "failed"}
CallOK ==
  /\ pc \in {"idle", "fill", "read", "start", "seek", "decode", "directory"}
  /\ op \in {"none", "scanline", "strip", "tile", "rawstrip", "rawtile", "directory"}
  /\ chunk \in Numbers
  /\ pc \notin {"idle", "directory"} => chunk \in Chunks
  /\ row \in None..Length
  /\ rows \in 0..RowsPerStrip
  /\ ret \in {-1, 0, 1}
Types == DirOK /\ BufferOK /\ PlaceOK /\ CallOK

\* The arguments of a call under way.
Active == pc \in {"fill", "read", "start", "seek", "decode"}
CallInv ==
  /\ Active => op \in {"scanline", "strip", "tile"}
  /\ Active /\ op = "scanline" => ~tiled /\ row \in 0..(Length - 1) /\ rows = 1
  /\ Active /\ op = "strip" => ~tiled /\ row = FirstRow(chunk)
  /\ Active /\ op = "tile" => tiled /\ row = None
  /\ pc = "directory" => op = "directory"
  /\ pc = "seek" => op = "scanline"
  /\ pc = "decode" /\ op = "scanline" => row = tif_row

\* The current strip lies in the buffer also while another is about to replace
\* it: the call may yet fail before it touches the buffer.
BufferInv ==
  /\ BufferKept
  /\ DecodesInBuffer
  /\ tif_rawdata = "none" => tif_rawdatasize = 0
  /\ pc = "read" => bytecount[chunk] <= tif_rawdatasize
  /\ pc \in {"fill", "read"} /\ tif_curstrip # None =>
       tif_rawdata # "none" /\ bytecount[tif_curstrip] <= tif_rawdatasize

\* The current strip is the one in the buffer and tif_row is the decoder's row,
\* except while it is replaced and for what the history says.
Lost == {"moved", "unprepared", "failed"}
PlaceInv ==
  /\ pc # "directory" /\ tif_curstrip # None => codersetup /\ ~tiled
  /\ pc \notin {"start", "directory"} /\ tif_curstrip # None /\ "torn" \notin doubt =>
       content = tif_curstrip
  /\ pc \notin {"start", "directory"} /\ tif_curstrip # None /\ doubt \cap Lost = {} =>
       at = tif_row /\ at # None
  /\ pc = "seek" => chunk = tif_curstrip
  /\ pc = "decode" /\ ~tiled => chunk = tif_curstrip
  /\ pc = "start" /\ ("torn" \notin doubt \/ op # "scanline") => content = chunk
  /\ pc = "decode" /\ op # "scanline" => content = chunk /\ at = row

Asked == RowAsAsked /\ StripAsAsked
IInv == FlagsOK /\ Types /\ CallInv /\ BufferInv /\ PlaceInv /\ Asked

LEMMA InvImplies == IInv => TypeOK
BY DEF IInv, FlagsOK, Types, DirOK, BufferOK, PlaceOK, CallOK, TypeOK

-----------------------------------------------------------------------------
(***************************************************************************)
(* Arithmetic: the numbers of strips and rows, and the size of the buffer. *)
(***************************************************************************)
LEMMA Sizes ==
  /\ Length \in Nat \ {0} /\ RowsPerStrip \in Nat \ {0} /\ Planes \in Nat \ {0}
  /\ Counts \subseteq Nat /\ 0 \in Counts /\ None = -1 /\ None \notin Chunks
BY StripAssumption DEF StripAssumption, Chunks, None

\* The quotient and what is left.
LEMMA DivRange ==
  ASSUME NEW n \in Nat, NEW d \in Nat \ {0}
  PROVE  /\ n \div d \in Nat
         /\ d * (n \div d) <= n
         /\ n < d * (n \div d) + d
OBVIOUS

\* The remainder is less than the divisor.
LEMMA ModRange ==
  ASSUME NEW n \in Nat, NEW d \in Nat \ {0}
  PROVE  n % d \in 0..(d - 1)
OBVIOUS

\* Multiplication keeps the order.
LEMMA TimesMonotone ==
  ASSUME NEW m \in Nat, NEW n \in Nat, NEW d \in Nat, m <= n
  PROVE  m * d \in Nat /\ m * d <= n * d
<1>1. PICK k \in Nat : n = m + k
  BY n - m \in Nat
<1>2. n * d = m * d + k * d
  BY <1>1
<1>3. m * d \in Nat /\ k * d \in Nat
  BY SMT
<1> QED
  BY <1>2, <1>3

\* There are as many strips as are needed to hold the rows, and no more.
LEMMA StripsInImage ==
  /\ StripsPerImage \in Nat \ {0}
  /\ Length <= RowsPerStrip * StripsPerImage
  /\ RowsPerStrip * StripsPerImage < Length + RowsPerStrip
<1>1. /\ Length + RowsPerStrip - 1 \in Nat
      /\ RowsPerStrip \in Nat \ {0} /\ Length \in Nat \ {0}
  BY StripAssumption DEF StripAssumption
<1>2. /\ StripsPerImage \in Nat
      /\ RowsPerStrip * StripsPerImage <= Length + RowsPerStrip - 1
      /\ Length + RowsPerStrip - 1 < RowsPerStrip * StripsPerImage + RowsPerStrip
  BY <1>1, DivRange DEF StripsPerImage
<1>3. RowsPerStrip * StripsPerImage \in Nat
  BY <1>1, <1>2
<1>4. StripsPerImage # 0
  BY <1>1, <1>2
<1> QED
  BY <1>1, <1>2, <1>3, <1>4

\* Every strip begins inside the image.
LEMMA FirstRowRange ==
  ASSUME NEW c \in Chunks
  PROVE  FirstRow(c) \in 0..(Length - 1)
<1> DEFINE m == c % StripsPerImage
<1>1. RowsPerStrip \in Nat \ {0} /\ Length \in Nat \ {0} /\ c \in Nat
  BY StripAssumption DEF StripAssumption, Chunks
<1>2. m \in 0..(StripsPerImage - 1)
  BY <1>1, StripsInImage, ModRange
<1>3. m * RowsPerStrip \in Nat /\ m * RowsPerStrip <= (StripsPerImage - 1) * RowsPerStrip
  BY <1>1, <1>2, StripsInImage, TimesMonotone, StripsPerImage - 1 \in Nat
<1>4. (StripsPerImage - 1) * RowsPerStrip = RowsPerStrip * StripsPerImage - RowsPerStrip
  BY <1>1, StripsInImage
<1>5. RowsPerStrip * StripsPerImage \in Nat
  BY <1>1, StripsInImage
<1> HIDE DEF m
<1>6. m * RowsPerStrip \in 0..(Length - 1)
  BY <1>1, <1>3, <1>4, <1>5, StripsInImage
<1> QED
  BY <1>6 DEF m, FirstRow

\* Every row of every sample lies in one of the strips.
LEMMA StripOfRange ==
  ASSUME NEW r \in 0..(Length - 1), NEW sample \in 0..(Planes - 1)
  PROVE  StripOf(r, sample) \in Chunks
<1> DEFINE q == r \div RowsPerStrip
           s == StripsPerImage
<1>1. /\ RowsPerStrip \in Nat \ {0} /\ Length \in Nat \ {0}
      /\ Planes \in Nat \ {0} /\ s \in Nat \ {0}
  BY StripAssumption, StripsInImage DEF StripAssumption
<1>2. q \in Nat /\ RowsPerStrip * q <= r
  BY <1>1, DivRange, r \in Nat
<1> HIDE DEF q, s
<1>3. q < s
  <2>1. SUFFICES ASSUME s <= q PROVE FALSE
    BY <1>1, <1>2
  <2>2. s * RowsPerStrip <= q * RowsPerStrip
    BY <1>1, <1>2, <2>1, TimesMonotone
  <2>3. RowsPerStrip * s <= RowsPerStrip * q
    BY <1>1, <1>2, <2>2
  <2>4. RowsPerStrip * s \in Nat /\ RowsPerStrip * q \in Nat
    BY <1>1, <1>2
  <2> QED
    BY <1>1, <1>2, <2>3, <2>4, StripsInImage DEF s
<1>4. sample * s \in Nat /\ sample * s <= (Planes - 1) * s
  BY <1>1, TimesMonotone, Planes - 1 \in Nat
<1>5. (Planes - 1) * s = s * Planes - s /\ s * Planes \in Nat
  BY <1>1
<1>6. sample * s + q \in 0..(s * Planes - 1)
  BY <1>1, <1>2, <1>3, <1>4, <1>5
<1> QED
  BY <1>6 DEF q, s, StripOf, Chunks

\* A buffer is no smaller than what was asked for.
LEMMA RoundUpRange ==
  ASSUME NEW n \in Nat
  PROVE  RoundUp(n) \in Nat /\ n <= RoundUp(n)
<1>1. Unit \in Nat \ {0} /\ n + Unit - 1 \in Nat
  BY StripAssumption DEF StripAssumption
<1> DEFINE q == (n + Unit - 1) \div Unit
<1>2. q \in Nat /\ n + Unit - 1 < Unit * q + Unit
  BY <1>1, DivRange
<1> HIDE DEF q
<1>3. Unit * q = q * Unit /\ q * Unit \in Nat
  BY <1>1, <1>2
<1>4. q * Unit \in Nat /\ n <= q * Unit
  BY <1>1, <1>2, <1>3
<1> QED
  BY <1>4 DEF q, RoundUp

\* A strip has at least one row, and at most RowsPerStrip.
LEMMA RowsInRange ==
  ASSUME NEW c \in Chunks
  PROVE  RowsIn(c) \in 1..RowsPerStrip
BY FirstRowRange, StripAssumption DEF RowsIn, StripAssumption

-----------------------------------------------------------------------------
(***************************************************************************)
(* The invariant holds at the start and is kept, one lemma for each action *)
(* or for each way a handler may go.                                       *)
(***************************************************************************)
LEMMA InitInv == Init => IInv
<1> SUFFICES ASSUME Init PROVE IInv
  OBVIOUS
<1>1. FlagsOK
  BY Zenon DEF Init, FlagsOK
<1>2. Types
  BY Sizes DEF Init, Types, DirOK, BufferOK, PlaceOK, CallOK, Numbers
<1>3. CallInv /\ BufferInv /\ PlaceInv
  BY Sizes DEF Init, CallInv, Active, BufferInv, BufferKept, DecodesInBuffer, PlaceInv
<1>4. Asked
  BY DEF Init, Asked, RowAsAsked, StripAsAsked
<1> QED
  BY <1>1, <1>2, <1>3, <1>4 DEF IInv

LEMMA ReadScanlineKeeps ==
  ASSUME IInv, ReadScanline
  PROVE  IInv'
<1> USE DEF IInv, ReadScanline, Ask, Return, Fail, Continue, dirVars, bufferVars,
            placeVars, callVars
<1>1. FlagsOK'
  BY DEF FlagsOK
<1>2. Types'
  <2>1. DirOK'
    BY DEF Types, DirOK
  <2>2. BufferOK'
    BY DEF Types, BufferOK
  <2>3. PlaceOK'
    BY DEF Types, PlaceOK
  <2>4. CallOK'
    BY Sizes, StripOfRange DEF Types, CallOK, Numbers
  <2> QED
    BY <2>1, <2>2, <2>3, <2>4 DEF Types
<1>3. CallInv'
  BY Sizes DEF CallInv, Active
<1>4. BufferInv'
  BY DEF BufferInv, BufferKept, DecodesInBuffer
<1>5. PlaceInv'
  BY DEF PlaceInv
<1>6. Asked'
  BY DEF Asked, RowAsAsked, StripAsAsked
<1> QED
  BY <1>1, <1>2, <1>3, <1>4, <1>5, <1>6

LEMMA ReadEncodedStripKeeps ==
  ASSUME IInv, ReadEncodedStrip
  PROVE  IInv'
<1> USE DEF IInv, ReadEncodedStrip, Ask, Return, Fail, Continue, EncodedStripStep,
            dirVars, bufferVars, placeVars, callVars
<1>1. FlagsOK'
  BY DEF FlagsOK
<1>2. Types'
  <2>1. DirOK'
    BY DEF Types, DirOK
  <2>2. BufferOK'
    BY DEF Types, BufferOK
  <2>3. PlaceOK'
    BY DEF Types, PlaceOK
  <2>4. CallOK'
    BY Sizes, FirstRowRange, RowsInRange DEF Types, CallOK, Numbers
  <2> QED
    BY <2>1, <2>2, <2>3, <2>4 DEF Types
<1>3. CallInv'
  BY DEF CallInv, Active
<1>4. BufferInv'
  BY DEF BufferInv, BufferKept, DecodesInBuffer
<1>5. PlaceInv'
  BY DEF PlaceInv
<1>6. Asked'
  BY DEF Asked, RowAsAsked, StripAsAsked
<1> QED
  BY <1>1, <1>2, <1>3, <1>4, <1>5, <1>6

LEMMA ReadEncodedTileKeeps ==
  ASSUME IInv, ReadEncodedTile
  PROVE  IInv'
<1> USE DEF IInv, ReadEncodedTile, Ask, Return, Fail, Continue, dirVars, bufferVars,
            placeVars, callVars
<1>1. FlagsOK'
  BY DEF FlagsOK
<1>2. Types'
  <2>1. DirOK'
    BY DEF Types, DirOK
  <2>2. BufferOK'
    BY DEF Types, BufferOK
  <2>3. PlaceOK'
    BY DEF Types, PlaceOK
  <2>4. CallOK'
    BY Sizes DEF Types, CallOK, Numbers
  <2> QED
    BY <2>1, <2>2, <2>3, <2>4 DEF Types
<1>3. CallInv'
  BY DEF CallInv, Active
<1>4. BufferInv'
  BY DEF BufferInv, BufferKept, DecodesInBuffer
<1>5. PlaceInv'
  BY DEF PlaceInv
<1>6. Asked'
  BY DEF Asked, RowAsAsked, StripAsAsked
<1> QED
  BY <1>1, <1>2, <1>3, <1>4, <1>5, <1>6

LEMMA ReadRawKeeps ==
  ASSUME IInv, ReadRaw
  PROVE  IInv'
<1> USE DEF IInv, ReadRaw, Ask, Return, Fail, Continue, dirVars, bufferVars, placeVars,
            callVars
<1>1. FlagsOK'
  BY DEF FlagsOK
<1>2. Types'
  <2>1. DirOK'
    BY DEF Types, DirOK
  <2>2. BufferOK'
    BY DEF Types, BufferOK
  <2>3. PlaceOK'
    BY DEF Types, PlaceOK
  <2>4. CallOK'
    BY Sizes DEF CallOK, Numbers
  <2> QED
    BY <2>1, <2>2, <2>3, <2>4 DEF Types
<1>3. CallInv'
  BY DEF CallInv, Active
<1>4. BufferInv'
  BY DEF BufferInv, BufferKept, DecodesInBuffer
<1>5. PlaceInv'
  BY DEF PlaceInv
<1>6. Asked'
  BY DEF Asked, RowAsAsked, StripAsAsked
<1> QED
  BY <1>1, <1>2, <1>3, <1>4, <1>5, <1>6

LEMMA NoBytesKeeps ==
  ASSUME IInv, pc = "fill", UNCHANGED <<dirVars, mapped, codersetup, callVars>>, NoBytes
  PROVE  IInv'
<1> USE DEF IInv, NoBytes, Return, Fail, Continue, dirVars, bufferVars, placeVars,
            callVars
<1>1. FlagsOK'
  BY DEF FlagsOK
<1>2. Types'
  BY DEF Types, DirOK, BufferOK, PlaceOK, CallOK
<1>3. CallInv'
  BY DEF CallInv, Active
<1>4. BufferInv'
  BY DEF BufferInv, BufferKept, DecodesInBuffer
<1>5. PlaceInv'
  BY DEF PlaceInv
<1>6. Asked'
  BY DEF Asked, RowAsAsked, StripAsAsked
<1> QED
  BY <1>1, <1>2, <1>3, <1>4, <1>5, <1>6

LEMMA MapChunkKeeps ==
  ASSUME IInv, pc = "fill", UNCHANGED <<dirVars, mapped, codersetup, callVars>>, MapChunk
  PROVE  IInv'
<1> USE DEF IInv, MapChunk, Return, Fail, Continue, Disowned, dirVars, bufferVars,
            placeVars, callVars
<1>1. FlagsOK'
  BY DEF FlagsOK
<1>2. Types'
  <2>1. DirOK'
    BY DEF Types, DirOK
  <2>2. BufferOK'
    BY Sizes DEF Types, DirOK, BufferOK, CallOK
  <2>3. PlaceOK'
    BY DEF Types, PlaceOK
  <2>4. CallOK'
    BY DEF Types, CallOK
  <2> QED
    BY <2>1, <2>2, <2>3, <2>4 DEF Types
<1>3. CallInv'
  BY DEF CallInv, Active
<1>4. BufferInv'
  <2>1. bytecount[chunk] \in Nat /\ bytecount[chunk] > 0
    BY Sizes DEF Types, DirOK, CallOK
  <2>2. BufferKept' /\ (tif_rawdata' = "none" => tif_rawdatasize' = 0) /\ pc' # "read"
    BY DEF BufferInv, BufferKept
  <2>3. CASE chunk \in beyond
    BY <2>2, <2>3 DEF BufferInv, DecodesInBuffer
  <2>4. CASE chunk \notin beyond
    <3>1. /\ pc' = "start" /\ bytecount' = bytecount /\ chunk' = chunk
          /\ tif_rawdata' = "map" /\ tif_rawdatasize' = bytecount[chunk]
      BY <2>4
    <3> QED
      BY <2>1, <2>2, <3>1 DEF BufferInv, DecodesInBuffer
  <2> QED
    BY <2>3, <2>4
<1>5. PlaceInv'
  BY DEF PlaceInv
<1>6. Asked'
  BY DEF Asked, RowAsAsked, StripAsAsked
<1> QED
  BY <1>1, <1>2, <1>3, <1>4, <1>5, <1>6

LEMMA NotMineKeeps ==
  ASSUME IInv, pc = "fill", UNCHANGED <<dirVars, mapped, codersetup, callVars>>, NotMine
  PROVE  IInv'
<1> USE DEF IInv, NotMine, Return, Fail, Continue, dirVars, bufferVars, placeVars,
            callVars
<1>1. FlagsOK'
  BY DEF FlagsOK
<1>2. Types'
  BY DEF Types, DirOK, BufferOK, PlaceOK, CallOK
<1>3. CallInv'
  BY DEF CallInv, Active
<1>4. BufferInv'
  BY DEF BufferInv, BufferKept, DecodesInBuffer
<1>5. PlaceInv'
  BY DEF PlaceInv
<1>6. Asked'
  BY DEF Asked, RowAsAsked, StripAsAsked
<1> QED
  BY <1>1, <1>2, <1>3, <1>4, <1>5, <1>6

LEMMA BufferSetupKeeps ==
  ASSUME IInv, pc = "fill", UNCHANGED <<dirVars, mapped, codersetup, callVars>>,
         BufferSetup
  PROVE  IInv'
<1> USE DEF IInv, BufferSetup, Return, Fail, Continue, Forget, dirVars, bufferVars,
            placeVars, callVars
<1>1. FlagsOK'
  BY DEF FlagsOK
<1>2. Types'
  <2>1. DirOK'
    BY DEF Types, DirOK
  <2>2. BufferOK'
    BY Sizes, RoundUpRange DEF Types, DirOK, BufferOK, CallOK
  <2>3. PlaceOK'
    BY DEF Types, PlaceOK
  <2>4. CallOK'
    BY DEF Types, CallOK
  <2> QED
    BY <2>1, <2>2, <2>3, <2>4 DEF Types
<1>3. CallInv'
  BY DEF CallInv, Active
<1>4. BufferInv'
  BY Sizes, RoundUpRange DEF BufferInv, BufferKept, DecodesInBuffer, Types, DirOK, CallOK
<1>5. PlaceInv'
  BY DEF PlaceInv
<1>6. Asked'
  BY DEF Asked, RowAsAsked, StripAsAsked
<1> QED
  BY <1>1, <1>2, <1>3, <1>4, <1>5, <1>6

\* The buffer is the library's and large enough: the data is read over it.
LEMMA RoomKeeps ==
  ASSUME IInv, Fill, OwnBuffer, ~TooSmall, ~buffermmap,
         Continue("read"), UNCHANGED <<bufferVars, placeVars>>
  PROVE  IInv'
<1> USE DEF IInv, Fill, Continue, dirVars, bufferVars, placeVars, callVars
<1>1. FlagsOK'
  BY DEF FlagsOK
<1>2. Types'
  BY DEF Types, DirOK, BufferOK, PlaceOK, CallOK
<1>3. CallInv'
  BY DEF CallInv, Active
<1>4. BufferInv'
  <2>1. bytecount[chunk] \in Nat /\ tif_rawdatasize \in Nat /\ bytecount[chunk] > 0
    BY Sizes DEF Types, DirOK, BufferOK, CallOK, OwnBuffer
  <2>2. bytecount[chunk] <= tif_rawdatasize /\ tif_rawdata = "own"
    BY <2>1 DEF BufferInv, BufferKept, BufferOK, Types, TooSmall
  <2> QED
    BY <2>2 DEF BufferInv, BufferKept, DecodesInBuffer
<1>5. PlaceInv'
  BY DEF PlaceInv
<1>6. Asked'
  BY DEF Asked, RowAsAsked, StripAsAsked
<1> QED
  BY <1>1, <1>2, <1>3, <1>4, <1>5, <1>6

LEMMA ReadAllKeeps ==
  ASSUME IInv, pc = "read",
         UNCHANGED <<dirVars, mapped, tif_rawdata, tif_rawdatasize, mybuffer, buffermmap,
                     codersetup, tif_curstrip, tif_row, at, callVars>>, ReadAll
  PROVE  IInv'
<1> USE DEF IInv, ReadAll, Return, Fail, Continue, dirVars, bufferVars, placeVars,
            callVars
<1>1. FlagsOK'
  BY DEF FlagsOK
<1>2. Types'
  BY DEF Types, DirOK, BufferOK, PlaceOK, CallOK
<1>3. CallInv'
  BY DEF CallInv, Active
<1>4. BufferInv'
  BY DEF BufferInv, BufferKept, DecodesInBuffer
<1>5. PlaceInv'
  BY DEF PlaceInv
<1>6. Asked'
  BY DEF Asked, RowAsAsked, StripAsAsked
<1> QED
  BY <1>1, <1>2, <1>3, <1>4, <1>5, <1>6

LEMMA ReadNothingKeeps ==
  ASSUME IInv, pc = "read",
         UNCHANGED <<dirVars, mapped, tif_rawdata, tif_rawdatasize, mybuffer, buffermmap,
                     codersetup, tif_curstrip, tif_row, at, callVars>>, ReadNothing
  PROVE  IInv'
<1> USE DEF IInv, ReadNothing, Return, Fail, Continue, dirVars, bufferVars, placeVars,
            callVars
<1>1. FlagsOK'
  BY DEF FlagsOK
<1>2. Types'
  BY DEF Types, DirOK, BufferOK, PlaceOK, CallOK
<1>3. CallInv'
  BY DEF CallInv, Active
<1>4. BufferInv'
  BY DEF BufferInv, BufferKept, DecodesInBuffer
<1>5. PlaceInv'
  BY DEF PlaceInv
<1>6. Asked'
  BY DEF Asked, RowAsAsked, StripAsAsked
<1> QED
  BY <1>1, <1>2, <1>3, <1>4, <1>5, <1>6

LEMMA ReadPartKeeps ==
  ASSUME IInv, pc = "read",
         UNCHANGED <<dirVars, mapped, tif_rawdata, tif_rawdatasize, mybuffer, buffermmap,
                     codersetup, tif_curstrip, tif_row, at, callVars>>, ReadPart
  PROVE  IInv'
<1> USE DEF IInv, ReadPart, Return, Fail, Continue, dirVars, bufferVars, placeVars,
            callVars
<1>1. FlagsOK'
  BY DEF FlagsOK
<1>2. Types'
  BY DEF Types, DirOK, BufferOK, PlaceOK, CallOK
<1>3. CallInv'
  BY DEF CallInv, Active
<1>4. BufferInv'
  BY DEF BufferInv, BufferKept, DecodesInBuffer
<1>5. PlaceInv'
  BY DEF PlaceInv
<1>6. Asked'
  BY DEF Asked, RowAsAsked, StripAsAsked
<1> QED
  BY <1>1, <1>2, <1>3, <1>4, <1>5, <1>6

\* A strip that is current was started once, so the codec is set up: none is lost.
LEMMA SetupFailsKeeps ==
  ASSUME IInv, pc = "start", UNCHANGED <<dirVars, mapped, bufferVars, callVars>>,
         SetupFails
  PROVE  IInv'
<1> USE DEF IInv, SetupFails, Return, Fail, Continue, dirVars, bufferVars, placeVars,
            callVars
<1>1. FlagsOK'
  BY DEF FlagsOK
<1>2. Types'
  BY DEF Types, DirOK, BufferOK, PlaceOK, CallOK
<1>3. CallInv'
  BY DEF CallInv, Active
<1>4. BufferInv'
  BY DEF BufferInv, BufferKept, DecodesInBuffer, PlaceInv
<1>5. PlaceInv'
  BY DEF PlaceInv
<1>6. Asked'
  BY DEF Asked, RowAsAsked, StripAsAsked
<1> QED
  BY <1>1, <1>2, <1>3, <1>4, <1>5, <1>6

LEMMA PreparedKeeps ==
  ASSUME IInv, pc = "start", UNCHANGED <<dirVars, mapped, bufferVars, callVars>>, Prepared
  PROVE  IInv'
<1> USE DEF IInv, Prepared, Return, Fail, Continue, Started, dirVars, bufferVars,
            placeVars, callVars
<1>1. FlagsOK'
  BY DEF FlagsOK
<1>2. Types'
  BY Sizes, FirstRowRange DEF Types, DirOK, BufferOK, PlaceOK, CallOK
<1>3. CallInv'
  BY DEF CallInv, Active
<1>4. BufferInv'
  BY DEF BufferInv, BufferKept, DecodesInBuffer, PlaceInv
<1>5. PlaceInv'
  BY Sizes, FirstRowRange DEF PlaceInv, CallInv, Active, Types, CallOK
<1>6. Asked'
  BY DEF Asked, RowAsAsked, StripAsAsked
<1> QED
  BY <1>1, <1>2, <1>3, <1>4, <1>5, <1>6

LEMMA PredecodeFailsKeeps ==
  ASSUME IInv, pc = "start", UNCHANGED <<dirVars, mapped, bufferVars, callVars>>,
         PredecodeFails
  PROVE  IInv'
<1> USE DEF IInv, PredecodeFails, Return, Fail, Continue, Started, dirVars, bufferVars,
            placeVars, callVars
<1>1. FlagsOK'
  BY DEF FlagsOK
<1>2. Types'
  BY Sizes, FirstRowRange DEF Types, DirOK, BufferOK, PlaceOK, CallOK
<1>3. CallInv'
  BY DEF CallInv, Active
<1>4. BufferInv'
  BY DEF BufferInv, BufferKept, DecodesInBuffer, PlaceInv
<1>5. PlaceInv'
  BY DEF PlaceInv, Lost
<1>6. Asked'
  BY DEF Asked, RowAsAsked, StripAsAsked
<1> QED
  BY <1>1, <1>2, <1>3, <1>4, <1>5, <1>6

LEMMA SeekKeeps ==
  ASSUME IInv, Seek
  PROVE  IInv'
<1> USE DEF IInv, Seek, Return, Fail, Continue, MustRewind, Forward, dirVars, bufferVars,
            placeVars, callVars
<1>1. FlagsOK'
  BY DEF FlagsOK
<1>2. Types'
  BY DEF Types, DirOK, BufferOK, PlaceOK, CallOK
<1>3. CallInv'
  BY DEF CallInv, Active
<1>4. BufferInv'
  BY Sizes DEF BufferInv, BufferKept, DecodesInBuffer, PlaceInv, Types, CallOK
<1>5. PlaceInv'
  BY Sizes DEF PlaceInv, CallInv, Types, CallOK, PlaceOK
<1>6. Asked'
  BY DEF Asked, RowAsAsked, StripAsAsked
<1> QED
  BY <1>1, <1>2, <1>3, <1>4, <1>5, <1>6

LEMMA DecodedKeeps ==
  ASSUME IInv, pc = "decode", tif_row' = NextRow,
         UNCHANGED <<dirVars, mapped, bufferVars, codersetup, tif_curstrip, callVars>>,
         Decoded
  PROVE  IInv'
<1> USE DEF IInv, Decoded, Return, Fail, Continue, NextRow, dirVars, bufferVars,
            placeVars, callVars
<1>1. FlagsOK'
  BY DEF FlagsOK
<1>2. Types'
  BY Sizes DEF Types, DirOK, BufferOK, PlaceOK, CallOK, CallInv, Active
<1>3. CallInv'
  BY DEF CallInv, Active
<1>4. BufferInv'
  BY DEF BufferInv, BufferKept, DecodesInBuffer, PlaceInv
<1>5. PlaceInv'
  BY Sizes DEF PlaceInv, Lost, CallInv, Active
<1>6. Asked'
  BY Sizes DEF Asked, RowAsAsked, StripAsAsked, CallInv, PlaceInv, Active, Types, CallOK
<1> QED
  BY <1>1, <1>2, <1>3, <1>4, <1>5, <1>6

LEMMA DecodeFailsKeeps ==
  ASSUME IInv, pc = "decode", tif_row' = NextRow,
         UNCHANGED <<dirVars, mapped, bufferVars, codersetup, tif_curstrip, callVars>>,
         DecodeFails
  PROVE  IInv'
<1> USE DEF IInv, DecodeFails, Return, Fail, Continue, NextRow, dirVars, bufferVars,
            placeVars, callVars
<1>1. FlagsOK'
  BY DEF FlagsOK
<1>2. Types'
  BY Sizes DEF Types, DirOK, BufferOK, PlaceOK, CallOK, CallInv, Active
<1>3. CallInv'
  BY DEF CallInv, Active
<1>4. BufferInv'
  BY DEF BufferInv, BufferKept, DecodesInBuffer, PlaceInv
<1>5. PlaceInv'
  BY DEF PlaceInv, Lost
<1>6. Asked'
  BY DEF Asked, RowAsAsked, StripAsAsked
<1> QED
  BY <1>1, <1>2, <1>3, <1>4, <1>5, <1>6

LEMMA FreeDirectoryKeeps ==
  ASSUME IInv, FreeDirectory
  PROVE  IInv'
<1> USE DEF IInv, FreeDirectory, Return, Fail, Continue, dirVars, bufferVars, placeVars,
            callVars
<1>1. FlagsOK'
  BY DEF FlagsOK
<1>2. Types'
  <2>1. DirOK'
    BY Sizes DEF DirOK
  <2>2. BufferOK'
    BY DEF Types, BufferOK
  <2>3. PlaceOK'
    BY DEF Types, PlaceOK
  <2>4. CallOK'
    BY Sizes DEF Types, CallOK, Numbers
  <2> QED
    BY <2>1, <2>2, <2>3, <2>4 DEF Types
<1>3. CallInv'
  BY DEF CallInv, Active
<1>4. BufferInv'
  BY DEF BufferInv, BufferKept, DecodesInBuffer
<1>5. PlaceInv'
  BY DEF PlaceInv
<1>6. Asked'
  BY DEF Asked, RowAsAsked, StripAsAsked
<1> QED
  BY <1>1, <1>2, <1>3, <1>4, <1>5, <1>6

LEMMA ReadDirectoryKeeps ==
  ASSUME IInv, ReadDirectory
  PROVE  IInv'
<1> USE DEF IInv, ReadDirectory, Return, Fail, Continue, dirVars, bufferVars, placeVars,
            callVars
<1>1. FlagsOK'
  BY DEF FlagsOK
<1>2. Types'
  BY Sizes DEF Types, DirOK, BufferOK, PlaceOK, CallOK
<1>3. CallInv'
  BY DEF CallInv, Active
<1>4. BufferInv'
  BY DEF BufferInv, BufferKept, DecodesInBuffer
<1>5. PlaceInv'
  BY DEF PlaceInv
<1>6. Asked'
  BY DEF Asked, RowAsAsked, StripAsAsked, CallInv
<1> QED
  BY <1>1, <1>2, <1>3, <1>4, <1>5, <1>6

LEMMA FillKeeps ==
  ASSUME IInv, Fill
  PROVE  IInv'
<1>1. CASE NoBytes
  BY <1>1, NoBytesKeeps DEF Fill
<1>2. CASE MapChunk
  BY <1>2, MapChunkKeeps DEF Fill
<1>3. CASE OwnBuffer
  BY <1>3, NotMineKeeps, BufferSetupKeeps, RoomKeeps DEF Fill, OwnBuffer
<1> QED
  BY <1>1, <1>2, <1>3 DEF Fill

LEMMA NextKeeps == IInv /\ [Next]_vars => IInv'
<1> SUFFICES ASSUME IInv, [Next]_vars PROVE IInv'
  OBVIOUS
<1>1. CASE ReadScanline
  BY <1>1, ReadScanlineKeeps
<1>2. CASE ReadEncodedStrip
  BY <1>2, ReadEncodedStripKeeps
<1>3. CASE ReadEncodedTile
  BY <1>3, ReadEncodedTileKeeps
<1>4. CASE ReadRaw
  BY <1>4, ReadRawKeeps
<1>5. CASE FreeDirectory
  BY <1>5, FreeDirectoryKeeps
<1>6. CASE Fill
  BY <1>6, FillKeeps
<1>7. CASE ReadRawData
  BY <1>7, ReadAllKeeps, ReadNothingKeeps, ReadPartKeeps DEF ReadRawData
<1>8. CASE Start
  BY <1>8, SetupFailsKeeps, PreparedKeeps, PredecodeFailsKeeps DEF Start
<1>9. CASE Seek
  BY <1>9, SeekKeeps
<1>10. CASE Decode
  BY <1>10, DecodedKeeps, DecodeFailsKeeps DEF Decode
<1>11. CASE ReadDirectory
  BY <1>11, ReadDirectoryKeeps
<1>12. CASE UNCHANGED vars
  <2> USE <1>12 DEF IInv, vars
  <2>1. FlagsOK' /\ Types'
    BY DEF FlagsOK, Types, DirOK, BufferOK, PlaceOK, CallOK
  <2>2. CallInv' /\ PlaceInv' /\ Asked'
    BY DEF CallInv, Active, PlaceInv, Asked, RowAsAsked, StripAsAsked
  <2>3. BufferInv'
    BY DEF BufferInv, BufferKept, DecodesInBuffer
  <2> QED
    BY <2>1, <2>2, <2>3
<1> QED
  BY <1>1, <1>2, <1>3, <1>4, <1>5, <1>6, <1>7, <1>8, <1>9, <1>10, <1>11, <1>12
     DEF Next, Client, Step

-----------------------------------------------------------------------------
LEMMA Invariance == Spec => []IInv
BY InitInv, NextKeeps, PTL DEF Spec

\* The handle only ever holds values of its types; tif_row and every row asked
\* for lie in the image (tif_read.c:165-274).
THEOREM StripTypes == Spec => []TypeOK
BY Invariance, InvImplies, PTL

\* A scanline handed over is the row asked for of the strip asked for, in every
\* order of calls, directories and failures, unless the history names a reason
\* (tif_read.c:165-308).
THEOREM RowsAsAsked == Spec => []RowAsAsked
<1>1. IInv => RowAsAsked
  BY DEF IInv, Asked
<1> QED
  BY <1>1, Invariance, PTL

\* An encoded strip or tile handed over is the one asked for, from its first
\* row, whatever failed before (tif_read.c:316-364, 653-680).
THEOREM StripsAsAsked == Spec => []StripAsAsked
<1>1. IInv => StripAsAsked
  BY DEF IInv, Asked
<1> QED
  BY <1>1, Invariance, PTL

\* The flags tell the truth of the raw buffer: the library frees its own memory
\* and never the map, and reads into its own (tif_read.c:519-606, 909-934).
THEOREM BufferAlwaysKept == Spec => []BufferKept
<1>1. IInv => BufferKept
  BY DEF IInv, BufferInv
<1> QED
  BY <1>1, Invariance, PTL

\* The bytes the decoder is told to use lie in the raw buffer, for every size of
\* strip and unit of allocation (tif_read.c:988-989).
THEOREM AlwaysDecodesInBuffer == Spec => []DecodesInBuffer
<1>1. IInv => DecodesInBuffer
  BY DEF IInv, BufferInv
<1> QED
  BY <1>1, Invariance, PTL
=============================================================================
